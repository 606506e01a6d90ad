-------------------------- MODULE ActivationLemmas --------------------------
(***************************************************************************)
(* What Activation computes on one instruction, whatever the activation    *)
(* did before: the arithmetic of the program is that of the specification  *)
(* for any widths of the numbers, the slots of a stack are laid out value  *)
(* by value, every instruction has operands and a length that its handler  *)
(* expects, and copying blocks of slots copies values.                     *)
(***************************************************************************)
EXTENDS Activation, FiniteSetTheorems, FunctionTheorems, SequenceTheorems, WellFoundedInduction, TLAPS

-----------------------------------------------------------------------------
(* Induction and recursion over numbers, in a form the provers can         *)
(* instantiate: over sets and functions, not over predicates.              *)

LEMMA LeastNumber ==
  ASSUME NEW S \in SUBSET Nat, S # {}
  PROVE  \E n \in S : \A m \in S : n <= m
<1>1. IsWellFoundedOn(OpToRel(<, Nat), Nat)
  BY NatLessThanWellFounded
<1>2. PICK n \in S : \A m \in S : ~(<<m, n>> \in OpToRel(<, Nat))
  BY <1>1, WFMin
<1>3. \A m \in S : ~(m < n)
  BY <1>2 DEF OpToRel
<1> QED
  BY <1>3

LEMMA Induction ==
  ASSUME NEW S \in SUBSET Nat, 0 \in S, \A n \in S : n + 1 \in S
  PROVE  S = Nat
<1> SUFFICES ASSUME S # Nat
             PROVE  FALSE
  OBVIOUS
<1>1. PICK n \in Nat \ S : \A m \in Nat \ S : n <= m
  BY LeastNumber
<1>2. n # 0 /\ n - 1 \in S
  BY <1>1
<1> QED
  BY <1>1, <1>2

LEMMA InductionUpTo ==
  ASSUME NEW m \in Nat, NEW S, 0 \in S, \A n \in 0 .. m : n \in S /\ n < m => n + 1 \in S
  PROVE  \A n \in 0 .. m : n \in S
<1> SUFFICES ASSUME NEW k \in 0 .. m, k \notin S
             PROVE  FALSE
  OBVIOUS
<1> DEFINE Missing == {n \in Nat : n <= m /\ n \notin S}
<1>1. k \in Missing
  OBVIOUS
<1>2. PICK n \in Missing : \A l \in Missing : n <= l
  <2> HIDE DEF Missing
  <2>1. Missing \in SUBSET Nat
    BY DEF Missing
  <2> QED
    BY <1>1, <2>1, LeastNumber
<1>3. n \in Nat /\ n <= m /\ n \notin S /\ n # 0
  OBVIOUS
<1>4. n - 1 \in 0 .. m /\ n - 1 < m /\ n - 1 \notin Missing
  BY <1>2, <1>3
<1>5. n - 1 \in S
  BY <1>4
<1> QED
  BY <1>3, <1>4, <1>5

\* A function that begins with `base' and goes on by `step'.
Iterates(f, m, base, step) == f = [n \in 0 .. m |-> IF n = 0 THEN base ELSE step[<<f[n - 1], n>>]]

LEMMA Iteration ==
  ASSUME NEW m \in Nat, NEW V, NEW base \in V, NEW step \in [V \X Nat -> V]
  PROVE  \E f \in [0 .. m -> V] : Iterates(f, m, base, step)
<1> DEFINE S == {k \in Nat : \E f \in [0 .. k -> V] : Iterates(f, k, base, step)}
<1>1. 0 \in S
  <2>1. Iterates([n \in 0 .. 0 |-> base], 0, base, step)
    BY DEF Iterates
  <2>2. [n \in 0 .. 0 |-> base] \in [0 .. 0 -> V]
    OBVIOUS
  <2> QED
    BY <2>1, <2>2
<1>2. ASSUME NEW k \in S
      PROVE  k + 1 \in S
  <2>1. PICK f \in [0 .. k -> V] : Iterates(f, k, base, step)
    OBVIOUS
  <2> DEFINE g == [n \in 0 .. (k + 1) |-> IF n <= k THEN f[n] ELSE step[<<f[k], k + 1>>]]
  <2>2. g \in [0 .. (k + 1) -> V]
    OBVIOUS
  <2>3. ASSUME NEW n \in 0 .. (k + 1)
        PROVE  g[n] = IF n = 0 THEN base ELSE step[<<g[n - 1], n>>]
    <3>1. CASE n <= k
      BY <2>1, <3>1 DEF Iterates
    <3>2. CASE n = k + 1
      BY <3>2
    <3> QED
      BY <3>1, <3>2
  <2>4. Iterates(g, k + 1, base, step)
    BY <2>2, <2>3 DEF Iterates
  <2> QED
    BY <2>2, <2>4
<1>3. S = Nat
  <2> HIDE DEF S
  <2>1. S \in SUBSET Nat
    BY DEF S
  <2> QED
    BY <1>1, <1>2, <2>1, Induction
<1> QED
  BY <1>3

-----------------------------------------------------------------------------
(* Powers of two. *)

LEMMA PowerIsNatural ==
  ASSUME NEW n \in Nat
  PROVE  2 ^ n \in Nat \ {0}
<1>1. IsFiniteSet(1 .. n) /\ Cardinality(1 .. n) = n
  BY FS_Interval
<1>2. IsFiniteSet(SUBSET (1 .. n)) /\ Cardinality(SUBSET (1 .. n)) = 2 ^ n
  BY <1>1, FS_SUBSET
<1>3. SUBSET (1 .. n) # {}
  OBVIOUS
<1> QED
  BY <1>2, <1>3, FS_CardinalityType, FS_EmptySet

LEMMA PowerZero == 2 ^ 0 = 1
<1>1. Cardinality({}) = 0 /\ IsFiniteSet({})
  BY FS_EmptySet
<1>2. Cardinality(SUBSET {}) = 2 ^ 0
  BY <1>1, FS_SUBSET
<1>3. SUBSET {} = {{}}
  OBVIOUS
<1>4. Cardinality({{}}) = 1
  BY FS_Singleton
<1> QED
  BY <1>2, <1>3, <1>4

\* The subsets of 1 .. n + 1 are those of 1 .. n, without and with n + 1.
LEMMA PowerDoubles ==
  ASSUME NEW n \in Nat
  PROVE  2 ^ (n + 1) = 2 * 2 ^ n
<1> DEFINE A == SUBSET (1 .. n)
           B == {T \cup {n + 1} : T \in A}
<1>1. IsFiniteSet(1 .. n) /\ Cardinality(1 .. n) = n /\ IsFiniteSet(1 .. (n + 1)) /\ Cardinality(1 .. (n + 1)) = n + 1
  BY FS_Interval
<1>2. IsFiniteSet(A) /\ Cardinality(A) = 2 ^ n
  BY <1>1, FS_SUBSET
<1>3. Cardinality(SUBSET (1 .. (n + 1))) = 2 ^ (n + 1)
  BY <1>1, FS_SUBSET
<1>4. SUBSET (1 .. (n + 1)) = A \cup B
  <2>1. ASSUME NEW T \in SUBSET (1 .. (n + 1))
        PROVE  T \in A \cup B
    <3>1. CASE n + 1 \in T
      <4>1. T = (T \ {n + 1}) \cup {n + 1} /\ T \ {n + 1} \in A
        BY <3>1
      <4> HIDE DEF A
      <4> QED
        BY <4>1
    <3>2. CASE n + 1 \notin T
      BY <3>2
    <3> QED
      BY <3>1, <3>2
  <2>2. ASSUME NEW T \in A
        PROVE  T \in SUBSET (1 .. (n + 1)) /\ T \cup {n + 1} \in SUBSET (1 .. (n + 1))
    OBVIOUS
  <2>3. ASSUME NEW U \in B
        PROVE  U \in SUBSET (1 .. (n + 1))
    <3>1. PICK T \in A : U = T \cup {n + 1}
      OBVIOUS
    <3> HIDE DEF A
    <3> QED
      BY <2>2, <3>1
  <2>4. ASSUME NEW U \in A \cup B
        PROVE  U \in SUBSET (1 .. (n + 1))
    BY <2>2, <2>3
  <2> HIDE DEF A, B
  <2> QED
    BY <2>1, <2>4
<1>5. A \cap B = {}
  <2>1. \A T \in A : n + 1 \notin T
    OBVIOUS
  <2> QED
    BY <2>1
<1>6. IsFiniteSet(B) /\ Cardinality(B) = Cardinality(A)
  <2> DEFINE f == [T \in A |-> T \cup {n + 1}]
  <2>1. \A T \in A : T = f[T] \ {n + 1}
    OBVIOUS
  <2>2. f \in Bijection(A, B)
    <3>1. f \in [A -> B]
      OBVIOUS
    <3>2. \A T, U \in A : f[T] = f[U] => T = U
      BY <2>1
    <3>3. \A U \in B : \E T \in A : f[T] = U
      OBVIOUS
    <3> QED
      BY <3>1, <3>2, <3>3, Fun_IsBij
  <2> QED
    BY <1>2, <2>2, FS_Bijection DEF ExistsBijection
<1>7. Cardinality(A \cup B) = Cardinality(A) + Cardinality(B) - Cardinality(A \cap B)
  BY <1>2, <1>6, FS_Union
<1>8. Cardinality(A) \in Nat /\ Cardinality({}) = 0
  BY <1>2, FS_CardinalityType, FS_EmptySet
<1> HIDE DEF A, B
<1>9. Cardinality(A \cup B) = Cardinality(A) + Cardinality(A) - 0
  BY <1>5, <1>6, <1>7, <1>8
<1>10. Cardinality(A) + Cardinality(A) - 0 = 2 * Cardinality(A)
  BY <1>8
<1> QED
  BY <1>2, <1>3, <1>4, <1>9, <1>10, Zenon

LEMMA PowerOne == 2 ^ 1 = 2
<1>1. 2 ^ (0 + 1) = 2 * 2 ^ 0
  BY PowerDoubles
<1>2. 0 + 1 = 1
  OBVIOUS
<1>3. 2 * 1 = 2
  OBVIOUS
<1> QED
  BY <1>1, <1>2, <1>3, PowerZero, Zenon

\* A number of n bits is one of n - 1 and the highest.
LEMMA PowerHalves ==
  ASSUME NEW n \in Nat \ {0}
  PROVE  2 ^ n = 2 * 2 ^ (n - 1) /\ 2 ^ (n - 1) \in Nat \ {0} /\ 2 ^ n \in Nat \ {0}
<1>1. n - 1 \in Nat /\ (n - 1) + 1 = n
  OBVIOUS
<1>2. 2 ^ ((n - 1) + 1) = 2 * 2 ^ (n - 1)
  BY <1>1, PowerDoubles
<1>3. 2 ^ n \in Nat \ {0}
  BY PowerIsNatural
<1>4. 2 ^ (n - 1) \in Nat \ {0}
  BY <1>1, PowerIsNatural
<1> QED
  BY <1>1, <1>2, <1>3, <1>4, Zenon

LEMMA PowerAdds ==
  ASSUME NEW m \in Nat, NEW n \in Nat
  PROVE  2 ^ (m + n) = 2 ^ m * 2 ^ n
<1> DEFINE S == {k \in Nat : 2 ^ (m + k) = 2 ^ m * 2 ^ k}
<1>1. 0 \in S
  <2>1. 2 ^ m \in Nat
    BY PowerIsNatural
  <2>2. 2 ^ m * 1 = 2 ^ m /\ m + 0 = m
    BY <2>1
  <2> QED
    BY <2>2, PowerZero
<1>2. ASSUME NEW k \in S
      PROVE  k + 1 \in S
  <2>1. 2 ^ (k + 1) = 2 * 2 ^ k /\ 2 ^ ((m + k) + 1) = 2 * 2 ^ (m + k)
    BY PowerDoubles
  <2>2. m + (k + 1) = (m + k) + 1
    OBVIOUS
  <2>3. 2 ^ m \in Nat /\ 2 ^ k \in Nat
    BY PowerIsNatural
  <2>4. 2 * (2 ^ m * 2 ^ k) = 2 ^ m * (2 * 2 ^ k)
    BY <2>3
  <2>5. 2 ^ (m + k) = 2 ^ m * 2 ^ k
    OBVIOUS
  <2>6. 2 ^ (m + (k + 1)) = 2 ^ m * 2 ^ (k + 1)
    BY <2>1, <2>2, <2>4, <2>5, Zenon
  <2> QED
    BY <2>6
<1>3. S = Nat
  <2> HIDE DEF S
  <2>1. S \in SUBSET Nat
    BY DEF S
  <2> QED
    BY <1>1, <1>2, <2>1, Induction
<1> QED
  BY <1>3

\* A power divides every greater one; between them the quotient is even.
LEMMA PowerDivides ==
  ASSUME NEW m \in Nat, NEW n \in Nat, m <= n
  PROVE  /\ 2 ^ n = 2 ^ m * 2 ^ (n - m) /\ 2 ^ m <= 2 ^ n
         /\ 2 ^ (n - m) \in Nat \ {0} /\ 2 ^ m \in Nat \ {0}
         /\ m < n => 2 ^ n = 2 ^ m * (2 * 2 ^ (n - m - 1)) /\ 2 ^ (n - m - 1) \in Nat \ {0}
<1>1. n - m \in Nat /\ m + (n - m) = n
  OBVIOUS
<1>2. 2 ^ n = 2 ^ m * 2 ^ (n - m)
  BY <1>1, PowerAdds
<1>3. 2 ^ (n - m) \in Nat \ {0} /\ 2 ^ m \in Nat \ {0}
  BY <1>1, PowerIsNatural
<1>4. 2 ^ m <= 2 ^ m * 2 ^ (n - m)
  <2>1. ASSUME NEW a \in Nat \ {0}, NEW b \in Nat \ {0}
        PROVE  a <= a * b
    OBVIOUS
  <2> QED
    BY <1>3, <2>1
<1>5. ASSUME m < n
      PROVE  2 ^ n = 2 ^ m * (2 * 2 ^ (n - m - 1)) /\ 2 ^ (n - m - 1) \in Nat \ {0}
  <2>1. n - m \in Nat \ {0}
    BY <1>5
  <2>2. 2 ^ (n - m) = 2 * 2 ^ (n - m - 1) /\ 2 ^ (n - m - 1) \in Nat \ {0}
    BY <2>1, PowerHalves
  <2> QED
    BY <1>2, <2>2, Zenon
<1> QED
  BY <1>2, <1>3, <1>4, <1>5
-----------------------------------------------------------------------------
(* Two's complement. *)

LEMMA DivisionIsUnique ==
  ASSUME NEW m \in Nat \ {0}, NEW q \in Int, NEW r \in Int, 0 <= r, r < m
  PROVE  (m * q + r) % m = r /\ (m * q + r) \div m = q
OBVIOUS

LEMMA Division ==
  ASSUME NEW m \in Nat \ {0}, NEW x \in Int
  PROVE  /\ x \div m \in Int /\ x % m \in Int
         /\ x = m * (x \div m) + (x % m) /\ 0 <= x % m /\ x % m < m
OBVIOUS

\* Numbers closer than m that differ by a multiple of m are the same.
LEMMA NoMultipleBetween ==
  ASSUME NEW m \in Nat \ {0}, NEW d \in Int, d % m = 0, -m < d, d < m
  PROVE  d = 0
<1>1. d = m * (d \div m) /\ d \div m \in Int
  BY Division
<1>2. ASSUME NEW q \in Int, -m < m * q, m * q < m
      PROVE  q = 0
  BY <1>2
<1>3. d \div m = 0
  BY <1>1, <1>2
<1> QED
  BY <1>1, <1>3

LEMMA MultiplesSubtract ==
  ASSUME NEW m \in Nat \ {0}, NEW a \in Int, NEW b \in Int, a % m = 0, b % m = 0
  PROVE  (a - b) % m = 0
<1>1. a = m * (a \div m) /\ b = m * (b \div m) /\ a \div m \in Int /\ b \div m \in Int
  BY Division
<1>2. ASSUME NEW p \in Int, NEW q \in Int
      PROVE  (m * p - m * q) % m = 0
  <2>1. m * p - m * q = m * (p - q) + 0 /\ p - q \in Int
    OBVIOUS
  <2> QED
    BY <2>1, DivisionIsUnique
<1> QED
  BY <1>1, <1>2

LEMMA Multiples ==
  ASSUME NEW m \in Nat \ {0}, NEW q \in Int
  PROVE  (m * q) % m = 0
OBVIOUS

\* The least number that Range2 lacks above, half of the numbers of the width.
LEMMA RangeOfWidth ==
  ASSUME NEW bits \in Nat \ {0}
  PROVE  \E h \in Nat \ {0} : /\ h = 2 ^ (bits - 1) /\ 2 ^ bits = 2 * h
                              /\ \A x : x \in Range2(bits) <=> x \in Int /\ -h <= x /\ x < h
<1>1. 2 ^ bits = 2 * 2 ^ (bits - 1) /\ 2 ^ (bits - 1) \in Nat \ {0}
  BY PowerHalves
<1> DEFINE h == 2 ^ (bits - 1)
<1>2. \A x : x \in Range2(bits) <=> x \in Int /\ -h <= x /\ x < h
  <2>1. h \in Nat /\ Range2(bits) = -h .. (h - 1)
    BY <1>1 DEF Range2
  <2> HIDE DEF h
  <2> QED
    BY <2>1
<1> QED
  BY <1>1, <1>2

LEMMA WrapIsCongruent ==
  ASSUME NEW bits \in Nat \ {0}, NEW x \in Int
  PROVE  /\ Wrap(bits, x) \in Range2(bits)
         /\ Wrap(bits, x) \in Int /\ (Wrap(bits, x) - x) % 2 ^ bits = 0
<1>1. PICK h \in Nat \ {0} : /\ h = 2 ^ (bits - 1) /\ 2 ^ bits = 2 * h
                             /\ \A y : y \in Range2(bits) <=> y \in Int /\ -h <= y /\ y < h
  BY RangeOfWidth
<1>2. Wrap(bits, x) = ((x + h) % (2 * h)) - h
  BY <1>1 DEF Wrap
<1> DEFINE q == (x + h) \div (2 * h)
           r == (x + h) % (2 * h)
<1>3. 2 * h \in Nat \ {0} /\ x + h \in Int
  OBVIOUS
<1>4. q \in Int /\ r \in Int /\ x + h = (2 * h) * q + r /\ 0 <= r /\ r < 2 * h
  BY <1>3, Division
<1> HIDE DEF q, r
<1>5. Wrap(bits, x) = r - h
  BY <1>2 DEF r
<1>6. r - h \in Int /\ -h <= r - h /\ r - h < h
  BY <1>4
<1>7. (r - h) - x = (2 * h) * (-q)
  BY <1>4
<1>8. ((2 * h) * (-q)) % (2 * h) = 0
  <2> DEFINE m == 2 * h
  <2>1. m \in Nat \ {0} /\ -q \in Int
    BY <1>3, <1>4
  <2> HIDE DEF m
  <2>2. (m * (-q)) % m = 0
    BY <2>1, Multiples
  <2> QED
    BY <2>2 DEF m
<1> QED
  BY <1>1, <1>5, <1>6, <1>7, <1>8

\* Two numbers of a width that agree modulo its power are the same.
LEMMA CongruenceIsUnique ==
  ASSUME NEW bits \in Nat \ {0}, NEW x \in Int, NEW y \in Range2(bits), NEW z \in Range2(bits),
         (y - x) % 2 ^ bits = 0, (z - x) % 2 ^ bits = 0
  PROVE  y = z
<1>1. PICK h \in Nat \ {0} : /\ h = 2 ^ (bits - 1) /\ 2 ^ bits = 2 * h
                             /\ \A w : w \in Range2(bits) <=> w \in Int /\ -h <= w /\ w < h
  BY RangeOfWidth
<1>2. y \in Int /\ z \in Int /\ 2 * h \in Nat \ {0} /\ y - x \in Int /\ z - x \in Int
  BY <1>1
<1>3. ((y - x) - (z - x)) % (2 * h) = 0
  <2> DEFINE a == y - x
             b == z - x
             m == 2 * h
  <2>1. a \in Int /\ b \in Int /\ m \in Nat \ {0} /\ a % m = 0 /\ b % m = 0
    BY <1>1, <1>2
  <2> HIDE DEF a, b, m
  <2>2. (a - b) % m = 0
    BY <2>1, MultiplesSubtract
  <2> QED
    BY <2>2 DEF a, b, m
<1>4. (y - x) - (z - x) = y - z /\ y - z \in Int /\ -(2 * h) < y - z /\ y - z < 2 * h
  BY <1>1, <1>2
<1>5. y - z = 0
  BY <1>2, <1>3, <1>4, NoMultipleBetween
<1> QED
  BY <1>2, <1>5

LEMMA CongruentIsWrap ==
  ASSUME NEW bits \in Nat \ {0}, NEW x \in Int
  PROVE  Java!Congruent(bits, x) = Wrap(bits, x)
<1>1. Java!Range2(bits) = Range2(bits)
  BY DEF Java!Range2, Range2
<1>2. Java!Congruent(bits, x) = CHOOSE y \in Range2(bits) : (y - x) % 2 ^ bits = 0
  BY <1>1 DEF Java!Congruent
<1> DEFINE c == CHOOSE y \in Range2(bits) : (y - x) % 2 ^ bits = 0
<1>3. c \in Range2(bits) /\ (c - x) % 2 ^ bits = 0
  BY WrapIsCongruent
<1> HIDE DEF c
<1>4. c = Wrap(bits, x)
  BY <1>3, WrapIsCongruent, CongruenceIsUnique
<1> QED
  BY <1>2, <1>4 DEF c

LEMMA WrapKeeps ==
  ASSUME NEW bits \in Nat \ {0}, NEW x \in Range2(bits)
  PROVE  Wrap(bits, x) = x /\ x \in Int
<1>1. PICK h \in Nat \ {0} : /\ h = 2 ^ (bits - 1) /\ 2 ^ bits = 2 * h
                             /\ \A w : w \in Range2(bits) <=> w \in Int /\ -h <= w /\ w < h
  BY RangeOfWidth
<1>2. x \in Int /\ x - x = 0
  BY <1>1
<1>3. 0 % (2 * h) = 0
  OBVIOUS
<1>4. (x - x) % 2 ^ bits = 0
  BY <1>1, <1>2, <1>3
<1>5. Wrap(bits, x) \in Range2(bits) /\ (Wrap(bits, x) - x) % 2 ^ bits = 0
  BY <1>2, WrapIsCongruent
<1> QED
  BY <1>2, <1>4, <1>5, CongruenceIsUnique

\* A narrower number is one of the wider type, and so is an unsigned narrower one.
LEMMA Widening ==
  ASSUME NEW small \in Nat \ {0}, NEW large \in Nat, small < large
  PROVE  /\ Range2(small) \subseteq Range2(large)
         /\ 0 .. (2 ^ small - 1) \subseteq Range2(large)
<1>1. PICK h \in Nat \ {0} : /\ h = 2 ^ (small - 1) /\ 2 ^ small = 2 * h
                             /\ \A w : w \in Range2(small) <=> w \in Int /\ -h <= w /\ w < h
  BY RangeOfWidth
<1>2. PICK g \in Nat \ {0} : /\ g = 2 ^ (large - 1) /\ 2 ^ large = 2 * g
                             /\ \A w : w \in Range2(large) <=> w \in Int /\ -g <= w /\ w < g
  BY RangeOfWidth
<1>3. 2 ^ small <= 2 ^ (large - 1)
  <2>1. large - 1 \in Nat /\ small <= large - 1
    OBVIOUS
  <2> QED
    BY <2>1, PowerDivides
<1>4. 2 * h <= g
  BY <1>1, <1>2, <1>3
<1> QED
  BY <1>1, <1>2, <1>4
-----------------------------------------------------------------------------
(* Division. *)

LEMMA QuotientTruncates ==
  ASSUME NEW l \in Int, NEW r \in Int, r # 0
  PROVE  \E q \in Nat : /\ Magnitude(l) - q * Magnitude(r) \in 0 .. (Magnitude(r) - 1)
                        /\ Quotient(l, r) = IF (l < 0) = (r < 0) THEN q ELSE -q
<1> DEFINE a == Magnitude(l)
           b == Magnitude(r)
<1>1. a \in Nat /\ b \in Nat \ {0}
  BY DEF Magnitude
<1>2. Quotient(l, r) = IF (l < 0) = (r < 0) THEN a \div b ELSE -(a \div b)
  BY DEF Quotient
<1> HIDE DEF a, b
<1>3. a \div b \in Int /\ a % b \in Int /\ a = b * (a \div b) + (a % b) /\ 0 <= a % b /\ a % b < b
  BY <1>1, Division
<1>4. a \div b >= 0
  BY <1>1, <1>3
<1>5. a - (a \div b) * b = a % b
  BY <1>1, <1>3
<1>6. a \div b \in Nat /\ a - (a \div b) * b \in 0 .. (b - 1)
  BY <1>1, <1>3, <1>4, <1>5
<1> QED
  BY <1>2, <1>6 DEF a, b

LEMMA ExactQuotient ==
  ASSUME NEW p \in Int, NEW r \in Int, r # 0
  PROVE  Quotient(p * r, r) = p
<1>1. p * r \in Int
  OBVIOUS
<1>2. PICK q \in Nat : /\ Magnitude(p * r) - q * Magnitude(r) \in 0 .. (Magnitude(r) - 1)
                       /\ Quotient(p * r, r) = IF (p * r < 0) = (r < 0) THEN q ELSE -q
  BY <1>1, QuotientTruncates
<1>3. Magnitude(p * r) = Magnitude(p) * Magnitude(r) /\ Magnitude(p) \in Nat /\ Magnitude(r) \in Nat \ {0}
  <2>1. ASSUME NEW a \in Int, NEW b \in Int, b # 0
        PROVE  (a * b < 0) <=> (a < 0 /\ b > 0) \/ (a > 0 /\ b < 0)
    OBVIOUS
  <2>2. (p * r < 0) <=> (p < 0 /\ r > 0) \/ (p > 0 /\ r < 0)
    BY <2>1
  <2> QED
    BY <2>2 DEF Magnitude
<1>4. Magnitude(p) = q
  <2>1. ASSUME NEW a \in Nat, NEW b \in Nat \ {0}, a * b - q * b \in 0 .. (b - 1)
        PROVE  a = q
    <3>1. a * b - q * b = (a - q) * b
      OBVIOUS
    <3>2. ASSUME a - q < 0
          PROVE  FALSE
      BY <2>1, <3>1, <3>2
    <3>3. ASSUME a - q > 0
          PROVE  FALSE
      BY <2>1, <3>1, <3>3
    <3> QED
      BY <3>2, <3>3
  <2>2. Magnitude(p) * Magnitude(r) - q * Magnitude(r) \in 0 .. (Magnitude(r) - 1)
    BY <1>2, <1>3
  <2> QED
    BY <1>3, <2>1, <2>2
<1>5. CASE p = 0
  BY <1>2, <1>4, <1>5 DEF Magnitude
<1>6. CASE p > 0
  <2>1. (p * r < 0) = (r < 0)
    BY <1>6
  <2> QED
    BY <1>2, <1>4, <1>6, <2>1 DEF Magnitude
<1>7. CASE p < 0
  <2>1. (p * r < 0) # (r < 0)
    BY <1>7
  <2> QED
    BY <1>2, <1>4, <1>7, <2>1 DEF Magnitude
<1> QED
  BY <1>5, <1>6, <1>7

\* What the specification asks of a quotient that is not exact.
Truncates(q, l, r) ==
    /\ 0 < Magnitude(l) - Magnitude(q * r)
    /\ Magnitude(l) - Magnitude(q * r) < Magnitude(r)
    /\ Java!SameSign(q, l * r)

LEMMA MagnitudeOfProduct ==
  ASSUME NEW a \in Int, NEW b \in Int
  PROVE  /\ Magnitude(a * b) = Magnitude(a) * Magnitude(b)
         /\ Magnitude(a) \in Nat
         /\ a = 0 <=> Magnitude(a) = 0
         /\ a * b < 0 <=> (a < 0 /\ b > 0) \/ (a > 0 /\ b < 0)
         /\ a * b = 0 <=> a = 0 \/ b = 0
<1>1. a * b < 0 <=> (a < 0 /\ b > 0) \/ (a > 0 /\ b < 0)
  OBVIOUS
<1>2. a * b = 0 <=> a = 0 \/ b = 0
  OBVIOUS
<1> QED
  BY <1>1, <1>2 DEF Magnitude

LEMMA TruncationIsUnique ==
  ASSUME NEW l \in Int, NEW r \in Int, r # 0, NEW p \in Int, NEW q \in Int,
         Truncates(p, l, r), Truncates(q, l, r)
  PROVE  p = q
<1> DEFINE a == Magnitude(l)
           b == Magnitude(r)
           m == Magnitude(p)
           n == Magnitude(q)
<1>1. /\ Magnitude(p * r) = m * b /\ Magnitude(q * r) = n * b
      /\ m \in Nat /\ n \in Nat /\ a \in Nat /\ b \in Nat \ {0}
  BY MagnitudeOfProduct
<1>2. 0 < a - m * b /\ a - m * b < b /\ 0 < a - n * b /\ a - n * b < b
  BY <1>1 DEF Truncates
<1>3. m = n
  <2> HIDE DEF a, b, m, n
  <2>1. ASSUME NEW i \in Nat, NEW j \in Nat, 0 < a - i * b, a - j * b < b
        PROVE  i <= j
    <3>1. i * b < (j + 1) * b
      BY <1>1, <2>1
    <3>2. (j + 1 - i) * b > 0 /\ j + 1 - i \in Int
      BY <1>1, <3>1
    <3> QED
      BY <1>1, <3>2
  <2>2. m <= n
    BY <1>1, <1>2, <2>1
  <2>3. n <= m
    BY <1>1, <1>2, <2>1
  <2> QED
    BY <1>1, <2>2, <2>3
<1>4. (p = 0 \/ (p < 0) = (l * r < 0)) /\ (q = 0 \/ (q < 0) = (l * r < 0))
  BY DEF Truncates, Java!SameSign
<1> QED
  BY <1>3, <1>4 DEF Magnitude

LEMMA InexactQuotient ==
  ASSUME NEW l \in Int, NEW r \in Int, r # 0, Quotient(l, r) * r # l
  PROVE  Truncates(Quotient(l, r), l, r)
<1>1. PICK n \in Nat : /\ Magnitude(l) - n * Magnitude(r) \in 0 .. (Magnitude(r) - 1)
                       /\ Quotient(l, r) = IF (l < 0) = (r < 0) THEN n ELSE -n
  BY QuotientTruncates
<1> DEFINE q == Quotient(l, r)
<1>2. q \in Int /\ Magnitude(q) = n
  BY <1>1 DEF Magnitude
<1>3. Magnitude(q * r) = n * Magnitude(r) /\ Magnitude(r) \in Nat \ {0} /\ Magnitude(l) \in Nat
  BY <1>2, MagnitudeOfProduct
<1>4. Magnitude(l) # n * Magnitude(r)
  <2> SUFFICES ASSUME Magnitude(l) = n * Magnitude(r)
               PROVE  q * r = l
    OBVIOUS
  <2>1. CASE l < 0 /\ r < 0
    BY <1>1, <2>1 DEF Magnitude
  <2>2. CASE l < 0 /\ r > 0
    BY <1>1, <2>2 DEF Magnitude
  <2>3. CASE l >= 0 /\ r < 0
    BY <1>1, <2>3 DEF Magnitude
  <2>4. CASE l >= 0 /\ r > 0
    BY <1>1, <2>4 DEF Magnitude
  <2> QED
    BY <2>1, <2>2, <2>3, <2>4
<1>5. 0 < Magnitude(l) - Magnitude(q * r) /\ Magnitude(l) - Magnitude(q * r) < Magnitude(r)
  BY <1>1, <1>3, <1>4
<1>6. Java!SameSign(q, l * r)
  <2>1. CASE l = 0
    BY <1>1, <1>3, <1>4, <2>1 DEF Magnitude
  <2>2. CASE n = 0
    <3>1. q = 0
      BY <1>2, <2>2 DEF Magnitude
    <3> QED
      BY <3>1 DEF Java!SameSign
  <2>3. CASE l # 0 /\ n # 0
    <3>1. (l * r < 0) = ((l < 0) # (r < 0))
      <4>1. l * r < 0 <=> (l < 0 /\ r > 0) \/ (l > 0 /\ r < 0)
        BY MagnitudeOfProduct
      <4>2. CASE l < 0
        BY <4>1, <4>2
      <4>3. CASE l > 0
        BY <4>1, <4>3
      <4> QED
        BY <2>3, <4>2, <4>3
    <3>2. (q < 0) = ((l < 0) # (r < 0))
      BY <1>1, <2>3
    <3> QED
      BY <3>1, <3>2 DEF Java!SameSign
  <2> QED
    BY <2>1, <2>2, <2>3
<1> QED
  BY <1>5, <1>6 DEF Truncates

LEMMA JavaDivides ==
  ASSUME NEW bits, NEW l, NEW r
  PROVE  Java!JavaBinary(bits, "div", l, r) =
           IF \E q \in Range2(bits) : q * r = l THEN CHOOSE q \in Range2(bits) : q * r = l
           ELSE IF r = -1 THEN l
           ELSE CHOOSE q \in Range2(bits) : Truncates(q, l, r)
BY DEF Java!JavaBinary, Java!Range2, Range2, Java!Magnitude, Magnitude, Truncates

LEMMA DivisionAgrees ==
  ASSUME NEW bits \in Nat \ {0}, NEW l \in Range2(bits), NEW r \in Range2(bits), r # 0
  PROVE  Java!JavaBinary(bits, "div", l, r) = Binary(bits, "div", l, r)
<1>1. PICK h \in Nat \ {0} : /\ h = 2 ^ (bits - 1) /\ 2 ^ bits = 2 * h
                             /\ \A y : y \in Range2(bits) <=> y \in Int /\ -h <= y /\ y < h
  BY RangeOfWidth
<1>2. l \in Int /\ r \in Int
  BY <1>1
<1>3. Binary(bits, "div", l, r) = Wrap(bits, Quotient(l, r))
  BY DEF Binary
<1>4. CASE \E q \in Range2(bits) : q * r = l
  <2> DEFINE p == CHOOSE q \in Range2(bits) : q * r = l
  <2>1. p \in Range2(bits) /\ p * r = l
    BY <1>4
  <2>2. Java!JavaBinary(bits, "div", l, r) = p
    BY <1>4, JavaDivides
  <2> HIDE DEF p
  <2>3. p \in Int
    BY <1>1, <2>1
  <2>4. Quotient(l, r) = p
    BY <1>2, <2>1, <2>3, ExactQuotient
  <2> QED
    BY <1>3, <2>1, <2>2, <2>4, WrapKeeps
<1>5. CASE ~(\E q \in Range2(bits) : q * r = l) /\ r = -1
  <2>1. -l \in Int /\ -l * r = l
    BY <1>2, <1>5
  <2>2. Quotient(l, r) = -l
    <3>1. \A p \in Int : Quotient(p * r, r) = p
      BY <1>2, ExactQuotient
    <3>2. Quotient((-l) * r, r) = -l
      BY <2>1, <3>1
    <3>3. (-l) * r = l
      BY <1>2, <1>5
    <3> QED
      BY <3>2, <3>3, Zenon
  <2>3. -l \notin Range2(bits)
    BY <1>5, <2>1
  <2>4. l = -h
    BY <1>1, <1>2, <2>3
  <2>5. -l = h /\ l - h = (2 * h) * (-1)
    BY <2>4
  <2>6. (l - h) % 2 ^ bits = 0
    <3> DEFINE m == 2 * h
    <3>1. m \in Nat \ {0}
      OBVIOUS
    <3> HIDE DEF m
    <3>2. (m * (-1)) % m = 0
      BY <3>1, Multiples
    <3> QED
      BY <1>1, <2>5, <3>2 DEF m
  <2>7. Wrap(bits, h) = l
    BY <2>6, WrapIsCongruent, CongruenceIsUnique
  <2>8. Java!JavaBinary(bits, "div", l, r) = l
    BY <1>5, JavaDivides
  <2> QED
    BY <1>3, <2>2, <2>5, <2>7, <2>8
<1>6. CASE ~(\E q \in Range2(bits) : q * r = l) /\ r # -1
  <2> DEFINE Q == Quotient(l, r)
  <2>1. PICK n \in Nat : /\ Magnitude(l) - n * Magnitude(r) \in 0 .. (Magnitude(r) - 1)
                         /\ Q = IF (l < 0) = (r < 0) THEN n ELSE -n
    BY <1>2, QuotientTruncates
  <2>2. r # 1
    <3>1. l * 1 = l
      BY <1>2
    <3> QED
      BY <1>6, <3>1
  <2>3. Magnitude(r) \in Nat /\ Magnitude(r) >= 2 /\ Magnitude(l) \in Nat /\ Magnitude(l) <= h
    BY <1>1, <1>2, <1>6, <2>2 DEF Magnitude
  <2>4. n * 2 <= n * Magnitude(r)
    BY <2>3
  <2>5. n * 2 <= h
    BY <2>1, <2>3, <2>4
  <2>6. n < h
    BY <2>5
  <2>7. Q \in Range2(bits) /\ Q \in Int
    BY <1>1, <2>1, <2>6
  <2>8. Truncates(Q, l, r)
    BY <1>2, <1>6, <2>7, InexactQuotient
  <2> DEFINE c == CHOOSE q \in Range2(bits) : Truncates(q, l, r)
  <2>9. c \in Range2(bits) /\ Truncates(c, l, r)
    BY <2>7, <2>8
  <2>10. Java!JavaBinary(bits, "div", l, r) = c
    BY <1>6, JavaDivides
  <2> HIDE DEF c, Q
  <2>11. c = Q
    BY <1>1, <1>2, <2>7, <2>8, <2>9, TruncationIsUnique
  <2>12. Wrap(bits, Q) = Q
    BY <2>7, WrapKeeps
  <2> QED
    BY <1>3, <2>10, <2>11, <2>12 DEF Q
<1> QED
  BY <1>4, <1>5, <1>6

\* What the specification asks of a remainder.
Remains(m, l, r) ==
    Magnitude(m) < Magnitude(r) /\ Java!SameSign(m, l) /\ (l - m) % Magnitude(r) = 0

LEMMA RemainderIsUnique ==
  ASSUME NEW l \in Int, NEW r \in Int, r # 0, NEW m \in Int, NEW n \in Int,
         Remains(m, l, r), Remains(n, l, r)
  PROVE  m = n
<1> DEFINE b == Magnitude(r)
           x == l - n
           y == l - m
<1>1. b \in Nat \ {0} /\ x \in Int /\ y \in Int /\ x - y = m - n /\ m - n \in Int
  BY DEF Magnitude
<1>2. x % b = 0 /\ y % b = 0 /\ Magnitude(m) < b /\ Magnitude(n) < b
  BY DEF Remains
<1>3. (m = 0 \/ (m < 0) = (l < 0)) /\ (n = 0 \/ (n < 0) = (l < 0))
  BY DEF Remains, Java!SameSign
<1>4. -b < m - n /\ m - n < b
  <2> HIDE DEF b
  <2>1. CASE l < 0
    <3>1. m <= 0 /\ n <= 0
      BY <1>3, <2>1
    <3> QED
      BY <1>1, <1>2, <3>1 DEF Magnitude
  <2>2. CASE l >= 0
    <3>1. m >= 0 /\ n >= 0
      BY <1>3, <2>2
    <3> QED
      BY <1>1, <1>2, <3>1 DEF Magnitude
  <2> QED
    BY <2>1, <2>2
<1> HIDE DEF b, x, y
<1>5. (x - y) % b = 0
  BY <1>1, <1>2, MultiplesSubtract
<1>6. m - n = 0
  BY <1>1, <1>4, <1>5, NoMultipleBetween
<1> QED
  BY <1>6

LEMMA RemainderOfQuotient ==
  ASSUME NEW l \in Int, NEW r \in Int, r # 0
  PROVE  /\ l - r * Quotient(l, r) \in Int /\ Remains(l - r * Quotient(l, r), l, r)
         /\ Magnitude(l - r * Quotient(l, r)) <= Magnitude(l)
<1>1. PICK n \in Nat : /\ Magnitude(l) - n * Magnitude(r) \in 0 .. (Magnitude(r) - 1)
                       /\ Quotient(l, r) = IF (l < 0) = (r < 0) THEN n ELSE -n
  BY QuotientTruncates
<1> DEFINE m == l - r * Quotient(l, r)
           b == Magnitude(r)
<1>2. b \in Nat \ {0}
  BY DEF Magnitude
<1>3. m = IF l < 0 THEN -(Magnitude(l) - n * b) ELSE Magnitude(l) - n * b
  <2>1. CASE l < 0 /\ r < 0
    BY <1>1, <2>1 DEF Magnitude
  <2>2. CASE l < 0 /\ r > 0
    BY <1>1, <2>2 DEF Magnitude
  <2>3. CASE l >= 0 /\ r < 0
    BY <1>1, <2>3 DEF Magnitude
  <2>4. CASE l >= 0 /\ r > 0
    BY <1>1, <2>4 DEF Magnitude
  <2> QED
    BY <2>1, <2>2, <2>3, <2>4
<1>4. m \in Int /\ Magnitude(m) = Magnitude(l) - n * b /\ Magnitude(m) < b
  <2> HIDE DEF m
  <2>1. Magnitude(l) - n * b \in Int /\ 0 <= Magnitude(l) - n * b /\ Magnitude(l) - n * b < b
    BY <1>1, <1>2
  <2> DEFINE t == Magnitude(l) - n * b
  <2>2. m = IF l < 0 THEN -t ELSE t
    BY <1>3
  <2> HIDE DEF t
  <2> QED
    BY <2>1, <2>2 DEF Magnitude, t
<1>5. Java!SameSign(m, l)
  <2> HIDE DEF m, b
  <2> DEFINE t == Magnitude(l) - n * b
  <2>1. t \in Int /\ 0 <= t /\ m = IF l < 0 THEN -t ELSE t
    BY <1>1, <1>2, <1>3 DEF b
  <2> HIDE DEF t
  <2> QED
    BY <2>1 DEF Java!SameSign
<1>6. (l - m) % b = 0
  <2>1. \E q \in Int : l - m = b * q
    <3>1. CASE l < 0
      <4>1. l - m = b * (-n) /\ -n \in Int
        <5>1. l - m = r * Quotient(l, r)
          BY <1>1
        <5> QED
          BY <1>1, <3>1, <5>1 DEF Magnitude
      <4> QED
        BY <4>1
    <3>2. CASE l >= 0
      <4>1. l - m = b * n /\ n \in Int
        <5>1. l - m = r * Quotient(l, r)
          BY <1>1
        <5> QED
          BY <1>1, <3>2, <5>1 DEF Magnitude
      <4> QED
        BY <4>1
    <3> QED
      BY <3>1, <3>2
  <2>2. PICK q \in Int : l - m = b * q
    BY <2>1
  <2> HIDE DEF m, b
  <2> QED
    BY <1>2, <2>2, Multiples
<1>7. Magnitude(m) <= Magnitude(l)
  <2>1. n * b >= 0 /\ n * b \in Int
    BY <1>2
  <2>2. Magnitude(l) \in Int
    BY DEF Magnitude
  <2> HIDE DEF m, b
  <2> QED
    BY <1>4, <2>1, <2>2
<1> QED
  BY <1>4, <1>5, <1>6, <1>7 DEF Remains

LEMMA RemainderAgrees ==
  ASSUME NEW bits \in Nat \ {0}, NEW l \in Range2(bits), NEW r \in Range2(bits), r # 0
  PROVE  /\ Java!JavaBinary(bits, "rem", l, r) = Binary(bits, "rem", l, r)
         /\ Binary(bits, "rem", l, r) \in Range2(bits)
<1>1. PICK h \in Nat \ {0} : /\ h = 2 ^ (bits - 1) /\ 2 ^ bits = 2 * h
                             /\ \A y : y \in Range2(bits) <=> y \in Int /\ -h <= y /\ y < h
  BY RangeOfWidth
<1>2. l \in Int /\ r \in Int
  BY <1>1
<1> DEFINE m == l - r * Quotient(l, r)
           c == CHOOSE n \in Range2(bits) : Remains(n, l, r)
<1>3. Binary(bits, "rem", l, r) = m
  BY DEF Binary
<1>4. Java!JavaBinary(bits, "rem", l, r) = c
  BY DEF Java!JavaBinary, Java!Range2, Range2, Java!Magnitude, Magnitude, Remains
<1>5. m \in Int /\ Remains(m, l, r) /\ Magnitude(m) <= Magnitude(l)
  BY <1>2, RemainderOfQuotient
<1> HIDE DEF m
<1>6. m \in Range2(bits)
  <2>1. (m = 0 \/ (m < 0) = (l < 0))
    BY <1>5 DEF Remains, Java!SameSign
  <2>2. CASE l < 0
    BY <1>1, <1>2, <1>5, <2>1, <2>2 DEF Magnitude
  <2>3. CASE l >= 0
    BY <1>1, <1>2, <1>5, <2>1, <2>3 DEF Magnitude
  <2> QED
    BY <1>2, <2>2, <2>3
<1>7. c \in Range2(bits) /\ Remains(c, l, r)
  BY <1>5, <1>6
<1> HIDE DEF c
<1>8. c = m
  BY <1>1, <1>2, <1>5, <1>7, RemainderIsUnique
<1> QED
  BY <1>3, <1>4, <1>6, <1>8

-----------------------------------------------------------------------------
(* Bits. *)

LEMMA Halving ==
  ASSUME NEW x \in Int, NEW k \in Int
  PROVE  (2 * k + x) % 2 = x % 2
OBVIOUS

LEMMA QuotientOfSum ==
  ASSUME NEW m \in Nat \ {0}, NEW k \in Int, NEW x \in Int
  PROVE  (m * k + x) \div m = k + (x \div m)
<1>1. x = m * (x \div m) + (x % m) /\ x \div m \in Int /\ x % m \in Int /\ 0 <= x % m /\ x % m < m
  BY Division
<1> DEFINE q == x \div m
           r == x % m
<1> HIDE DEF q, r
<1>2. q \in Int /\ r \in Int /\ 0 <= r /\ r < m /\ x = m * q + r
  BY <1>1 DEF q, r
<1>3. m * k + x = m * (k + q) + r /\ k + q \in Int
  BY <1>2
<1>4. (m * (k + q) + r) \div m = k + q
  BY <1>2, <1>3, DivisionIsUnique
<1> QED
  BY <1>3, <1>4 DEF q

LEMMA QuotientOfQuotient ==
  ASSUME NEW a \in Nat \ {0}, NEW b \in Nat \ {0}, NEW x \in Int
  PROVE  (x \div a) \div b = x \div (a * b)
<1> DEFINE q == x \div a
           r == x % a
           p == q \div b
           s == q % b
<1>1. q \in Int /\ r \in Int /\ x = a * q + r /\ 0 <= r /\ r < a
  BY Division
<1>2. p \in Int /\ s \in Int /\ q = b * p + s /\ 0 <= s /\ s < b
  BY <1>1, Division
<1> HIDE DEF q, r, p, s
<1>3. x = (a * b) * p + (a * s + r)
  BY <1>1, <1>2
<1>4. a * s + r \in Int /\ 0 <= a * s + r /\ a * s + r < a * b
  <2>1. a * s <= a * (b - 1) /\ a * s >= 0 /\ a * s \in Int
    BY <1>2
  <2> QED
    BY <1>1, <2>1
<1>5. a * b \in Nat \ {0}
  OBVIOUS
<1>6. x \div (a * b) = p
  <2> DEFINE m == a * b
             t == a * s + r
  <2>1. m \in Nat \ {0} /\ t \in Int /\ 0 <= t /\ t < m /\ x = m * p + t
    BY <1>3, <1>4, <1>5
  <2> HIDE DEF m, t
  <2>2. x \div m = p
    BY <1>2, <2>1, DivisionIsUnique
  <2> QED
    BY <2>2 DEF m
<1> QED
  BY <1>6 DEF p, q

\* The bits below n do not depend on multiples of 2^n.
LEMMA LowBits ==
  ASSUME NEW n \in Nat, NEW k \in Int, NEW x \in Int, NEW i \in Nat, i < n
  PROVE  BitAt(2 ^ n * k + x, i) = BitAt(x, i)
<1> DEFINE m == 2 ^ i
           e == 2 ^ (n - i - 1)
<1>1. 2 ^ n = m * (2 * e) /\ e \in Nat \ {0} /\ m \in Nat \ {0}
  BY PowerDivides
<1> HIDE DEF m, e
<1>2. 2 ^ n * k + x = m * (2 * (e * k)) + x /\ 2 * (e * k) \in Int /\ e * k \in Int
  BY <1>1
<1>3. (m * (2 * (e * k)) + x) \div m = 2 * (e * k) + (x \div m)
  BY <1>1, <1>2, QuotientOfSum
<1>4. x \div m \in Int
  BY <1>1, Division
<1>5. (2 * (e * k) + (x \div m)) % 2 = (x \div m) % 2
  BY <1>2, <1>4, Halving
<1> QED
  BY <1>2, <1>3, <1>5 DEF BitAt, m

LEMMA BitsOfRemainder ==
  ASSUME NEW bits \in Nat, NEW x \in Int, NEW i \in Nat, i < bits
  PROVE  BitAt(x % 2 ^ bits, i) = BitAt(x, i)
<1>1. 2 ^ bits \in Nat \ {0}
  BY PowerIsNatural
<1>2. /\ x \div 2 ^ bits \in Int /\ x % 2 ^ bits \in Int
      /\ x = 2 ^ bits * (x \div 2 ^ bits) + (x % 2 ^ bits)
  BY <1>1, Division
<1> QED
  BY <1>2, LowBits

LEMMA BitsAre ==
  ASSUME NEW bits \in Nat, NEW x \in Int
  PROVE  Java!BitsOf(bits, x) = {i \in 0 .. (bits - 1) : BitAt(x, i)}
<1>1. Java!BitsOf(bits, x) = {i \in 0 .. (bits - 1) : BitAt(x % 2 ^ bits, i)}
  BY DEF Java!BitsOf, BitAt
<1>2. \A i \in 0 .. (bits - 1) : BitAt(x % 2 ^ bits, i) = BitAt(x, i)
  BY BitsOfRemainder
<1> QED
  BY <1>1, <1>2

LEMMA EquallySpaced ==
  ASSUME NEW n \in Nat, NEW k \in Int, NEW x \in Int
  PROVE  BitAt(2 ^ n * k + x, n) <=> (k + (x \div 2 ^ n)) % 2 = 1
<1>1. 2 ^ n \in Nat \ {0}
  BY PowerIsNatural
<1>2. (2 ^ n * k + x) \div 2 ^ n = k + (x \div 2 ^ n)
  BY <1>1, QuotientOfSum
<1> QED
  BY <1>2 DEF BitAt

\* The sum of the powers of a set of positions has these bits.
LEMMA OfBitsHasBits ==
  ASSUME NEW bits \in Nat \ {0}, NEW S
  PROVE  \E v \in 0 .. (2 ^ bits - 1) : /\ OfBits(bits, S) = Wrap(bits, v)
                                        /\ \A i \in 0 .. (bits - 1) : BitAt(v, i) <=> i \in S
<1> DEFINE Weight(n) == IF n - 1 \in S THEN 2 ^ (n - 1) ELSE 0
           step == [p \in Nat \X Nat |-> IF p[2] = 0 THEN p[1] ELSE p[1] + Weight(p[2])]
           low[n \in 0 .. bits] == IF n = 0 THEN 0 ELSE low[n - 1] + Weight(n)
<1>1. \A n \in Nat \ {0} : n - 1 \in Nat /\ 2 ^ (n - 1) \in Nat /\ Weight(n) \in Nat
  <2>1. \A n \in Nat \ {0} : n - 1 \in Nat
    OBVIOUS
  <2> QED
    BY <2>1, PowerIsNatural
<1> HIDE DEF Weight
<1>2. step \in [Nat \X Nat -> Nat]
  BY <1>1
<1>3. PICK f \in [0 .. bits -> Nat] : Iterates(f, bits, 0, step)
  <2> HIDE DEF step
  <2>1. bits \in Nat /\ 0 \in Nat
    OBVIOUS
  <2> QED
    BY <1>2, <2>1, Iteration
<1>4. f = [n \in 0 .. bits |-> IF n = 0 THEN 0 ELSE f[n - 1] + Weight(n)]
  <2>1. f = [n \in 0 .. bits |-> IF n = 0 THEN 0 ELSE step[<<f[n - 1], n>>]]
    BY <1>3 DEF Iterates
  <2>2. \A n \in 0 .. bits : n # 0 => step[<<f[n - 1], n>>] = f[n - 1] + Weight(n)
    <3>1. \A n \in 0 .. bits : n # 0 => n - 1 \in 0 .. bits /\ n \in Nat
      OBVIOUS
    <3>2. \A n \in 0 .. bits : n # 0 => f[n - 1] \in Nat
      BY <3>1
    <3> QED
      BY <3>1, <3>2
  <2> HIDE DEF step
  <2> QED
    BY <2>1, <2>2
<1>5. low = [n \in 0 .. bits |-> IF n = 0 THEN 0 ELSE low[n - 1] + Weight(n)]
  <2> HIDE DEF step
  <2> QED
    BY <1>4
<1>6. OfBits(bits, S) = Wrap(bits, low[bits])
  BY DEF OfBits, Weight
<1> HIDE DEF low, step
<1> DEFINE Good(n, v) == v \in Int /\ 0 <= v /\ v < 2 ^ n /\ \A i \in 0 .. (n - 1) : BitAt(v, i) <=> i \in S
           T == {n \in 0 .. bits : Good(n, low[n])}
<1>7. 0 \in T
  <2>1. low[0] = 0
    BY <1>5
  <2> QED
    BY <2>1, PowerZero
<1>8. ASSUME NEW n \in T, n < bits
      PROVE  n + 1 \in T
  <2> DEFINE v == low[n]
             w == low[n + 1]
             k == IF n \in S THEN 1 ELSE 0
  <2>1. n \in Nat /\ n + 1 \in 0 .. bits /\ n + 1 # 0 /\ (n + 1) - 1 = n
    BY <1>8
  <2>2. w = v + Weight(n + 1)
    BY <1>5, <2>1
  <2>3. Good(n, v)
    OBVIOUS
  <2>4. 2 ^ n \in Nat \ {0} /\ 2 ^ (n + 1) = 2 * 2 ^ n
    BY <2>1, PowerIsNatural, PowerDoubles
  <2> HIDE DEF v, w, T
  <2>5. w = 2 ^ n * k + v
    <3>1. Weight(n + 1) = IF n \in S THEN 2 ^ n ELSE 0
      BY <2>1 DEF Weight
    <3> QED
      BY <2>2, <2>3, <2>4, <3>1
  <2>6. w \in Int /\ 0 <= w /\ w < 2 ^ (n + 1)
    BY <2>3, <2>4, <2>5
  <2>11. k \in Int /\ v \in Int /\ (k = 1 <=> n \in S) /\ (k = 0 \/ k = 1)
    BY <2>3
  <2> HIDE DEF k
  <2>7. \A i \in 0 .. (n - 1) : BitAt(w, i) <=> i \in S
    <3>1. \A i \in 0 .. (n - 1) : BitAt(2 ^ n * k + v, i) = BitAt(v, i)
      <4> SUFFICES ASSUME NEW i \in 0 .. (n - 1)
                   PROVE  BitAt(2 ^ n * k + v, i) = BitAt(v, i)
        OBVIOUS
      <4>1. i \in Nat /\ i < n /\ n \in Nat /\ k \in Int /\ v \in Int
        BY <2>1, <2>11
      <4> HIDE DEF v
      <4> QED
        BY <4>1, LowBits, Zenon
    <3> QED
      BY <2>3, <2>5, <3>1
  <2>8. BitAt(w, n) <=> n \in S
    <3>1. v \div 2 ^ n = 0
      <4> DEFINE p == 2 ^ n
      <4>1. p \in Nat \ {0} /\ v \in Int /\ 0 <= v /\ v < p
        BY <2>3, <2>4
      <4> HIDE DEF p
      <4>2. v \div p = 0
        BY <4>1
      <4> QED
        BY <4>2 DEF p
    <3>2. BitAt(2 ^ n * k + v, n) <=> (k + (v \div 2 ^ n)) % 2 = 1
      BY <2>1, <2>11, EquallySpaced
    <3>3. (k + 0) % 2 = 1 <=> k = 1
      BY <2>11
    <3> QED
      BY <2>5, <2>11, <3>1, <3>2, <3>3
  <2>9. \A i \in 0 .. ((n + 1) - 1) : i = n \/ i \in 0 .. (n - 1)
    BY <2>1
  <2>10. Good(n + 1, w)
    BY <2>6, <2>7, <2>8, <2>9
  <2> QED
    BY <2>1, <2>10 DEF w, T
<1>9. bits \in T
  <2> HIDE DEF T
  <2>1. \A n \in 0 .. bits : n \in T /\ n < bits => n + 1 \in T
    BY <1>8
  <2>2. bits \in Nat /\ bits \in 0 .. bits
    OBVIOUS
  <2> QED
    BY <1>7, <2>1, <2>2, InductionUpTo
<1>10. Good(bits, low[bits])
  BY <1>9
<1>11. low[bits] \in 0 .. (2 ^ bits - 1)
  <2>1. 2 ^ bits \in Nat
    BY PowerIsNatural
  <2> QED
    BY <1>10, <2>1
<1> QED
  BY <1>6, <1>10, <1>11

\* The bits of a number tell it from every other of its width.
LEMMA BitsTell ==
  ASSUME NEW n \in Nat, NEW v \in Nat, NEW w \in Nat, v < 2 ^ n, w < 2 ^ n,
         \A i \in 0 .. (n - 1) : BitAt(v, i) <=> BitAt(w, i)
  PROVE  v = w
<1> DEFINE Same(m) == \A x, y \in Nat : /\ x < 2 ^ m /\ y < 2 ^ m
                                        /\ \A i \in 0 .. (m - 1) : BitAt(x, i) <=> BitAt(y, i)
                                        => x = y
           T == {m \in Nat : Same(m)}
<1>1. 0 \in T
  BY PowerZero
<1>2. ASSUME NEW m \in T
      PROVE  m + 1 \in T
  <2>1. m \in Nat /\ Same(m)
    OBVIOUS
  <2> SUFFICES ASSUME NEW x \in Nat, NEW y \in Nat, x < 2 ^ (m + 1), y < 2 ^ (m + 1),
                      \A i \in 0 .. ((m + 1) - 1) : BitAt(x, i) <=> BitAt(y, i)
               PROVE  x = y
    BY <2>1
  <2> HIDE DEF T
  <2> DEFINE p == 2 ^ m
  <2>2. p \in Nat \ {0} /\ 2 ^ (m + 1) = 2 * p
    BY <2>1, PowerIsNatural, PowerDoubles
  <2> HIDE DEF Same
  <2>3. ASSUME NEW z \in Nat, z < 2 * p
        PROVE  /\ z \div p \in {0, 1} /\ z = p * (z \div p) + (z % p) /\ z % p \in Nat /\ z % p < p
               /\ BitAt(z, m) <=> z \div p = 1
               /\ \A i \in 0 .. (m - 1) : BitAt(z % p, i) <=> BitAt(z, i)
    <3>1. z \div p \in Int /\ z % p \in Int /\ z = p * (z \div p) + (z % p) /\ 0 <= z % p /\ z % p < p
      <4> HIDE DEF p
      <4> QED
        BY <2>2, Division
    <3>2. z \div p \in {0, 1}
      <4> DEFINE q == z \div p
                 r == z % p
      <4>1. q \in Int /\ r \in Int /\ z = p * q + r /\ 0 <= r /\ r < p
        BY <3>1
      <4> HIDE DEF q, r, p
      <4>2. ~(q < 0)
        <5>1. ASSUME q < 0
              PROVE  p * q <= -p
          BY <2>2, <4>1, <5>1
        <5> QED
          BY <2>2, <4>1, <5>1
      <4>3. ~(q >= 2)
        <5>1. ASSUME q >= 2
              PROVE  p * q >= 2 * p
          BY <2>2, <4>1, <5>1
        <5> QED
          BY <2>2, <2>3, <4>1, <5>1
      <4>4. q = 0 \/ q = 1
        BY <4>1, <4>2, <4>3
      <4> QED
        BY <4>4 DEF q
    <3>3. BitAt(z, m) <=> z \div p = 1
      BY <3>2 DEF BitAt
    <3>4. \A i \in 0 .. (m - 1) : BitAt(z % p, i) <=> BitAt(z, i)
      BY <2>1, BitsOfRemainder
    <3> HIDE DEF p
    <3> QED
      BY <2>2, <3>1, <3>2, <3>3, <3>4
  <2>4. x \div p = y \div p
    <3>1. BitAt(x, m) <=> BitAt(y, m)
      BY <2>1
    <3> HIDE DEF p
    <3> QED
      BY <2>2, <2>3, <3>1
  <2>5. x % p = y % p
    <3>1. \A i \in 0 .. (m - 1) : BitAt(x % p, i) <=> BitAt(y % p, i)
      <4>1. \A i \in 0 .. (m - 1) : i \in 0 .. ((m + 1) - 1)
        BY <2>1
      <4> HIDE DEF p
      <4> QED
        BY <2>2, <2>3, <4>1
    <3>2. x % p \in Nat /\ y % p \in Nat /\ x % p < p /\ y % p < p
      <4> HIDE DEF p
      <4> QED
        BY <2>2, <2>3
    <3> QED
      BY <2>1, <3>1, <3>2 DEF Same
  <2> HIDE DEF p
  <2>6. x = p * (x \div p) + (x % p) /\ y = p * (y \div p) + (y % p)
    BY <2>2, <2>3
  <2> QED
    BY <2>4, <2>5, <2>6
<1>3. T = Nat
  <2> HIDE DEF T
  <2>1. T \in SUBSET Nat
    BY DEF T
  <2> QED
    BY <1>1, <1>2, <2>1, Induction
<1> QED
  BY <1>3

LEMMA SameBitsSameNumber ==
  ASSUME NEW bits \in Nat \ {0}, NEW y \in Range2(bits), NEW z \in Range2(bits),
         Java!BitsOf(bits, y) = Java!BitsOf(bits, z)
  PROVE  y = z
<1> DEFINE p == 2 ^ bits
<1>1. p \in Nat \ {0}
  BY PowerIsNatural
<1>2. y \in Int /\ z \in Int
  BY RangeOfWidth
<1>3. /\ y % p \in Nat /\ y % p < p /\ y = p * (y \div p) + (y % p) /\ y \div p \in Int
      /\ z % p \in Nat /\ z % p < p /\ z = p * (z \div p) + (z % p) /\ z \div p \in Int
  <2> HIDE DEF p
  <2> QED
    BY <1>1, <1>2, Division
<1>4. \A i \in 0 .. (bits - 1) : BitAt(y % p, i) <=> BitAt(z % p, i)
  <2>1. /\ Java!BitsOf(bits, y) = {i \in 0 .. (bits - 1) : BitAt(y % p, i)}
        /\ Java!BitsOf(bits, z) = {i \in 0 .. (bits - 1) : BitAt(z % p, i)}
    BY DEF Java!BitsOf, BitAt
  <2> HIDE DEF p
  <2>2. \A i \in 0 .. (bits - 1) : i \in {j \in 0 .. (bits - 1) : BitAt(y % p, j)} <=> i \in {j \in 0 .. (bits - 1) : BitAt(z % p, j)}
    BY <2>1
  <2> QED
    BY <2>2
<1>5. y % p = z % p
  BY <1>3, <1>4, BitsTell
<1> HIDE DEF p
<1>6. y - z = p * ((y \div p) - (z \div p)) /\ (y \div p) - (z \div p) \in Int
  <2> DEFINE a == y \div p
             b == z \div p
             u == y % p
  <2>1. y = p * a + u /\ z = p * b + u /\ a \in Int /\ b \in Int /\ u \in Nat
    BY <1>3, <1>5
  <2> HIDE DEF a, b, u
  <2>2. y - z = p * (a - b) /\ a - b \in Int
    BY <1>1, <2>1
  <2> QED
    BY <2>2 DEF a, b
<1>7. (y - z) % p = 0
  BY <1>1, <1>6, Multiples
<1>8. (z - z) % p = 0
  BY <1>1, <1>2
<1> QED
  BY <1>2, <1>7, <1>8, CongruenceIsUnique DEF p

LEMMA WrapKeepsBits ==
  ASSUME NEW bits \in Nat \ {0}, NEW x \in Int
  PROVE  Java!BitsOf(bits, Wrap(bits, x)) = Java!BitsOf(bits, x)
<1> DEFINE p == 2 ^ bits
           w == Wrap(bits, x)
<1>1. p \in Nat \ {0}
  BY PowerIsNatural
<1>2. w \in Int /\ (w - x) % p = 0
  BY WrapIsCongruent
<1> HIDE DEF p, w
<1>3. w - x = p * ((w - x) \div p) /\ (w - x) \div p \in Int
  <2>1. w - x \in Int
    BY <1>2
  <2>2. w - x = p * ((w - x) \div p) + ((w - x) % p) /\ (w - x) \div p \in Int
    BY <1>1, <2>1, Division
  <2> QED
    BY <1>1, <1>2, <2>2
<1>4. PICK k \in Int : w - x = p * k
  BY <1>3
<1>5. w = p * k + x
  BY <1>1, <1>2, <1>4
<1>6. \A i \in 0 .. (bits - 1) : BitAt(w, i) = BitAt(x, i)
  <2>1. \A i \in 0 .. (bits - 1) : i \in Nat /\ i < bits
    OBVIOUS
  <2> QED
    BY <1>5, <2>1, LowBits DEF p
<1>7. Java!BitsOf(bits, w) = Java!BitsOf(bits, x)
  <2>1. {i \in 0 .. (bits - 1) : BitAt(w, i)} = {i \in 0 .. (bits - 1) : BitAt(x, i)}
    BY <1>6
  <2>2. bits \in Nat
    OBVIOUS
  <2>3. Java!BitsOf(bits, w) = {i \in 0 .. (bits - 1) : BitAt(w, i)}
    BY <1>2, <2>2, BitsAre
  <2>4. Java!BitsOf(bits, x) = {i \in 0 .. (bits - 1) : BitAt(x, i)}
    BY <2>2, BitsAre
  <2> QED
    BY <2>1, <2>3, <2>4
<1> QED
  BY <1>7 DEF w

\* The number of a width with the bits of x is what is left of x in that width.
LEMMA WithBitsOf ==
  ASSUME NEW bits \in Nat \ {0}, NEW x \in Int
  PROVE  Java!WithBits(bits, Java!BitsOf(bits, x)) = Wrap(bits, x)
<1> DEFINE S == Java!BitsOf(bits, x)
           c == CHOOSE y \in Range2(bits) : Java!BitsOf(bits, y) = S
<1>1. Java!WithBits(bits, S) = c
  BY DEF Java!WithBits, Java!Range2, Range2
<1>2. Wrap(bits, x) \in Range2(bits) /\ Java!BitsOf(bits, Wrap(bits, x)) = S
  BY WrapIsCongruent, WrapKeepsBits
<1> HIDE DEF S
<1>3. c \in Range2(bits) /\ Java!BitsOf(bits, c) = S
  BY <1>2
<1> HIDE DEF c
<1>4. c = Wrap(bits, x)
  BY <1>2, <1>3, SameBitsSameNumber
<1> QED
  BY <1>1, <1>4 DEF S

LEMMA OfBitsIsWithBits ==
  ASSUME NEW bits \in Nat \ {0}, NEW S \in SUBSET (0 .. (bits - 1))
  PROVE  Java!WithBits(bits, S) = OfBits(bits, S) /\ OfBits(bits, S) \in Range2(bits)
<1>1. PICK v \in 0 .. (2 ^ bits - 1) : /\ OfBits(bits, S) = Wrap(bits, v)
                                       /\ \A i \in 0 .. (bits - 1) : BitAt(v, i) <=> i \in S
  BY OfBitsHasBits
<1>2. v \in Int
  <2>1. 2 ^ bits \in Nat
    BY PowerIsNatural
  <2> QED
    BY <2>1
<1>3. Java!BitsOf(bits, v) = S
  BY <1>1, <1>2, BitsAre
<1> QED
  BY <1>1, <1>2, <1>3, WithBitsOf, WrapIsCongruent

LEMMA LogicAgrees ==
  ASSUME NEW bits \in Nat \ {0}, NEW code \in {"and", "or", "xor"}, NEW l \in Range2(bits), NEW r \in Range2(bits)
  PROVE  /\ Java!JavaBinary(bits, code, l, r) = Binary(bits, code, l, r)
         /\ Binary(bits, code, l, r) \in Range2(bits)
<1> DEFINE W == 0 .. (bits - 1)
           A == {i \in W : BitAt(l, i) /\ BitAt(r, i)}
           O == {i \in W : BitAt(l, i) \/ BitAt(r, i)}
           X == {i \in W : BitAt(l, i) # BitAt(r, i)}
           L == Java!BitsOf(bits, l)
           R == Java!BitsOf(bits, r)
<1>1. l \in Int /\ r \in Int
  BY RangeOfWidth
<1>2. L = {i \in W : BitAt(l, i)} /\ R = {i \in W : BitAt(r, i)}
  BY <1>1, BitsAre
<1>3. L \cap R = A
  BY <1>2
<1>4. L \cup R = O
  BY <1>2
<1>5. (L \cup R) \ (L \cap R) = X
  <2>1. \A i : BitAt(l, i) \in BOOLEAN /\ BitAt(r, i) \in BOOLEAN
    BY DEF BitAt
  <2> QED
    BY <1>2, <2>1
<1>6. /\ Java!JavaBinary(bits, "and", l, r) = Java!WithBits(bits, L \cap R)
      /\ Java!JavaBinary(bits, "or", l, r) = Java!WithBits(bits, L \cup R)
      /\ Java!JavaBinary(bits, "xor", l, r) = Java!WithBits(bits, (L \cup R) \ (L \cap R))
  BY DEF Java!JavaBinary
<1>7. /\ Binary(bits, "and", l, r) = OfBits(bits, A)
      /\ Binary(bits, "or", l, r) = OfBits(bits, O)
      /\ Binary(bits, "xor", l, r) = OfBits(bits, X)
  BY DEF Binary
<1>8. A \in SUBSET W /\ O \in SUBSET W /\ X \in SUBSET W
  OBVIOUS
<1> HIDE DEF A, O, X, L, R
<1>9. CASE code = "and"
  BY <1>3, <1>6, <1>7, <1>8, <1>9, OfBitsIsWithBits
<1>10. CASE code = "or"
  BY <1>4, <1>6, <1>7, <1>8, <1>10, OfBitsIsWithBits
<1>11. CASE code = "xor"
  BY <1>5, <1>6, <1>7, <1>8, <1>11, OfBitsIsWithBits
<1> QED
  BY <1>9, <1>10, <1>11

\* What the specification and the program compute from two integers is the same
\* number of the width.
LEMMA BinaryAgrees ==
  ASSUME NEW bits \in Nat \ {0}, NEW code \in {"add", "sub", "mul", "div", "rem", "and", "or", "xor"},
         NEW l \in Range2(bits), NEW r \in Range2(bits), code \in {"div", "rem"} => r # 0
  PROVE  /\ Java!JavaBinary(bits, code, l, r) = Binary(bits, code, l, r)
         /\ Binary(bits, code, l, r) \in Range2(bits)
<1>1. l \in Int /\ r \in Int
  BY RangeOfWidth
<1>2. CASE code = "add"
  <2>1. Java!JavaBinary(bits, code, l, r) = Java!Congruent(bits, l + r) /\ Binary(bits, code, l, r) = Wrap(bits, l + r)
    BY <1>2 DEF Java!JavaBinary, Binary
  <2>2. l + r \in Int
    BY <1>1
  <2> QED
    BY <2>1, <2>2, CongruentIsWrap, WrapIsCongruent
<1>3. CASE code = "sub"
  <2>1. Java!JavaBinary(bits, code, l, r) = Java!Congruent(bits, l - r) /\ Binary(bits, code, l, r) = Wrap(bits, l - r)
    BY <1>3 DEF Java!JavaBinary, Binary
  <2>2. l - r \in Int
    BY <1>1
  <2> QED
    BY <2>1, <2>2, CongruentIsWrap, WrapIsCongruent
<1>4. CASE code = "mul"
  <2>1. Java!JavaBinary(bits, code, l, r) = Java!Congruent(bits, l * r) /\ Binary(bits, code, l, r) = Wrap(bits, l * r)
    BY <1>4 DEF Java!JavaBinary, Binary
  <2>2. l * r \in Int
    BY <1>1
  <2> QED
    BY <2>1, <2>2, CongruentIsWrap, WrapIsCongruent
<1>5. CASE code = "div"
  <2>1. Quotient(l, r) \in Int
    <3>1. \E q \in Nat : Quotient(l, r) = IF (l < 0) = (r < 0) THEN q ELSE -q
      BY <1>1, <1>5, QuotientTruncates
    <3> QED
      BY <3>1
  <2>2. Binary(bits, "div", l, r) = Wrap(bits, Quotient(l, r))
    BY DEF Binary
  <2> QED
    BY <1>5, <2>1, <2>2, DivisionAgrees, WrapIsCongruent
<1>6. CASE code = "rem"
  BY <1>6, RemainderAgrees
<1>7. CASE code \in {"and", "or", "xor"}
  BY <1>7, LogicAgrees
<1> QED
  BY <1>2, <1>3, <1>4, <1>5, <1>6, <1>7

-----------------------------------------------------------------------------
(* Shifts. *)

LEMMA DistanceAgrees ==
  ASSUME NEW bits \in Nat \ {0}, NEW s \in Int
  PROVE  /\ (CHOOSE k \in 0 .. (bits - 1) : (s - k) % bits = 0) = s % bits
         /\ s % bits \in 0 .. (bits - 1)
<1> DEFINE k == CHOOSE k \in 0 .. (bits - 1) : (s - k) % bits = 0
           d == s % bits
           q == s \div bits
<1>1. d \in Int /\ q \in Int /\ s = bits * q + d /\ 0 <= d /\ d < bits
  BY Division
<1> HIDE DEF q, d
<1>2. d \in 0 .. (bits - 1) /\ (s - d) % bits = 0
  <2>1. s - d = bits * q
    BY <1>1
  <2> QED
    BY <1>1, <2>1, Multiples
<1>3. k \in 0 .. (bits - 1) /\ (s - k) % bits = 0
  BY <1>2
<1> HIDE DEF k
<1>4. k = d
  <2> DEFINE x == s - k
             y == s - d
  <2>1. x \in Int /\ y \in Int /\ x - y = d - k /\ d - k \in Int /\ -bits < d - k /\ d - k < bits
    BY <1>1, <1>3
  <2>2. x % bits = 0 /\ y % bits = 0
    BY <1>2, <1>3
  <2> HIDE DEF x, y
  <2>3. (x - y) % bits = 0
    BY <2>1, <2>2, MultiplesSubtract
  <2>4. d - k = 0
    BY <2>1, <2>3, NoMultipleBetween
  <2> QED
    BY <1>1, <1>3, <2>4
<1> QED
  BY <1>2, <1>4 DEF k, d

LEMMA BitsOfProduct ==
  ASSUME NEW x \in Int, NEW d \in Nat, NEW i \in Nat
  PROVE  BitAt(x * 2 ^ d, i) <=> i >= d /\ BitAt(x, i - d)
<1>1. CASE i >= d
  <2>1. 2 ^ i = 2 ^ d * 2 ^ (i - d) /\ 2 ^ (i - d) \in Nat \ {0} /\ 2 ^ d \in Nat \ {0}
    BY <1>1, PowerDivides
  <2> DEFINE a == 2 ^ d
             b == 2 ^ (i - d)
  <2> HIDE DEF a, b
  <2>2. a \in Nat \ {0} /\ b \in Nat \ {0} /\ x * a \in Int
    BY <2>1 DEF a, b
  <2>3. ((x * a) \div a) \div b = (x * a) \div (a * b)
    BY <2>2, QuotientOfQuotient
  <2>4. (x * a) \div a = x
    <3>1. x * a = a * x + 0
      BY <2>2
    <3>2. (a * x + 0) \div a = x
      BY <2>2
    <3> QED
      BY <3>1, <3>2
  <2>5. (x * a) \div 2 ^ i = x \div b
    BY <2>1, <2>3, <2>4 DEF a, b
  <2> QED
    BY <1>1, <2>5 DEF BitAt, a, b
<1>2. CASE i < d
  <2>1. d \in Nat /\ x * 2 ^ d \in Int /\ 0 \in Int
    BY PowerIsNatural
  <2>2. BitAt(2 ^ d * x + 0, i) = BitAt(0, i)
    <3>1. \A y \in Int : BitAt(2 ^ d * x + y, i) = BitAt(y, i)
      BY <1>2, LowBits
    <3> QED
      BY <2>1, <3>1
  <2>3. ~BitAt(0, i)
    <3>1. 2 ^ i \in Nat \ {0}
      BY PowerIsNatural
    <3>2. 0 \div 2 ^ i = 0
      BY <3>1
    <3>3. ~(0 % 2 = 1)
      OBVIOUS
    <3> QED
      BY <3>2, <3>3 DEF BitAt
  <2>4. x * 2 ^ d = 2 ^ d * x + 0
    <3>1. 2 ^ d \in Int
      BY PowerIsNatural
    <3> QED
      BY <3>1
  <2> QED
    BY <1>2, <2>2, <2>3, <2>4
<1> QED
  BY <1>1, <1>2

LEMMA BitsOfQuotient ==
  ASSUME NEW x \in Int, NEW d \in Nat, NEW i \in Nat
  PROVE  BitAt(x \div 2 ^ d, i) <=> BitAt(x, i + d)
<1>1. 2 ^ (d + i) = 2 ^ d * 2 ^ i /\ 2 ^ d \in Nat \ {0} /\ 2 ^ i \in Nat \ {0} /\ i + d = d + i
  BY PowerAdds, PowerIsNatural
<1>2. (x \div 2 ^ d) \div 2 ^ i = x \div (2 ^ d * 2 ^ i)
  BY <1>1, QuotientOfQuotient
<1> QED
  BY <1>1, <1>2 DEF BitAt

LEMMA NoHighBits ==
  ASSUME NEW bits \in Nat, NEW x \in Nat, x < 2 ^ bits, NEW i \in Nat, i >= bits
  PROVE  ~BitAt(x, i)
<1>1. 2 ^ bits <= 2 ^ i /\ 2 ^ i \in Nat \ {0} /\ 2 ^ bits \in Nat
  BY PowerDivides, PowerIsNatural
<1>2. x \div 2 ^ i = 0
  BY <1>1
<1>3. ~(0 % 2 = 1)
  OBVIOUS
<1> QED
  BY <1>2, <1>3 DEF BitAt

LEMMA ShiftAgrees ==
  ASSUME NEW bits \in Nat \ {0}, NEW code \in {"shl", "shr", "ushr"}, NEW l \in Range2(bits), NEW s \in Int
  PROVE  /\ Java!JavaShift(bits, code, l, s) = Shift(bits, code, l, s)
         /\ Shift(bits, code, l, s) \in Range2(bits)
<1> DEFINE d == s % bits
           W == 0 .. (bits - 1)
           p == 2 ^ d
<1>1. (CHOOSE k \in 0 .. (bits - 1) : (s - k) % bits = 0) = d /\ d \in W
  BY DistanceAgrees
<1>2. PICK h \in Nat \ {0} : /\ h = 2 ^ (bits - 1) /\ 2 ^ bits = 2 * h
                             /\ \A y : y \in Range2(bits) <=> y \in Int /\ -h <= y /\ y < h
  BY RangeOfWidth
<1>3. l \in Int
  BY <1>2
<1>4. d \in Nat /\ p \in Nat \ {0}
  BY <1>1, PowerIsNatural
<1>5. /\ Java!JavaShift(bits, "shl", l, s) = Java!WithBits(bits, {i + d : i \in Java!BitsOf(bits, l)} \cap W)
      /\ Java!JavaShift(bits, "shr", l, s) = CHOOSE y \in Range2(bits) : y * p <= l /\ l < (y + 1) * p
      /\ Java!JavaShift(bits, "ushr", l, s) = Java!WithBits(bits, {i \in W : i + d \in Java!BitsOf(bits, l)})
  BY <1>1 DEF Java!JavaShift, Java!Range2, Range2
<1>6. /\ Shift(bits, "shl", l, s) = Wrap(bits, l * p)
      /\ Shift(bits, "shr", l, s) = l \div p
      /\ Shift(bits, "ushr", l, s) = Wrap(bits, (l % 2 ^ bits) \div p)
  BY DEF Shift, Unsigned
<1>7. CASE code = "shl"
  <2>1. l * p \in Int
    BY <1>3, <1>4
  <2>2. Java!BitsOf(bits, l * p) = {i \in W : BitAt(l * p, i)}
    BY <2>1, BitsAre
  <2>3. Java!BitsOf(bits, l) = {i \in W : BitAt(l, i)}
    BY <1>3, BitsAre
  <2> HIDE DEF d
  <2>4. \A i \in W : BitAt(l * p, i) <=> i >= d /\ BitAt(l, i - d)
    BY <1>3, <1>4, BitsOfProduct
  <2>5. {i + d : i \in Java!BitsOf(bits, l)} \cap W = Java!BitsOf(bits, l * p)
    <3>1. ASSUME NEW j \in Java!BitsOf(bits, l * p)
          PROVE  j \in {i + d : i \in Java!BitsOf(bits, l)} \cap W
      <4>1. j \in W /\ j - d \in Java!BitsOf(bits, l) /\ j = (j - d) + d
        BY <1>4, <2>2, <2>3, <2>4
      <4> QED
        BY <4>1
    <3>2. ASSUME NEW i \in Java!BitsOf(bits, l), i + d \in W
          PROVE  i + d \in Java!BitsOf(bits, l * p)
      <4>1. i \in W /\ BitAt(l, i)
        BY <2>3
      <4>2. i + d >= d /\ (i + d) - d = i
        BY <1>4, <4>1
      <4> QED
        BY <2>2, <2>4, <3>2, <4>1, <4>2
    <3> QED
      BY <3>1, <3>2
  <2>6. Java!WithBits(bits, Java!BitsOf(bits, l * p)) = Wrap(bits, l * p) /\ Wrap(bits, l * p) \in Range2(bits)
    BY <2>1, WithBitsOf, WrapIsCongruent
  <2> HIDE DEF p
  <2> QED
    BY <1>5, <1>6, <1>7, <2>5, <2>6
<1>8. CASE code = "shr"
  <2> DEFINE q == l \div p
             r == l % p
             c == CHOOSE y \in Range2(bits) : y * p <= l /\ l < (y + 1) * p
  <2> HIDE DEF d, p
  <2>1. q \in Int /\ r \in Int /\ l = p * q + r /\ 0 <= r /\ r < p
    BY <1>3, <1>4, Division
  <2> HIDE DEF q, r
  <2>2. q * p <= l /\ l < (q + 1) * p
    BY <1>4, <2>1
  <2>3. q \in Range2(bits)
    <3>1. ASSUME q >= h
          PROVE  FALSE
      <4>1. q * p >= q
        BY <1>4, <2>1, <3>1
      <4>2. l < h /\ q * p \in Int
        BY <1>2, <1>4, <2>1
      <4> QED
        BY <1>3, <2>1, <2>2, <3>1, <4>1, <4>2
    <3>2. ASSUME q < -h
          PROVE  FALSE
      <4>1. (q + 1) * p <= q + 1
        <5>1. q + 1 \in Int /\ q + 1 <= 0
          BY <2>1, <3>2
        <5>2. ASSUME NEW a \in Int, a <= 0
              PROVE  a * p <= a
          BY <1>4, <5>2
        <5> QED
          BY <5>1, <5>2
      <4> QED
        BY <1>2, <1>3, <1>4, <2>1, <2>2, <3>2, <4>1
    <3> QED
      BY <1>2, <2>1, <3>1, <3>2
  <2>4. c \in Range2(bits) /\ c * p <= l /\ l < (c + 1) * p
    BY <2>2, <2>3
  <2> HIDE DEF c
  <2>5. c = q
    <3>1. ASSUME NEW a \in Int, NEW b \in Int, a * p <= l, l < (b + 1) * p
          PROVE  a <= b
      <4>1. (b + 1 - a) * p > 0
        BY <1>3, <1>4, <3>1
      <4> QED
        BY <1>4, <3>1, <4>1
    <3>2. c \in Int
      BY <1>2, <2>4
    <3>3. c <= q
      BY <2>1, <2>2, <2>4, <3>1, <3>2
    <3>4. q <= c
      BY <2>1, <2>2, <2>4, <3>1, <3>2
    <3> QED
      BY <2>1, <3>2, <3>3, <3>4
  <2> QED
    BY <1>5, <1>6, <1>8, <2>3, <2>5 DEF q, c
<1>9. CASE code = "ushr"
  <2> DEFINE u == l % 2 ^ bits
  <2>1. 2 ^ bits \in Nat \ {0}
    BY PowerIsNatural
  <2>2. u \in Nat /\ u < 2 ^ bits
    BY <1>3, <2>1, Division
  <2>3. \A i \in W : BitAt(u, i) = BitAt(l, i)
    BY <1>3, BitsOfRemainder
  <2> HIDE DEF u, d
  <2>4. u \div p \in Int
    BY <1>4, <2>2
  <2>5. Java!BitsOf(bits, u \div p) = {i \in W : BitAt(u \div p, i)}
    BY <2>4, BitsAre
  <2>6. Java!BitsOf(bits, l) = {i \in W : BitAt(l, i)}
    BY <1>3, BitsAre
  <2>7. \A i \in W : BitAt(u \div p, i) <=> i + d \in Java!BitsOf(bits, l)
    <3> SUFFICES ASSUME NEW i \in W
                 PROVE  BitAt(u \div p, i) <=> i + d \in Java!BitsOf(bits, l)
      OBVIOUS
    <3>1. BitAt(u \div p, i) <=> BitAt(u, i + d)
      <4>1. u \in Int /\ i \in Nat
        BY <2>2
      <4> QED
        BY <1>4, <4>1, BitsOfQuotient
    <3>2. i + d \in Nat
      BY <1>4
    <3>3. CASE i + d < bits
      <4>1. i + d \in W
        BY <3>2, <3>3
      <4> QED
        BY <2>3, <2>6, <3>1, <4>1
    <3>4. CASE i + d >= bits
      <4>1. ~BitAt(u, i + d)
        BY <2>2, <3>2, <3>4, NoHighBits
      <4>2. i + d \notin W
        BY <3>2, <3>4
      <4> QED
        BY <2>6, <3>1, <4>1, <4>2
    <3> QED
      BY <3>2, <3>3, <3>4
  <2>8. {i \in W : i + d \in Java!BitsOf(bits, l)} = Java!BitsOf(bits, u \div p)
    BY <2>5, <2>7
  <2>9. Java!WithBits(bits, Java!BitsOf(bits, u \div p)) = Wrap(bits, u \div p) /\ Wrap(bits, u \div p) \in Range2(bits)
    BY <2>4, WithBitsOf, WrapIsCongruent
  <2> HIDE DEF p
  <2> QED
    BY <1>5, <1>6, <1>9, <2>8, <2>9 DEF u
<1> QED
  BY <1>7, <1>8, <1>9

-----------------------------------------------------------------------------
(* Comparisons, floating point and conversions. *)

LEMMA CompareAgrees ==
  ASSUME NEW a \in Int, NEW b \in Int
  PROVE  Java!Sign(a - b) = Compare(a, b) /\ Compare(a, b) \in {-1, 0, 1}
BY DEF Java!Sign, Compare

LEMMA Floats ==
  ASSUME NEW top \in Nat, NEW x
  PROVE  x \in -top .. NaN(top) <=> x \in Int /\ -top <= x /\ x <= top + 1
BY DEF NaN

LEMMA ClampStays ==
  ASSUME NEW top \in Nat, NEW x \in Int
  PROVE  Clamp(top, x) \in Int /\ -top <= Clamp(top, x) /\ Clamp(top, x) <= top
BY DEF Clamp

LEMMA QuotientIsInteger ==
  ASSUME NEW l \in Int, NEW r \in Int, r # 0
  PROVE  Quotient(l, r) \in Int
<1>1. \E q \in Nat : Quotient(l, r) = IF (l < 0) = (r < 0) THEN q ELSE -q
  BY QuotientTruncates
<1> QED
  BY <1>1

LEMMA IeeeStays ==
  ASSUME NEW top \in Nat, NEW code \in {"add", "sub", "mul", "div", "rem"},
         NEW l \in -top .. NaN(top), NEW r \in -top .. NaN(top)
  PROVE  Ieee(top, code, l, r) \in -top .. NaN(top)
<1>1. l \in Int /\ r \in Int
  BY Floats
<1>2. ASSUME NEW x \in Int
      PROVE  Clamp(top, x) \in -top .. NaN(top)
  BY ClampStays, Floats
<1>3. NaN(top) \in -top .. NaN(top)
  BY Floats DEF NaN
<1>4. Compare(l, 0) \in Int /\ Compare(r, 0) \in Int
  BY DEF Compare
<1>5. /\ l + r \in Int /\ l - r \in Int /\ -r \in Int /\ l * r \in Int
      /\ top * Compare(l, 0) \in Int /\ top * Compare(l, 0) * Compare(r, 0) \in Int
  BY <1>1, <1>4
<1>6. r # 0 => Quotient(l, r) \in Int /\ l - r * Quotient(l, r) \in Int
  <2>1. r # 0 => Quotient(l, r) \in Int
    BY <1>1, QuotientIsInteger
  <2> QED
    BY <1>1, <2>1
<1>7. CASE code = "add"
  <2>1. \E x \in Int : Ieee(top, code, l, r) \in {NaN(top), Clamp(top, x)}
    BY <1>1, <1>5, <1>7 DEF Ieee
  <2> QED
    BY <1>2, <1>3, <2>1
<1>8. CASE code = "sub"
  <2>1. \E x \in Int : Ieee(top, code, l, r) \in {NaN(top), Clamp(top, x)}
    BY <1>1, <1>5, <1>8 DEF Ieee
  <2> QED
    BY <1>2, <1>3, <2>1
<1>9. CASE code = "mul"
  <2>1. \E x \in Int : Ieee(top, code, l, r) \in {NaN(top), Clamp(top, x)}
    BY <1>1, <1>5, <1>9 DEF Ieee
  <2> QED
    BY <1>2, <1>3, <2>1
<1>10. CASE code = "div"
  <2>1. \E x \in Int : Ieee(top, code, l, r) \in {NaN(top), Clamp(top, x)}
    BY <1>1, <1>5, <1>6, <1>10 DEF Ieee
  <2> QED
    BY <1>2, <1>3, <2>1
<1>11. CASE code = "rem"
  <2>1. \E x \in Int : Ieee(top, code, l, r) \in {NaN(top), Clamp(top, x)}
    BY <1>1, <1>5, <1>6, <1>11 DEF Ieee
  <2> QED
    BY <1>2, <1>3, <2>1
<1> QED
  BY <1>7, <1>8, <1>9, <1>10, <1>11

LEMMA SaturateIsNearest ==
  ASSUME NEW bits \in Nat \ {0}, NEW top \in Nat \ {0}, NEW x \in -top .. NaN(top)
  PROVE  Java!Nearest(bits, top, x) = Saturate(bits, top, x) /\ Saturate(bits, top, x) \in Range2(bits)
<1>1. PICK h \in Nat \ {0} : /\ h = 2 ^ (bits - 1) /\ 2 ^ bits = 2 * h
                             /\ \A y : y \in Range2(bits) <=> y \in Int /\ -h <= y /\ y < h
  BY RangeOfWidth
<1>2. x \in Int /\ x <= top + 1 /\ -top <= x
  BY Floats
<1>3. Java!Range2(bits) = Range2(bits)
  BY DEF Java!Range2, Range2
<1>4. Saturate(bits, top, x) = IF x = top + 1 THEN 0
                               ELSE IF x >= h - 1 \/ x = top THEN h - 1
                               ELSE IF x <= -h \/ x = -top THEN -h ELSE x
  BY <1>1 DEF Saturate, NaN
<1> DEFINE c == CHOOSE y \in Range2(bits) : \A z \in Range2(bits) : y * Java!Sign(x) >= z * Java!Sign(x)
<1>5. Java!Nearest(bits, top, x) = IF x = top + 1 THEN 0
                                   ELSE IF x \in Range2(bits) /\ Magnitude(x) # top THEN x
                                   ELSE c
  BY <1>3 DEF Java!Nearest, Java!NaN, Java!Magnitude, Magnitude
<1>6. h - 1 \in Range2(bits) /\ -h \in Range2(bits) /\ 0 \in Range2(bits)
  BY <1>1
<1>7. ASSUME x > 0
      PROVE  c = h - 1
  <2>1. Java!Sign(x) = 1
    BY <1>2, <1>7 DEF Java!Sign
  <2>2. \A z \in Range2(bits) : (h - 1) * Java!Sign(x) >= z * Java!Sign(x)
    BY <1>1, <2>1
  <2>3. c \in Range2(bits) /\ \A z \in Range2(bits) : c * Java!Sign(x) >= z * Java!Sign(x)
    BY <1>6, <2>2
  <2> HIDE DEF c
  <2>4. c * 1 >= (h - 1) * 1
    BY <1>6, <2>1, <2>3
  <2> QED
    BY <1>1, <2>3, <2>4
<1>8. ASSUME x < 0
      PROVE  c = -h
  <2>1. Java!Sign(x) = -1
    BY <1>2, <1>8 DEF Java!Sign
  <2>2. \A z \in Range2(bits) : (-h) * Java!Sign(x) >= z * Java!Sign(x)
    BY <1>1, <2>1
  <2>3. c \in Range2(bits) /\ \A z \in Range2(bits) : c * Java!Sign(x) >= z * Java!Sign(x)
    BY <1>6, <2>2
  <2> HIDE DEF c
  <2>4. c * (-1) >= (-h) * (-1)
    BY <1>6, <2>1, <2>3
  <2> QED
    BY <1>1, <2>3, <2>4
<1> HIDE DEF c
<1>9. CASE x = top + 1
  BY <1>4, <1>5, <1>6, <1>9
<1>10. CASE x # top + 1 /\ x > 0
  <2>1. Magnitude(x) = x
    BY <1>2, <1>10 DEF Magnitude
  <2> QED
    BY <1>1, <1>2, <1>4, <1>5, <1>6, <1>7, <1>10, <2>1
<1>11. CASE x < 0
  <2>1. Magnitude(x) = -x
    BY <1>2, <1>11 DEF Magnitude
  <2> QED
    BY <1>1, <1>2, <1>4, <1>5, <1>6, <1>8, <1>11, <2>1
<1>12. CASE x = 0
  <2>1. Magnitude(x) = 0
    BY <1>12 DEF Magnitude
  <2>2. Java!Nearest(bits, top, x) = 0
    BY <1>5, <1>6, <1>12, <2>1
  <2>3. x # top + 1 /\ x # top /\ x # -top /\ ~(x <= -h)
    BY <1>12
  <2>4. Saturate(bits, top, x) = 0
    <3>1. CASE h = 1
      BY <1>4, <1>12, <2>3, <3>1
    <3>2. CASE h > 1
      <4>1. ~(x >= h - 1)
        BY <1>12, <3>2
      <4> QED
        BY <1>4, <1>12, <2>3, <4>1
    <3> QED
      BY <3>1, <3>2
  <2> QED
    BY <1>6, <2>2, <2>4
<1> QED
  BY <1>2, <1>9, <1>10, <1>11, <1>12

\* The casts between the numeric types, and to the small ones.
Casts == {p \in {"Int", "Long", "Float", "Double"} \X {"Int", "Long", "Float", "Double"} : p[1] # p[2]}
         \cup {"Int"} \X {"Byte", "Char", "Short"}

\* The kind that a value has after a cast.
CastKind(to) == IF to \in {"Byte", "Char", "Short"} THEN "Int" ELSE to

LEMMA CastsAgree ==
  ASSUME NEW from, NEW to, <<from, to>> \in Casts, NEW x \in Values(from)
  PROVE  Java!JavaConverted(from, to, x) = Converted(from, to, x) /\ Converted(from, to, x) \in Values(CastKind(to))
<1>1. /\ IntBits \in Nat \ {0} /\ LongBits \in Nat \ {0} /\ ByteBits \in Nat \ {0} /\ ShortBits \in Nat \ {0}
      /\ FloatTop \in Nat \ {0} /\ DoubleTop \in Nat \ {0} /\ FloatTop \in Nat /\ DoubleTop \in Nat
      /\ ByteBits < IntBits /\ ShortBits < IntBits /\ IntBits < LongBits
  BY WidthsAssumption, FormatsAssumption
<1>2. /\ Values("Int") = Range2(IntBits) /\ Values("Long") = Range2(LongBits)
      /\ Values("Float") = -FloatTop .. NaN(FloatTop) /\ Values("Double") = -DoubleTop .. NaN(DoubleTop)
  BY DEF Values
<1>3. CASE from \in {"Float", "Double"} /\ to \in {"Int", "Long"}
  <2> DEFINE bits == IF to = "Int" THEN IntBits ELSE LongBits
             top == IF from = "Float" THEN FloatTop ELSE DoubleTop
  <2>1. Java!JavaConverted(from, to, x) = Java!Nearest(bits, top, x)
    BY <1>3 DEF Java!JavaConverted
  <2>2. Converted(from, to, x) = Saturate(bits, top, x)
    BY <1>3 DEF Converted
  <2>3. x \in -top .. NaN(top) /\ bits \in Nat \ {0} /\ top \in Nat \ {0} /\ Values(CastKind(to)) = Range2(bits)
    BY <1>1, <1>2, <1>3 DEF CastKind
  <2> HIDE DEF bits, top
  <2> QED
    BY <2>1, <2>2, <2>3, SaturateIsNearest
<1>4. CASE from = "Long" /\ to = "Int"
  <2>1. x \in Int
    BY <1>1, <1>2, <1>4, RangeOfWidth
  <2>2. Java!JavaConverted(from, to, x) = Java!Congruent(IntBits, x) /\ Converted(from, to, x) = Wrap(IntBits, x)
    BY <1>4 DEF Java!JavaConverted, Converted
  <2> QED
    BY <1>1, <1>2, <1>4, <2>1, <2>2, CongruentIsWrap, WrapIsCongruent DEF CastKind
<1>5. CASE from = "Int" /\ to \in {"Byte", "Short"}
  <2> DEFINE bits == IF to = "Byte" THEN ByteBits ELSE ShortBits
  <2>1. x \in Int
    BY <1>1, <1>2, <1>5, RangeOfWidth
  <2>2. Java!JavaConverted(from, to, x) = Java!Congruent(bits, x) /\ Converted(from, to, x) = Wrap(bits, x)
    BY <1>5 DEF Java!JavaConverted, Converted
  <2>3. bits \in Nat \ {0} /\ bits < IntBits /\ CastKind(to) = "Int"
    BY <1>1, <1>5 DEF CastKind
  <2> HIDE DEF bits
  <2>4. Range2(bits) \subseteq Range2(IntBits)
    BY <1>1, <2>3, Widening
  <2>5. Java!Congruent(bits, x) = Wrap(bits, x) /\ Wrap(bits, x) \in Range2(bits)
    BY <2>1, <2>3, CongruentIsWrap, WrapIsCongruent
  <2> QED
    BY <1>2, <2>2, <2>3, <2>4, <2>5
<1>6. CASE from = "Int" /\ to = "Char"
  <2> DEFINE p == 2 ^ ShortBits
             d == CHOOSE y \in 0 .. (p - 1) : (y - x) % p = 0
             r == x % p
             q == x \div p
  <2>1. x \in Int
    BY <1>1, <1>2, <1>6, RangeOfWidth
  <2>2. Java!JavaConverted(from, to, x) = d /\ Converted(from, to, x) = r
    BY <1>6 DEF Java!JavaConverted, Converted, Unsigned
  <2>3. p \in Nat \ {0}
    BY <1>1, PowerIsNatural
  <2> HIDE DEF p
  <2>4. r \in Int /\ q \in Int /\ x = p * q + r /\ 0 <= r /\ r < p
    BY <2>1, <2>3, Division
  <2> HIDE DEF r, q
  <2>5. r \in 0 .. (p - 1) /\ (r - x) % p = 0
    <3>1. r - x = p * (-q) /\ -q \in Int
      BY <2>3, <2>4
    <3> QED
      BY <2>3, <2>4, <3>1, Multiples
  <2>6. d \in 0 .. (p - 1) /\ (d - x) % p = 0
    BY <2>5
  <2> HIDE DEF d
  <2>7. d = r
    <3> DEFINE a == d - x
               b == r - x
    <3>1. a \in Int /\ b \in Int /\ a - b = d - r /\ d - r \in Int /\ -p < d - r /\ d - r < p
      BY <2>1, <2>3, <2>4, <2>6
    <3>2. a % p = 0 /\ b % p = 0
      BY <2>5, <2>6
    <3> HIDE DEF a, b
    <3>3. (a - b) % p = 0
      BY <2>3, <3>1, <3>2, MultiplesSubtract
    <3>4. d - r = 0
      BY <2>3, <3>1, <3>3, NoMultipleBetween
    <3> QED
      BY <2>3, <2>4, <2>6, <3>4
  <2>8. r \in Range2(IntBits)
    <3>1. 0 .. (p - 1) \subseteq Range2(IntBits)
      BY <1>1, Widening DEF p
    <3> QED
      BY <2>5, <3>1
  <2> QED
    BY <1>2, <1>6, <2>2, <2>7, <2>8 DEF CastKind
<1>7. CASE from = "Int" /\ to = "Long"
  <2>1. Java!JavaConverted(from, to, x) = x /\ Converted(from, to, x) = x
    BY <1>7 DEF Java!JavaConverted, Java!Converted, Converted
  <2>2. Range2(IntBits) \subseteq Range2(LongBits)
    BY <1>1, Widening
  <2> QED
    BY <1>2, <1>7, <2>1, <2>2 DEF CastKind
<1>8. CASE from \in {"Int", "Long"} /\ to \in {"Float", "Double"}
  <2> DEFINE top == IF to = "Float" THEN FloatTop ELSE DoubleTop
  <2>1. Java!JavaConverted(from, to, x) = Clamp(top - 1, x) /\ Converted(from, to, x) = Clamp(top - 1, x)
    BY <1>8 DEF Java!JavaConverted, Java!Converted, Converted, Java!FromInteger, FromInteger, Java!Clamp, Clamp
  <2>2. x \in Int
    BY <1>1, <1>2, <1>8, RangeOfWidth
  <2>3. top \in Nat \ {0} /\ top - 1 \in Nat /\ CastKind(to) = to /\ Values(to) = -top .. NaN(top)
    BY <1>1, <1>2, <1>8 DEF CastKind
  <2> HIDE DEF top
  <2>4. Clamp(top - 1, x) \in -top .. NaN(top)
    <3>1. /\ Clamp(top - 1, x) \in Int
          /\ -(top - 1) <= Clamp(top - 1, x) /\ Clamp(top - 1, x) <= top - 1
      BY <2>2, <2>3, ClampStays
    <3> QED
      BY <2>3, <3>1, Floats
  <2> QED
    BY <2>1, <2>3, <2>4
<1>9. CASE from \in {"Float", "Double"} /\ to \in {"Float", "Double"} /\ from # to
  <2> DEFINE a == IF from = "Float" THEN FloatTop ELSE DoubleTop
             b == IF to = "Float" THEN FloatTop ELSE DoubleTop
  <2>1. Java!JavaConverted(from, to, x) = Java!Reformat(a, b, x) /\ Converted(from, to, x) = Reformat(a, b, x)
    BY <1>9 DEF Java!JavaConverted, Java!Converted, Converted
  <2>2. Java!Reformat(a, b, x) = Reformat(a, b, x)
    BY DEF Java!Reformat, Reformat, Java!NaN, NaN, Java!Infinite, Infinite, Java!Magnitude, Magnitude,
           Java!Compare, Compare, Java!Clamp, Clamp
  <2>3. a \in Nat /\ b \in Nat /\ x \in -a .. NaN(a) /\ CastKind(to) = to /\ Values(to) = -b .. NaN(b)
    BY <1>1, <1>2, <1>9 DEF CastKind
  <2> HIDE DEF a, b
  <2>4. x \in Int
    BY <2>3, Floats
  <2>5. Clamp(b, x) \in -b .. NaN(b) /\ NaN(b) \in -b .. NaN(b)
    <3>1. Clamp(b, x) \in Int /\ -b <= Clamp(b, x) /\ Clamp(b, x) <= b
      BY <2>3, <2>4, ClampStays
    <3> QED
      BY <2>3, <3>1, Floats DEF NaN
  <2>6. b * Compare(x, 0) \in -b .. NaN(b)
    BY <2>3, <2>4 DEF Compare, NaN
  <2>7. Reformat(a, b, x) \in -b .. NaN(b)
    BY <2>5, <2>6 DEF Reformat
  <2> QED
    BY <2>1, <2>2, <2>3, <2>7
<1>10. \/ from \in {"Float", "Double"} /\ to \in {"Int", "Long"}
       \/ from = "Long" /\ to = "Int"
       \/ from = "Int" /\ to \in {"Byte", "Short"}
       \/ from = "Int" /\ to = "Char"
       \/ from = "Int" /\ to = "Long"
       \/ from \in {"Int", "Long"} /\ to \in {"Float", "Double"}
       \/ from \in {"Float", "Double"} /\ to \in {"Float", "Double"} /\ from # to
  BY DEF Casts
<1> QED
  BY <1>3, <1>4, <1>5, <1>6, <1>7, <1>8, <1>9, <1>10

-----------------------------------------------------------------------------
(* What the program can have. *)

\* What the program can have as a reference, a value and a slot.
References == {Null, Null + 1, NewThrown, 0, 1}
JavaValues == (UNION {{Slot(k, v) : v \in Values(k)} : k \in {"Int", "Long", "Float", "Double"}})
              \cup {Slot("Ref", v) : v \in References}
Slots == JavaValues \cup {Top}
Locals == 0 .. (MaxLocals - 1)

\* A frame with nothing popped yet and no error.
At(stack, locals, got) == [stack |-> stack, locals |-> locals, got |-> got, ok |-> TRUE]

-----------------------------------------------------------------------------
(* Values and their slots. *)

Five == {"Int", "Long", "Float", "Double", "Ref"}

LEMMA ValueFacts ==
  ASSUME NEW v \in JavaValues
  PROVE  /\ v = Slot(v.kind, v.value) /\ v.kind \in Five /\ v # Top
         /\ v.kind = "Ref" => v.value \in References
         /\ v.kind # "Ref" => v.value \in Values(v.kind)
         /\ SlotsFor(v) \in Seq(Slots) /\ Len(SlotsFor(v)) = Java!Category(v.kind)
         /\ SlotsFor(v) = IF IsCategory2(v.kind) THEN <<v, Top>> ELSE <<v>>
         /\ Java!Category(v.kind) = IF IsCategory2(v.kind) THEN 2 ELSE 1
<1>1. /\ v = Slot(v.kind, v.value) /\ v.kind \in Five /\ v # Top
      /\ v.kind = "Ref" => v.value \in References
      /\ v.kind # "Ref" => v.value \in Values(v.kind)
  <2>1. CASE v \in UNION {{Slot(k, x) : x \in Values(k)} : k \in {"Int", "Long", "Float", "Double"}}
    <3>1. PICK k \in {"Int", "Long", "Float", "Double"} : v \in {Slot(k, x) : x \in Values(k)}
      BY <2>1
    <3> QED
      BY <3>1 DEF Slot, Top, Five
  <2>2. CASE v \in {Slot("Ref", x) : x \in References}
    BY <2>2 DEF Slot, Top, Five
  <2> QED
    BY <2>1, <2>2 DEF JavaValues
<1>2. v \in Slots /\ Top \in Slots
  BY DEF Slots
<1> HIDE DEF Slots
<1>3. <<v, Top>> \in Seq(Slots) /\ <<v>> \in Seq(Slots) /\ Len(<<v, Top>>) = 2 /\ Len(<<v>>) = 1
  BY <1>2
<1>4. SlotsFor(v) = IF IsCategory2(v.kind) THEN <<v, Top>> ELSE <<v>>
  BY DEF SlotsFor
<1>5. Java!Category(v.kind) = IF IsCategory2(v.kind) THEN 2 ELSE 1
  BY DEF Java!Category, IsCategory2
<1> QED
  BY <1>1, <1>3, <1>4, <1>5

LEMMA ValueIs ==
  ASSUME NEW k \in Five, NEW x, k = "Ref" => x \in References, k # "Ref" => x \in Values(k)
  PROVE  Slot(k, x) \in JavaValues /\ Java!Value(k, x) = Slot(k, x) /\ Slot(k, x).kind = k /\ Slot(k, x).value = x
BY DEF JavaValues, Five, Slot, Java!Value

LEMMA SlotsKnown ==
  Top \in Slots /\ JavaValues \subseteq Slots /\ Java!Unusable = Top
BY DEF Slots, Java!Unusable, Java!Value, Top, Slot

-----------------------------------------------------------------------------
(* The recursions over a stack. *)

Accumulates(f, s, base, step) == f = [n \in 0 .. Len(s) |-> IF n = 0 THEN base ELSE step[<<f[n - 1], s[n]>>]]

LEMMA SequenceRecursion ==
  ASSUME NEW A, NEW s \in Seq(A), NEW V, NEW base \in V, NEW step \in [V \X A -> V]
  PROVE  \E f \in [0 .. Len(s) -> V] : Accumulates(f, s, base, step)
<1> DEFINE go == [p \in V \X Nat |-> IF p[2] \in 1 .. Len(s) THEN step[<<p[1], s[p[2]]>>] ELSE base]
<1>1. Len(s) \in Nat /\ \A n \in 1 .. Len(s) : s[n] \in A
  BY LenProperties, ElementOfSeq
<1>2. go \in [V \X Nat -> V]
  BY <1>1
<1>3. PICK f \in [0 .. Len(s) -> V] : Iterates(f, Len(s), base, go)
  <2> HIDE DEF go
  <2> QED
    BY <1>1, <1>2, Iteration
<1>4. \A n \in 0 .. Len(s) : n # 0 => go[<<f[n - 1], n>>] = step[<<f[n - 1], s[n]>>]
  <2> SUFFICES ASSUME NEW n \in 0 .. Len(s), n # 0
               PROVE  go[<<f[n - 1], n>>] = step[<<f[n - 1], s[n]>>]
    OBVIOUS
  <2>1. n \in 1 .. Len(s) /\ n \in Nat /\ n - 1 \in 0 .. Len(s)
    <3> HIDE DEF go
    <3> QED
      BY <1>1
  <2>2. <<f[n - 1], n>> \in V \X Nat
    BY <2>1
  <2>3. go[<<f[n - 1], n>>] = IF n \in 1 .. Len(s) THEN step[<<f[n - 1], s[n]>>] ELSE base
    BY <2>2
  <2> QED
    BY <2>1, <2>3, Zenon
<1>5. f = [n \in 0 .. Len(s) |-> IF n = 0 THEN base ELSE go[<<f[n - 1], n>>]]
  BY <1>3, Zenon DEF Iterates
<1> HIDE DEF go
<1>6. f = [n \in 0 .. Len(s) |-> IF n = 0 THEN base ELSE step[<<f[n - 1], s[n]>>]]
  BY <1>4, <1>5
<1> QED
  BY <1>6 DEF Accumulates

Expansion(f, s) ==
    /\ f \in [0 .. Len(s) -> Seq(Slots)] /\ f[0] = <<>>
    /\ \A n \in 1 .. Len(s) : f[n] = f[n - 1] \o SlotsFor(s[n])

LEMMA ExpandedUnfolds ==
  ASSUME NEW s \in Seq(JavaValues)
  PROVE  \E f : Expansion(f, s) /\ Expanded(s) = f[Len(s)]
<1> DEFINE step == [p \in Seq(Slots) \X JavaValues |-> p[1] \o SlotsFor(p[2])]
           expanded[n \in 0 .. Len(s)] == IF n = 0 THEN <<>> ELSE expanded[n - 1] \o SlotsFor(s[n])
<1>1. step \in [Seq(Slots) \X JavaValues -> Seq(Slots)] /\ <<>> \in Seq(Slots)
  BY ValueFacts, ConcatProperties, EmptySeq
<1>2. Len(s) \in Nat /\ \A n \in 1 .. Len(s) : s[n] \in JavaValues
  BY LenProperties, ElementOfSeq
<1>3. PICK f \in [0 .. Len(s) -> Seq(Slots)] :
        f = [n \in 0 .. Len(s) |-> IF n = 0 THEN <<>> ELSE step[<<f[n - 1], s[n]>>]]
  <2> DEFINE V == Seq(Slots)
             base == <<>>
  <2>1. step \in [V \X JavaValues -> V] /\ base \in V
    BY <1>1
  <2> HIDE DEF step, V, base
  <2>2. \E f \in [0 .. Len(s) -> V] : Accumulates(f, s, base, step)
    BY <2>1, SequenceRecursion
  <2> QED
    BY <2>2 DEF V, base, Accumulates
<1>4. \A n \in 0 .. Len(s) : n # 0 => step[<<f[n - 1], s[n]>>] = f[n - 1] \o SlotsFor(s[n])
  <2> SUFFICES ASSUME NEW n \in 0 .. Len(s), n # 0
               PROVE  step[<<f[n - 1], s[n]>>] = f[n - 1] \o SlotsFor(s[n])
    OBVIOUS
  <2>1. n \in 1 .. Len(s) /\ n - 1 \in 0 .. Len(s)
    <3> HIDE DEF step
    <3> QED
      BY <1>2
  <2>2. <<f[n - 1], s[n]>> \in Seq(Slots) \X JavaValues
    <3> HIDE DEF step
    <3> QED
      BY <1>2, <2>1
  <2> QED
    BY <2>2, Zenon
<1> HIDE DEF step
<1>5. f = [n \in 0 .. Len(s) |-> IF n = 0 THEN <<>> ELSE f[n - 1] \o SlotsFor(s[n])]
  BY <1>3, <1>4, Zenon
<1>6. expanded = [n \in 0 .. Len(s) |-> IF n = 0 THEN <<>> ELSE expanded[n - 1] \o SlotsFor(s[n])]
  BY <1>5, Zenon
<1>7. Expanded(s) = expanded[Len(s)]
  BY DEF Expanded
<1> HIDE DEF expanded
<1> DEFINE T == {n \in 0 .. Len(s) : expanded[n] = f[n]}
<1>8. 0 \in T
  BY <1>2, <1>5, <1>6
<1>9. ASSUME NEW n \in T, n < Len(s)
      PROVE  n + 1 \in T
  <2>1. n \in 0 .. Len(s) /\ n + 1 \in 0 .. Len(s) /\ n + 1 # 0 /\ (n + 1) - 1 = n
    BY <1>2, <1>9
  <2>2. expanded[n + 1] = expanded[n] \o SlotsFor(s[n + 1]) /\ f[n + 1] = f[n] \o SlotsFor(s[n + 1])
    BY <1>5, <1>6, <2>1
  <2> QED
    BY <2>1, <2>2
<1>10. \A n \in 0 .. Len(s) : n \in T
  <2> HIDE DEF T
  <2> QED
    BY <1>2, <1>8, <1>9, InductionUpTo
<1>11. expanded[Len(s)] = f[Len(s)]
  BY <1>2, <1>10
<1>12. Expansion(f, s)
  <2>1. \A n \in 1 .. Len(s) : n \in 0 .. Len(s) /\ n # 0
    BY <1>2
  <2>2. \A n \in 1 .. Len(s) : f[n] = f[n - 1] \o SlotsFor(s[n])
    BY <1>5, <2>1
  <2>3. f[0] = <<>>
    BY <1>2, <1>5
  <2> QED
    BY <2>2, <2>3 DEF Expansion
<1> QED
  BY <1>7, <1>11, <1>12

LEMMA ExpandedOfAppend ==
  ASSUME NEW s \in Seq(JavaValues), NEW v \in JavaValues
  PROVE  Expanded(Append(s, v)) = Expanded(s) \o SlotsFor(v)
<1>1. PICK f : Expansion(f, s) /\ Expanded(s) = f[Len(s)]
  BY ExpandedUnfolds
<1> DEFINE t == Append(s, v)
           L == Len(s)
<1>2. t \in Seq(JavaValues) /\ Len(t) = L + 1 /\ (\A i \in 1 .. L : t[i] = s[i]) /\ t[L + 1] = v /\ L \in Nat
  BY AppendProperties, LenProperties
<1> HIDE DEF t
<1>3. PICK g : Expansion(g, t) /\ Expanded(t) = g[Len(t)]
  BY <1>2, ExpandedUnfolds
<1> DEFINE T == {n \in 0 .. L : f[n] = g[n]}
<1>4. 0 \in T
  BY <1>1, <1>2, <1>3 DEF Expansion
<1>5. ASSUME NEW n \in T, n < L
      PROVE  n + 1 \in T
  <2>1. n \in 0 .. L /\ n + 1 \in 0 .. L /\ n + 1 \in 1 .. L /\ n + 1 \in 1 .. (L + 1) /\ (n + 1) - 1 = n
    BY <1>2, <1>5
  <2>2. f[n + 1] = f[n] \o SlotsFor(s[n + 1])
    BY <1>1, <2>1 DEF Expansion
  <2>3. g[n + 1] = g[n] \o SlotsFor(t[n + 1])
    BY <1>2, <1>3, <2>1 DEF Expansion
  <2> QED
    BY <1>2, <2>1, <2>2, <2>3
<1>6. \A n \in 0 .. L : n \in T
  <2> HIDE DEF T
  <2> QED
    BY <1>2, <1>4, <1>5, InductionUpTo
<1>7. f[L] = g[L]
  BY <1>2, <1>6
<1>8. g[L + 1] = g[L] \o SlotsFor(v)
  <2>1. L + 1 \in 1 .. Len(t) /\ (L + 1) - 1 = L
    BY <1>2
  <2> QED
    BY <1>2, <1>3, <2>1 DEF Expansion
<1> QED
  BY <1>1, <1>2, <1>3, <1>7, <1>8 DEF t

LEMMA ExpandedOfNothing ==
  Expanded(<<>>) = <<>>
<1>1. <<>> \in Seq(JavaValues) /\ Len(<<>>) = 0
  BY EmptySeq
<1>2. PICK f : Expansion(f, <<>>) /\ Expanded(<<>>) = f[0]
  BY <1>1, ExpandedUnfolds
<1> QED
  BY <1>2 DEF Expansion

LEMMA ExpandedType ==
  ASSUME NEW s \in Seq(JavaValues)
  PROVE  Expanded(s) \in Seq(Slots)
<1>1. PICK f : Expansion(f, s) /\ Expanded(s) = f[Len(s)]
  BY ExpandedUnfolds
<1>2. Len(s) \in 0 .. Len(s)
  BY LenProperties
<1> QED
  BY <1>1, <1>2 DEF Expansion

LEMMA SlotsAssociate ==
  ASSUME NEW a \in Seq(Slots), NEW b \in Seq(Slots), NEW c \in Seq(Slots)
  PROVE  (a \o b) \o c = a \o (b \o c)
BY ConcatAssociative

LEMMA ExpandedOfOne ==
  ASSUME NEW v \in JavaValues
  PROVE  Expanded(<<v>>) = SlotsFor(v)
<1>1. <<>> \in Seq(JavaValues) /\ Append(<<>>, v) = <<v>>
  BY EmptySeq
<1>2. Expanded(<<v>>) = <<>> \o SlotsFor(v)
  BY <1>1, ExpandedOfAppend, ExpandedOfNothing
<1>3. <<>> \o SlotsFor(v) = SlotsFor(v)
  BY ValueFacts, ConcatEmptySeq
<1> QED
  BY <1>2, <1>3

LEMMA ExpandedOfConcat ==
  ASSUME NEW s \in Seq(JavaValues), NEW t \in Seq(JavaValues)
  PROVE  Expanded(s \o t) = Expanded(s) \o Expanded(t)
<1> DEFINE T == {n \in Nat : \A u \in Seq(JavaValues) : Len(u) = n => Expanded(s \o u) = Expanded(s) \o Expanded(u)}
<1>1. 0 \in T
  <2>1. \A u \in Seq(JavaValues) : Len(u) = 0 => u = <<>>
    BY EmptySeq
  <2>2. s \o <<>> = s /\ Expanded(s) \o <<>> = Expanded(s)
    BY ConcatEmptySeq, ExpandedType
  <2> QED
    BY <2>1, <2>2, ExpandedOfNothing
<1>2. ASSUME NEW n \in T
      PROVE  n + 1 \in T
  <2> SUFFICES ASSUME NEW u \in Seq(JavaValues), Len(u) = n + 1
               PROVE  Expanded(s \o u) = Expanded(s) \o Expanded(u)
    OBVIOUS
  <2>1. u # <<>> /\ n \in Nat
    BY EmptySeq
  <2>2. PICK w \in Seq(JavaValues), v \in JavaValues : u = Append(w, v)
    BY <2>1, SequenceEmptyOrAppend
  <2>3. Len(w) = n
    BY <2>1, <2>2, AppendProperties, LenProperties
  <2>4. Expanded(s \o w) = Expanded(s) \o Expanded(w)
    BY <2>3
  <2>5. s \o u = Append(s \o w, v) /\ s \o w \in Seq(JavaValues)
    <3>1. s \o w \in Seq(JavaValues) /\ <<v>> \in Seq(JavaValues)
      BY ConcatProperties
    <3>2. u = w \o <<v>> /\ Append(s \o w, v) = (s \o w) \o <<v>>
      BY <2>2, <3>1, AppendIsConcat
    <3> QED
      BY <3>1, <3>2, ConcatAssociative
  <2>6. Expanded(s \o u) = Expanded(s \o w) \o SlotsFor(v)
    BY <2>5, ExpandedOfAppend
  <2>7. Expanded(u) = Expanded(w) \o SlotsFor(v)
    BY <2>2, ExpandedOfAppend
  <2>8. (Expanded(s) \o Expanded(w)) \o SlotsFor(v) = Expanded(s) \o (Expanded(w) \o SlotsFor(v))
    <3>1. Expanded(s) \in Seq(Slots) /\ Expanded(w) \in Seq(Slots) /\ SlotsFor(v) \in Seq(Slots)
      BY ExpandedType, ValueFacts
    <3> QED
      BY <3>1, SlotsAssociate
  <2> QED
    BY <2>4, <2>6, <2>7, <2>8
<1>3. T = Nat
  <2> HIDE DEF T
  <2>1. T \in SUBSET Nat
    BY DEF T
  <2> QED
    BY <1>1, <1>2, <2>1, Induction
<1>4. Len(t) \in Nat
  BY LenProperties
<1> QED
  BY <1>3, <1>4

LEMMA KindsFacts ==
  ASSUME NEW s \in Seq(JavaValues)
  PROVE  /\ Java!Kinds(s) \in Seq(Five) /\ Len(Java!Kinds(s)) = Len(s)
         /\ \A i \in 1 .. Len(s) : Java!Kinds(s)[i] = s[i].kind
<1>1. Len(s) \in Nat /\ DOMAIN s = 1 .. Len(s) /\ \A i \in 1 .. Len(s) : s[i] \in JavaValues
  BY LenProperties, ElementOfSeq
<1>2. Java!Kinds(s) = [i \in 1 .. Len(s) |-> s[i].kind]
  BY <1>1 DEF Java!Kinds
<1>3. Java!Kinds(s) \in [1 .. Len(s) -> Five]
  BY <1>1, <1>2, ValueFacts
<1> HIDE DEF JavaValues
<1> QED
  BY <1>1, <1>2, <1>3

\* The slots of a stack are counted as they are laid out.
LEMMA SlotsAreCounted ==
  ASSUME NEW s \in Seq(JavaValues)
  PROVE  Java!SlotsOf(Java!Kinds(s)) = Len(Expanded(s)) /\ Len(Expanded(s)) \in Nat
<1>1. PICK f : Expansion(f, s) /\ Expanded(s) = f[Len(s)]
  BY ExpandedUnfolds
<1> DEFINE ks == Java!Kinds(s)
           g == [n \in 0 .. Len(s) |-> Len(f[n])]
           below[n \in 0 .. Len(ks)] == IF n = 0 THEN 0 ELSE below[n - 1] + Java!Category(ks[n])
<1>2. Len(ks) = Len(s) /\ Len(s) \in Nat /\ \A i \in 1 .. Len(s) : ks[i] = s[i].kind /\ s[i] \in JavaValues
  BY KindsFacts, LenProperties, ElementOfSeq
<1>3. Java!SlotsOf(ks) = below[Len(ks)]
  BY DEF Java!SlotsOf
<1> HIDE DEF ks
<1>4. \A n \in 0 .. Len(s) : g[n] \in Nat /\ g[n] = IF n = 0 THEN 0 ELSE g[n - 1] + Java!Category(ks[n])
  <2> SUFFICES ASSUME NEW n \in 0 .. Len(s)
               PROVE  g[n] \in Nat /\ g[n] = IF n = 0 THEN 0 ELSE g[n - 1] + Java!Category(ks[n])
    OBVIOUS
  <2>1. f[n] \in Seq(Slots)
    BY <1>1 DEF Expansion
  <2>2. CASE n = 0
    BY <1>1, <2>1, <2>2, EmptySeq DEF Expansion
  <2>3. CASE n # 0
    <3>1. n \in 1 .. Len(s) /\ n - 1 \in 0 .. Len(s)
      BY <1>2, <2>3
    <3>2. f[n] = f[n - 1] \o SlotsFor(s[n]) /\ f[n - 1] \in Seq(Slots)
      BY <1>1, <3>1 DEF Expansion
    <3>3. SlotsFor(s[n]) \in Seq(Slots) /\ Len(SlotsFor(s[n])) = Java!Category(ks[n])
      BY <1>2, <3>1, ValueFacts
    <3>4. Len(f[n]) = Len(f[n - 1]) + Java!Category(ks[n])
      <4>1. Len(f[n - 1] \o SlotsFor(s[n])) = Len(f[n - 1]) + Len(SlotsFor(s[n]))
        BY <3>2, <3>3, ConcatProperties
      <4> QED
        BY <3>2, <3>3, <4>1
    <3> QED
      BY <2>1, <2>3, <3>1, <3>4, LenProperties
  <2> QED
    BY <2>2, <2>3
<1>5. g = [n \in 0 .. Len(ks) |-> IF n = 0 THEN 0 ELSE g[n - 1] + Java!Category(ks[n])]
  <2>1. g = [n \in 0 .. Len(s) |-> g[n]]
    OBVIOUS
  <2> HIDE DEF g
  <2> QED
    BY <1>2, <1>4, <2>1
<1> HIDE DEF g
<1>6. below = [n \in 0 .. Len(ks) |-> IF n = 0 THEN 0 ELSE below[n - 1] + Java!Category(ks[n])]
  BY <1>5
<1> HIDE DEF below
<1> DEFINE T == {n \in 0 .. Len(s) : below[n] = g[n]}
<1>7. 0 \in T
  BY <1>2, <1>4, <1>6
<1>8. ASSUME NEW n \in T, n < Len(s)
      PROVE  n + 1 \in T
  <2>1. n \in 0 .. Len(s) /\ n + 1 \in 0 .. Len(s) /\ n + 1 # 0 /\ (n + 1) - 1 = n
    BY <1>2, <1>8
  <2>2. below[n + 1] = below[n] + Java!Category(ks[n + 1])
    BY <1>2, <1>6, <2>1
  <2>3. g[n + 1] = g[n] + Java!Category(ks[n + 1])
    BY <1>2, <1>5, <2>1
  <2> QED
    BY <2>1, <2>2, <2>3
<1>9. \A n \in 0 .. Len(s) : n \in T
  <2> HIDE DEF T
  <2> QED
    BY <1>2, <1>7, <1>8, InductionUpTo
<1>10. below[Len(s)] = g[Len(s)] /\ g[Len(s)] = Len(f[Len(s)])
  BY <1>2, <1>9 DEF g
<1> QED
  BY <1>1, <1>2, <1>3, <1>10, ExpandedType, LenProperties DEF ks

-----------------------------------------------------------------------------
(* The operations on the slots, on a stack that is the expansion of one of *)
(* values.                                                                 *)

WithGot(f, got) == [f EXCEPT !.got = got]
WithStack(f, stack) == [f EXCEPT !.stack = stack]
WithStackAndGot(f, stack, got) == [f EXCEPT !.stack = stack, !.got = got]
WithLocal(f, i, slot) == [f EXCEPT !.locals[i] = slot]
Putting(L, i, slot) == [L EXCEPT ![i] = slot]

LEMMA FrameWithGot ==
  ASSUME NEW s, NEW L, NEW g, NEW h
  PROVE  WithGot(At(s, L, g), h) = At(s, L, h)
<1> DEFINE ok == TRUE
<1> HIDE DEF ok
<1>1. [[stack |-> s, locals |-> L, got |-> g, ok |-> ok] EXCEPT !.got = h] = [stack |-> s, locals |-> L, got |-> h, ok |-> ok]
  OBVIOUS
<1> QED
  BY <1>1, Zenon DEF At, ok, WithGot

LEMMA FrameWithStack ==
  ASSUME NEW s, NEW L, NEW g, NEW t
  PROVE  WithStack(At(s, L, g), t) = At(t, L, g)
<1> DEFINE ok == TRUE
<1> HIDE DEF ok
<1>1. [[stack |-> s, locals |-> L, got |-> g, ok |-> ok] EXCEPT !.stack = t] = [stack |-> t, locals |-> L, got |-> g, ok |-> ok]
  OBVIOUS
<1> QED
  BY <1>1, Zenon DEF At, ok, WithStack

LEMMA FrameWithStackGot ==
  ASSUME NEW s, NEW L, NEW g, NEW t, NEW h
  PROVE  WithStackAndGot(At(s, L, g), t, h) = At(t, L, h)
<1>1. WithStackAndGot(At(s, L, g), t, h) = WithGot(WithStack(At(s, L, g), t), h)
  BY Zenon DEF WithStackAndGot, WithStack, WithGot
<1>2. WithStack(At(s, L, g), t) = At(t, L, g) /\ WithGot(At(t, L, g), h) = At(t, L, h)
  BY FrameWithStack, FrameWithGot
<1> QED
  BY <1>1, <1>2, Zenon

LEMMA FrameWithLocal ==
  ASSUME NEW s, NEW L, NEW g, NEW i, NEW x
  PROVE  WithLocal(At(s, L, g), i, x) = At(s, Putting(L, i, x), g)
<1> DEFINE ok == TRUE
<1> HIDE DEF ok
<1>1. [[stack |-> s, locals |-> L, got |-> g, ok |-> ok] EXCEPT !.locals[i] = x]
        = [stack |-> s, locals |-> [L EXCEPT ![i] = x], got |-> g, ok |-> ok]
  OBVIOUS
<1> QED
  BY <1>1, Zenon DEF At, ok, WithLocal, Putting

LEMMA PopsSlots ==
  ASSUME NEW A \in Seq(Slots), NEW B \in Seq(Slots), NEW L, NEW g
  PROVE  PopN(At(A \o B, L, g), Len(B)) = At(A, L, B)
<1>1. Len(A) \in Nat /\ Len(B) \in Nat /\ Len(A \o B) = Len(A) + Len(B) /\ A \o B \in Seq(Slots)
  BY LenProperties, ConcatProperties
<1>2. SubSeq(A \o B, 1, Len(A)) = A
  <2>1. CASE Len(A) = 0
    <3>1. A = <<>>
      BY <2>1, EmptySeq
    <3>2. SubSeq(A \o B, 1, 0) = <<>>
      BY SubSeqEmpty
    <3> QED
      BY <2>1, <3>1, <3>2
  <2>2. CASE Len(A) # 0
    <3>1. 1 \in 1 .. Len(A) /\ Len(A) \in 1 .. Len(A)
      BY <1>1, <2>2
    <3> QED
      BY <3>1, SubSeqOfConcat1, SubSeqFull
  <2> QED
    BY <2>1, <2>2
<1>3. SubSeq(A \o B, Len(A) + 1, Len(A) + Len(B)) = B
  <2>1. CASE Len(B) = 0
    <3>1. B = <<>>
      BY <2>1, EmptySeq
    <3>2. SubSeq(A \o B, Len(A) + 1, Len(A) + 0) = <<>>
      BY <1>1, SubSeqEmpty
    <3> QED
      BY <2>1, <3>1, <3>2
  <2>2. CASE Len(B) # 0
    <3>1. Len(A) + 1 \in (Len(A) + 1) .. (Len(A) + Len(B)) /\ Len(A) + Len(B) \in (Len(A) + 1) .. (Len(A) + Len(B))
      BY <1>1, <2>2
    <3>2. SubSeq(A \o B, Len(A) + 1, Len(A) + Len(B)) = SubSeq(B, (Len(A) + 1) - Len(A), (Len(A) + Len(B)) - Len(A))
      BY <3>1, SubSeqOfConcat2
    <3>3. (Len(A) + 1) - Len(A) = 1 /\ (Len(A) + Len(B)) - Len(A) = Len(B)
      BY <1>1
    <3> QED
      BY <3>2, <3>3, SubSeqFull
  <2> QED
    BY <2>1, <2>2
<1>4. (Len(A) + Len(B)) - Len(B) = Len(A) /\ ~(Len(A) < 0)
  BY <1>1
<1> DEFINE f == At(A \o B, L, g)
<1>5. f.ok = TRUE /\ f.stack = A \o B
  BY DEF At
<1>6. WithStackAndGot(f, A, B) = At(A, L, B)
  BY FrameWithStackGot
<1> HIDE DEF f
<1>7. PopN(f, Len(B)) = WithStackAndGot(f, SubSeq(f.stack, 1, Len(A)), SubSeq(f.stack, Len(A) + 1, Len(A) + Len(B)))
  BY <1>1, <1>4, <1>5 DEF PopN, WithStackAndGot
<1> QED
  BY <1>2, <1>3, <1>5, <1>6, <1>7 DEF f

LEMMA PushesSlots ==
  ASSUME NEW A, NEW B, NEW L, NEW g, ~(Len(A) + Len(B) > MaxStack)
  PROVE  PushN(At(A, L, g), B) = At(A \o B, L, g)
BY DEF PushN, At

LEMMA PushesValue ==
  ASSUME NEW s \in Seq(JavaValues), NEW v \in JavaValues, NEW L, NEW g,
         Len(Expanded(Append(s, v))) <= MaxStack
  PROVE  Push(At(Expanded(s), L, g), v.kind, v.value) = At(Expanded(Append(s, v)), L, g)
<1>1. Expanded(Append(s, v)) = Expanded(s) \o SlotsFor(v)
  BY ExpandedOfAppend
<1>2. Expanded(s) \in Seq(Slots) /\ SlotsFor(v) \in Seq(Slots) /\ Slot(v.kind, v.value) = v
  BY ExpandedType, ValueFacts
<1>3. Len(Expanded(s) \o SlotsFor(v)) = Len(Expanded(s)) + Len(SlotsFor(v))
  BY <1>2, ConcatProperties
<1>4. ~(Len(Expanded(s)) + Len(SlotsFor(v)) > MaxStack)
  <2>1. Len(Expanded(s)) + Len(SlotsFor(v)) \in Nat /\ MaxStack \in Nat
    BY <1>2, LenProperties, FramesAssumption
  <2> QED
    BY <1>1, <1>3, <2>1
<1> QED
  BY <1>1, <1>2, <1>4, PushesSlots DEF Push

LEMMA PopsValue ==
  ASSUME NEW s \in Seq(JavaValues), NEW v \in JavaValues, NEW L, NEW g
  PROVE  Pop(At(Expanded(Append(s, v)), L, g), v.kind) = At(Expanded(s), L, <<v.value>> \o g)
<1>1. Expanded(Append(s, v)) = Expanded(s) \o SlotsFor(v)
  BY ExpandedOfAppend
<1>2. Expanded(s) \in Seq(Slots) /\ SlotsFor(v) \in Seq(Slots)
  BY ExpandedType, ValueFacts
<1>3. Len(SlotsFor(v)) = (IF IsCategory2(v.kind) THEN 2 ELSE 1) /\ SlotsFor(v)[1] = v
  BY ValueFacts DEF SlotsFor
<1> DEFINE p == PopN(At(Expanded(s) \o SlotsFor(v), L, g), Len(SlotsFor(v)))
           q == At(Expanded(s), L, SlotsFor(v))
<1>4. p = q
  BY <1>2, PopsSlots
<1>5. q.ok = TRUE /\ q.got = SlotsFor(v) /\ At(Expanded(s) \o SlotsFor(v), L, g).got = g
  BY DEF At
<1>6. Pop(At(Expanded(s) \o SlotsFor(v), L, g), v.kind) = WithGot(q, <<v.value>> \o g)
  <2> HIDE DEF q
  <2>1. p = q
    BY <1>4
  <2>2. Pop(At(Expanded(s) \o SlotsFor(v), L, g), v.kind) =
          IF ~p.ok \/ p.got[1].kind # v.kind THEN FrameError(At(Expanded(s) \o SlotsFor(v), L, g))
          ELSE WithGot(p, <<p.got[1].value>> \o At(Expanded(s) \o SlotsFor(v), L, g).got)
    BY <1>3 DEF Pop, WithGot
  <2> HIDE DEF p
  <2> QED
    BY <1>3, <1>5, <2>1, <2>2
<1>7. WithGot(q, <<v.value>> \o g) = At(Expanded(s), L, <<v.value>> \o g)
  BY FrameWithGot
<1> QED
  BY <1>1, <1>6, <1>7

\* The values of operands, lowest first.
ValuesOf(t) == [i \in 1 .. Len(t) |-> t[i].value]

LEMMA ValuesAssociate ==
  ASSUME NEW a \in Seq(JavaValues), NEW b \in Seq(JavaValues), NEW c \in Seq(JavaValues)
  PROVE  (a \o b) \o c = a \o (b \o c)
BY ConcatAssociative

LEMMA AppendsToConcat ==
  ASSUME NEW s \in Seq(JavaValues), NEW u \in Seq(JavaValues), NEW v \in JavaValues
  PROVE  s \o u \in Seq(JavaValues) /\ s \o Append(u, v) = Append(s \o u, v)
<1>1. s \o u \in Seq(JavaValues) /\ <<v>> \in Seq(JavaValues)
  BY ConcatProperties
<1>2. Append(u, v) = u \o <<v>> /\ Append(s \o u, v) = (s \o u) \o <<v>>
  BY <1>1, AppendIsConcat
<1> QED
  BY <1>1, <1>2, ValuesAssociate

LEMMA PopsOperands ==
  ASSUME NEW s \in Seq(JavaValues), NEW t \in Seq(JavaValues), NEW L
  PROVE  PopAll(At(Expanded(s \o t), L, <<>>), Java!Kinds(t)) = At(Expanded(s), L, ValuesOf(t))
<1> DEFINE m == Len(t)
           ks == Java!Kinds(t)
           f == At(Expanded(s \o t), L, <<>>)
           U(n) == SubSeq(t, 1, m - n)
           G(n) == [i \in 1 .. n |-> t[(m - n) + i].value]
           closed == [n \in 0 .. m |-> At(Expanded(s \o U(n)), L, G(n))]
           popped[n \in 0 .. Len(ks)] == IF n = 0 THEN f ELSE Pop(popped[n - 1], ks[Len(ks) - n + 1])
<1>1. m \in Nat /\ Len(ks) = m /\ \A i \in 1 .. m : t[i] \in JavaValues /\ ks[i] = t[i].kind
  BY LenProperties, ElementOfSeq, KindsFacts
<1>2. U(0) = t /\ G(0) = <<>>
  <2>1. m - 0 = m
    BY <1>1
  <2>2. G(0) = <<>>
    OBVIOUS
  <2> QED
    BY <2>1, <2>2, SubSeqFull
<1>3. ASSUME NEW n \in 1 .. m
      PROVE  closed[n] = Pop(closed[n - 1], ks[m - n + 1])
  <2> DEFINE k == m - n + 1
             v == t[k]
  <2>1. k \in 1 .. m /\ m - n = k - 1 /\ m - (n - 1) = k /\ n \in 0 .. m /\ n - 1 \in 0 .. m /\ v \in JavaValues
    BY <1>1
  <2>2. U(n) \in Seq(JavaValues) /\ U(n - 1) = Append(U(n), v)
    <3>1. SubSeq(t, 1, k - 1) \in Seq(JavaValues)
      <4>1. \A i \in 1 .. (k - 1) : t[i] \in JavaValues
        BY <1>1, <2>1
      <4> QED
        BY <2>1, <4>1, SubSeqProperties
    <3>2. SubSeq(t, 1, k) = SubSeq(t, 1, k - 1) \o <<t[k]>>
      <4>1. 1 \in 1 .. Len(t) /\ k \in 1 .. Len(t)
        BY <1>1, <2>1
      <4> QED
        BY <4>1, SubSeqRecursiveSecond
    <3>3. Append(SubSeq(t, 1, k - 1), t[k]) = SubSeq(t, 1, k - 1) \o <<t[k]>>
      BY <2>1, <3>1, AppendIsConcat
    <3> QED
      BY <2>1, <3>1, <3>2, <3>3
  <2>3. G(n) = <<v.value>> \o G(n - 1)
    <3> DEFINE V == {x.value : x \in JavaValues}
    <3>1. <<v.value>> \in Seq(V) /\ Len(<<v.value>>) = 1
      BY <2>1
    <3>2. G(n - 1) \in Seq(V) /\ Len(G(n - 1)) = n - 1
      <4>1. \A i \in 1 .. (n - 1) : t[(m - (n - 1)) + i] \in JavaValues
        BY <1>1, <2>1
      <4>2. G(n - 1) \in [1 .. (n - 1) -> V] /\ n - 1 \in Nat
        BY <2>1, <4>1
      <4> HIDE DEF V, G
      <4>3. G(n - 1) \in Seq(V)
        BY <4>2, SeqDef
      <4> QED
        BY <4>2, <4>3, LenProperties
    <3>3. G(n) \in Seq(V) /\ Len(G(n)) = n
      <4>1. \A i \in 1 .. n : t[(m - n) + i] \in JavaValues
        BY <1>1, <2>1
      <4>4. \A i \in 1 .. n : t[(m - n) + i].value \in V
        BY <4>1
      <4> HIDE DEF V
      <4>5. G(n) \in [1 .. n -> V]
        BY <4>4
      <4>2. G(n) \in [1 .. n -> V] /\ n \in Nat
        BY <2>1, <4>5
      <4> HIDE DEF V, G
      <4>3. G(n) \in Seq(V)
        BY <4>2, SeqDef
      <4> QED
        BY <4>2, <4>3, LenProperties
    <3> DEFINE W == <<v.value>> \o G(n - 1)
    <3>4. W \in Seq(V) /\ Len(W) = 1 + (n - 1)
          /\ \A i \in 1 .. (1 + (n - 1)) : W[i] = IF i <= 1 THEN <<v.value>>[i] ELSE G(n - 1)[i - 1]
      <4> HIDE DEF G, V
      <4> QED
        BY <3>1, <3>2, ConcatProperties
    <3>5. \A i \in 1 .. n : G(n)[i] = W[i]
      <4> SUFFICES ASSUME NEW i \in 1 .. n
                   PROVE  G(n)[i] = W[i]
        OBVIOUS
      <4>1. i \in 1 .. (1 + (n - 1))
        BY <2>1
      <4>2. CASE i = 1
        <5>1. (m - n) + 1 = k /\ <<v.value>>[1] = v.value
          BY <1>1
        <5>2. G(n)[1] = v.value
          BY <4>2, <5>1
        <5> HIDE DEF W, v, G
        <5>3. W[1] = v.value
          BY <3>4, <4>1, <4>2, <5>1
        <5> QED
          BY <4>2, <5>2, <5>3
      <4>3. CASE i > 1
        <5>1. i - 1 \in 1 .. (n - 1) /\ (m - (n - 1)) + (i - 1) = (m - n) + i /\ ~(i <= 1)
          BY <1>1, <4>3
        <5> HIDE DEF W
        <5> QED
          BY <3>4, <4>1, <5>1
      <4> QED
        BY <4>2, <4>3
    <3> HIDE DEF W, G, V
    <3>6. Len(G(n)) = Len(W)
      BY <2>1, <3>3, <3>4
    <3>7. G(n) = W
      BY <3>3, <3>4, <3>5, <3>6, SeqEqual
    <3> QED
      BY <3>7 DEF W
  <2> DEFINE u == U(n)
             h == G(n - 1)
             x == v.value
  <2>4. s \o u \in Seq(JavaValues) /\ s \o U(n - 1) = Append(s \o u, v)
    <3> HIDE DEF U, v
    <3>1. u \in Seq(JavaValues)
      BY <2>2
    <3> HIDE DEF u
    <3>2. s \o u \in Seq(JavaValues) /\ s \o Append(u, v) = Append(s \o u, v)
      BY <2>1, <3>1, AppendsToConcat
    <3>3. U(n - 1) = Append(u, v)
      BY <2>2 DEF u
    <3> QED
      BY <3>2, <3>3
  <2> HIDE DEF U, G, v
  <2>5. Pop(At(Expanded(Append(s \o u, v)), L, h), v.kind) = At(Expanded(s \o u), L, <<x>> \o h)
    <3> DEFINE w == s \o u
    <3>1. w \in Seq(JavaValues)
      BY <2>4
    <3> HIDE DEF w, h
    <3>2. Pop(At(Expanded(Append(w, v)), L, h), v.kind) = At(Expanded(w), L, <<v.value>> \o h)
      BY <2>1, <3>1, PopsValue
    <3> QED
      BY <3>2 DEF w
  <2>6. ks[m - n + 1] = v.kind
    BY <1>1, <2>1 DEF v
  <2> QED
    BY <2>1, <2>3, <2>4, <2>5, <2>6
<1>4. closed[0] = f
  <2> HIDE DEF U, G
  <2> QED
    BY <1>1, <1>2
<1> HIDE DEF f
<1>5. closed = [n \in 0 .. Len(ks) |-> IF n = 0 THEN f ELSE Pop(closed[n - 1], ks[Len(ks) - n + 1])]
  <2>1. closed = [n \in 0 .. m |-> closed[n]]
    OBVIOUS
  <2>2. \A n \in 0 .. m : n # 0 => n \in 1 .. m
    BY <1>1
  <2>3. \A n \in 0 .. m : closed[n] = IF n = 0 THEN f ELSE Pop(closed[n - 1], ks[m - n + 1])
    <3> HIDE DEF closed, ks, U, G
    <3> QED
      BY <1>3, <1>4, <2>2
  <2> HIDE DEF closed, ks, U, G
  <2> QED
    BY <1>1, <2>1, <2>3
<1> HIDE DEF closed
<1>6. popped = [n \in 0 .. Len(ks) |-> IF n = 0 THEN f ELSE Pop(popped[n - 1], ks[Len(ks) - n + 1])]
  <2> HIDE DEF ks
  <2> QED
    BY <1>5
<1>7. PopAll(f, ks) = popped[Len(ks)]
  BY DEF PopAll
<1> HIDE DEF popped, ks
<1> DEFINE T == {n \in 0 .. m : popped[n] = closed[n]}
<1>8. 0 \in T
  BY <1>1, <1>5, <1>6
<1>9. ASSUME NEW n \in T, n < m
      PROVE  n + 1 \in T
  <2>1. n \in 0 .. m /\ n + 1 \in 0 .. m /\ n + 1 # 0 /\ (n + 1) - 1 = n
    BY <1>1, <1>9
  <2>2. popped[n + 1] = Pop(popped[n], ks[Len(ks) - (n + 1) + 1])
    BY <1>1, <1>6, <2>1
  <2>3. closed[n + 1] = Pop(closed[n], ks[Len(ks) - (n + 1) + 1])
    BY <1>1, <1>5, <2>1
  <2> QED
    BY <2>1, <2>2, <2>3
<1>10. \A n \in 0 .. m : n \in T
  <2> HIDE DEF T
  <2> QED
    BY <1>1, <1>8, <1>9, InductionUpTo
<1>11. popped[m] = closed[m] /\ m \in 0 .. m
  BY <1>1, <1>10
<1>12. closed[m] = At(Expanded(s), L, ValuesOf(t))
  <2>1. U(m) = <<>> /\ G(m) = ValuesOf(t)
    <3>1. m - m = 0 /\ \A i \in 1 .. m : (m - m) + i = i
      BY <1>1
    <3>2. SubSeq(t, 1, 0) = <<>>
      BY SubSeqEmpty
    <3>3. G(m) = [i \in 1 .. m |-> t[i].value]
      BY <3>1
    <3> QED
      BY <3>1, <3>2, <3>3 DEF ValuesOf
  <2>2. s \o <<>> = s
    BY ConcatEmptySeq
  <2> HIDE DEF U, G
  <2> QED
    BY <1>11, <2>1, <2>2 DEF closed
<1> QED
  BY <1>1, <1>7, <1>11, <1>12 DEF f, ks

-----------------------------------------------------------------------------
(* The instructions: what their operands and answers can be.               *)

Numbers == {"Int", "Long", "Float", "Double"}
PushCodes == {"iconst", "bipush", "sipush", "ldc", "ldc_w", "ldc2_w", "lconst", "fconst", "dconst", "aconst_null"}
InvokeCodes == {"invokestatic", "invokespecial", "invokevirtual", "invokeinterface", "invokedynamic"}
HeapCodes == {"getfield", "getstatic", "putfield", "putstatic", "new", "newarray", "anewarray", "multianewarray",
              "arraylength", "xaload", "xastore", "monitorenter", "monitorexit"}
AnsweredCodes == HeapCodes \cup InvokeCodes

\* What an instruction pushes is a value, an index is that of a local.
ValuesEncoded(op) ==
    /\ op.code \in {"iconst", "bipush", "sipush"} => Slot("Int", op.value) \in JavaValues
    /\ op.code \in {"ldc", "ldc_w"} /\ op.constant \in {"Int", "Float", "Ref"} => Slot(op.constant, op.value) \in JavaValues
    /\ op.code = "ldc2_w" => op.constant \in {"Long", "Double"} /\ Slot(op.constant, op.value) \in JavaValues
    /\ op.code = "lconst" => Slot("Long", op.value) \in JavaValues
    /\ op.code = "fconst" => Slot("Float", op.value) \in JavaValues
    /\ op.code = "dconst" => Slot("Double", op.value) \in JavaValues
    /\ op.code = "instanceof" => op.value \in {0, 1}
    /\ op.code \in {"load", "load_n", "store", "store_n", "iinc"} => op.index \in Locals
    /\ op.code = "iinc" => op.delta \in {-1, 1}

\* The types, and what is known of them.
TypesEncoded(op) ==
    /\ op.code \in {"load", "load_n", "store", "store_n", "putfield", "putstatic", "xastore", "xreturn"} => op.type \in Five
    /\ op.code \in {"add", "sub", "mul", "div", "rem", "neg"} => op.type \in Numbers
    /\ op.code \in {"and", "or", "xor", "shl", "shr", "ushr"} => op.type \in {"Int", "Long"}
    /\ op.code = "cmp" => op.type = "Long"
    /\ op.code \in {"cmpl", "cmpg"} => op.type \in {"Float", "Double"}
    /\ op.code = "convert" => <<op.type, op.to>> \in Casts
    /\ op.code = "return" => op.type = "Void"
    /\ op.code = "multianewarray" => op.dims \in {1, 2}
    /\ op.code \in InvokeCodes => op.params \in Seq(Five)

\* The branches, and the words of the switches.
BranchesEncoded(op) ==
    /\ op.code \in {"if", "if_icmp"} => op.condition \in {"eq", "ne", "lt", "ge", "gt", "le"}
    /\ op.code \in {"ifnull", "if_acmp"} => op.condition \in {"eq", "ne"}
    /\ op.offset \in {0, 2}
    /\ op.code \in {"tableswitch", "lookupswitch"} =>
          /\ op.default = 1 /\ op.cases = [v \in {-1, 0} |-> v + 3]
          /\ op.words = IF op.code = "tableswitch" THEN <<1, -1, 0, 2, 3>> ELSE <<1, 2, -1, 2, 0, 3>>
          /\ op.tableAt = CHOOSE a \in (pc + 1) .. (pc + 4) : a % 4 = 0

\* The answers of the rest of the machine.
AnswersEncoded(op) ==
    /\ op.handler = 0 /\ op.caught \in BOOLEAN
    /\ op.code \notin AnsweredCodes \cup {"checkcast"} => ~op.throws
    /\ op.code \notin AnsweredCodes => op.result = "Void"
    /\ op.result # "Void" => Slot(op.result, op.value) \in JavaValues

Encoded(op) == ValuesEncoded(op) /\ TypesEncoded(op) /\ BranchesEncoded(op) /\ AnswersEncoded(op)

LEMMA SmallValues ==
  ASSUME NEW k \in Five, NEW v \in {0, 1}
  PROVE  Slot(k, v) \in JavaValues /\ (k # "Ref" => v \in Values(k))
<1>1. CASE k = "Int"
  <2>1. IntBits \in Nat \ {0} /\ IntBits - 2 \in Nat /\ IntBits - 1 = (IntBits - 2) + 1
    BY WidthsAssumption
  <2>2. 2 ^ (IntBits - 1) = 2 * 2 ^ (IntBits - 2) /\ 2 ^ (IntBits - 2) \in Nat \ {0}
    BY <2>1, PowerDoubles, PowerIsNatural
  <2> DEFINE h == 2 ^ (IntBits - 2)
  <2>3. h \in Nat \ {0} /\ 2 ^ (IntBits - 1) = 2 * h
    BY <2>2
  <2> HIDE DEF h
  <2>4. v \in Range2(IntBits)
    BY <2>3 DEF Range2
  <2> QED
    BY <1>1, <2>4, ValueIs DEF Values
<1>2. CASE k = "Long"
  <2>1. LongBits \in Nat \ {0} /\ LongBits - 2 \in Nat /\ LongBits - 1 = (LongBits - 2) + 1
    BY WidthsAssumption
  <2>2. 2 ^ (LongBits - 1) = 2 * 2 ^ (LongBits - 2) /\ 2 ^ (LongBits - 2) \in Nat \ {0}
    BY <2>1, PowerDoubles, PowerIsNatural
  <2> DEFINE h == 2 ^ (LongBits - 2)
  <2>3. h \in Nat \ {0} /\ 2 ^ (LongBits - 1) = 2 * h
    BY <2>2
  <2> HIDE DEF h
  <2>4. v \in Range2(LongBits)
    BY <2>3 DEF Range2
  <2> QED
    BY <1>2, <2>4, ValueIs DEF Values
<1>3. CASE k = "Float"
  <2>1. v \in -FloatTop .. NaN(FloatTop)
    BY FormatsAssumption DEF NaN
  <2> QED
    BY <1>3, <2>1, ValueIs DEF Values
<1>4. CASE k = "Double"
  <2>1. v \in -DoubleTop .. NaN(DoubleTop)
    BY FormatsAssumption DEF NaN
  <2> QED
    BY <1>4, <2>1, ValueIs DEF Values
<1>5. CASE k = "Ref"
  BY <1>5, ValueIs DEF References
<1> QED
  BY <1>1, <1>2, <1>3, <1>4, <1>5 DEF Five

LEMMA ConstantsAreValues ==
  ASSUME NEW m, NEW k \in Five, NEW v \in Constants(k, m)
  PROVE  Slot(k, v) \in JavaValues
<1>1. v \in {0, 1} \/ v \in Values(k)
  BY DEF Constants
<1>2. k = "Ref" /\ v \in Values(k) => v \in References
  BY DEF Values, References
<1> QED
  BY <1>1, <1>2, SmallValues, ValueIs

Unanswered(op) == op.throws = FALSE /\ op.caught = FALSE /\ op.handler = 0 /\ op.result = "Void"

LEMMA ConstantsEncoded ==
  ASSUME NEW m \in Methods, NEW op \in Constant(m)
  PROVE  Encoded(op)
<1>1. CASE op \in {Pushing(c, v) : c \in {"iconst", "bipush", "sipush"}, v \in Constants("Int", m)}
  <2>1. PICK c \in {"iconst", "bipush", "sipush"}, v \in Constants("Int", m) : op = Pushing(c, v)
    BY <1>1
  <2>2. Slot("Int", v) \in JavaValues
    BY <2>1, ConstantsAreValues DEF Five
  <2>3. Unanswered(op) /\ op.code = c /\ op.value = v /\ op.offset = 0
    BY <2>1 DEF Pushing, Op, Unanswered
  <2> QED
    BY <2>1, <2>3, <2>2 DEF Unanswered, Encoded, ValuesEncoded, TypesEncoded, BranchesEncoded, AnswersEncoded, AnsweredCodes, HeapCodes, InvokeCodes
<1>2. CASE op \in {Loading(c, k, 1) : c \in {"ldc", "ldc_w"}, k \in m.kinds \cap {"Int", "Ref"}}
  <2>1. PICK c \in {"ldc", "ldc_w"}, k \in {"Int", "Ref"} : op = Loading(c, k, 1)
    BY <1>2
  <2>2. Slot(k, 1) \in JavaValues
    BY <2>1, SmallValues DEF Five
  <2>3. Unanswered(op) /\ op.code = c /\ op.value = 1 /\ op.constant = k /\ op.offset = 0
    BY <2>1 DEF Loading, Op, Unanswered
  <2> QED
    BY <2>1, <2>3, <2>2 DEF Unanswered, Encoded, ValuesEncoded, TypesEncoded, BranchesEncoded, AnswersEncoded, AnsweredCodes, HeapCodes, InvokeCodes
<1>3. CASE op \in {Loading("ldc", "Float", v) : v \in Constants("Float", m)}
  <2>1. PICK v \in Constants("Float", m) : op = Loading("ldc", "Float", v)
    BY <1>3
  <2>2. Slot("Float", v) \in JavaValues
    BY <2>1, ConstantsAreValues DEF Five
  <2>3. Unanswered(op) /\ op.code = "ldc" /\ op.value = v /\ op.constant = "Float" /\ op.offset = 0
    BY <2>1 DEF Loading, Op, Unanswered
  <2> QED
    BY <2>1, <2>3, <2>2 DEF Unanswered, Encoded, ValuesEncoded, TypesEncoded, BranchesEncoded, AnswersEncoded, AnsweredCodes, HeapCodes, InvokeCodes
<1>4. CASE op \in {Loading("ldc2_w", "Long", v) : v \in Constants("Long", m)}
  <2>1. PICK v \in Constants("Long", m) : op = Loading("ldc2_w", "Long", v)
    BY <1>4
  <2>2. Slot("Long", v) \in JavaValues
    BY <2>1, ConstantsAreValues DEF Five
  <2>3. Unanswered(op) /\ op.code = "ldc2_w" /\ op.value = v /\ op.constant = "Long" /\ op.offset = 0
    BY <2>1 DEF Loading, Op, Unanswered
  <2> QED
    BY <2>1, <2>3, <2>2 DEF Unanswered, Encoded, ValuesEncoded, TypesEncoded, BranchesEncoded, AnswersEncoded, AnsweredCodes, HeapCodes, InvokeCodes
<1>5. CASE op \in {Loading("ldc2_w", "Double", v) : v \in Constants("Double", m)}
  <2>1. PICK v \in Constants("Double", m) : op = Loading("ldc2_w", "Double", v)
    BY <1>5
  <2>2. Slot("Double", v) \in JavaValues
    BY <2>1, ConstantsAreValues DEF Five
  <2>3. Unanswered(op) /\ op.code = "ldc2_w" /\ op.value = v /\ op.constant = "Double" /\ op.offset = 0
    BY <2>1 DEF Loading, Op, Unanswered
  <2> QED
    BY <2>1, <2>3, <2>2 DEF Unanswered, Encoded, ValuesEncoded, TypesEncoded, BranchesEncoded, AnswersEncoded, AnsweredCodes, HeapCodes, InvokeCodes
<1>6. CASE op \in {Pushing("lconst", v) : v \in {0, 1}}
  <2>1. PICK v \in {0, 1} : op = Pushing("lconst", v)
    BY <1>6
  <2>2. Slot("Long", v) \in JavaValues
    BY <2>1, SmallValues DEF Five
  <2>3. Unanswered(op) /\ op.code = "lconst" /\ op.value = v /\ op.offset = 0
    BY <2>1 DEF Pushing, Op, Unanswered
  <2> QED
    BY <2>1, <2>3, <2>2 DEF Unanswered, Encoded, ValuesEncoded, TypesEncoded, BranchesEncoded, AnswersEncoded, AnsweredCodes, HeapCodes, InvokeCodes
<1>7. CASE op \in {Pushing("fconst", v) : v \in {0, 1}}
  <2>1. PICK v \in {0, 1} : op = Pushing("fconst", v)
    BY <1>7
  <2>2. Slot("Float", v) \in JavaValues
    BY <2>1, SmallValues DEF Five
  <2>3. Unanswered(op) /\ op.code = "fconst" /\ op.value = v /\ op.offset = 0
    BY <2>1 DEF Pushing, Op, Unanswered
  <2> QED
    BY <2>1, <2>3, <2>2 DEF Unanswered, Encoded, ValuesEncoded, TypesEncoded, BranchesEncoded, AnswersEncoded, AnsweredCodes, HeapCodes, InvokeCodes
<1>8. CASE op \in {Pushing("dconst", v) : v \in {0, 1}}
  <2>1. PICK v \in {0, 1} : op = Pushing("dconst", v)
    BY <1>8
  <2>2. Slot("Double", v) \in JavaValues
    BY <2>1, SmallValues DEF Five
  <2>3. Unanswered(op) /\ op.code = "dconst" /\ op.value = v /\ op.offset = 0
    BY <2>1 DEF Pushing, Op, Unanswered
  <2> QED
    BY <2>1, <2>3, <2>2 DEF Unanswered, Encoded, ValuesEncoded, TypesEncoded, BranchesEncoded, AnswersEncoded, AnsweredCodes, HeapCodes, InvokeCodes
<1>9. CASE op \in {Op("aconst_null")}
  <2>1. op = Op("aconst_null")
    BY <1>9
  <2>3. Unanswered(op) /\ op.code = "aconst_null" /\ op.offset = 0
    BY <2>1 DEF Op, Unanswered
  <2> QED
    BY <2>1, <2>3 DEF Unanswered, Encoded, ValuesEncoded, TypesEncoded, BranchesEncoded, AnswersEncoded, AnsweredCodes, HeapCodes, InvokeCodes
<1>10. CASE op \in {Loading("ldc", "MethodType", 0)}
  <2>1. op = Loading("ldc", "MethodType", 0)
    BY <1>10
  <2>3. Unanswered(op) /\ op.code = "ldc" /\ op.constant = "MethodType" /\ op.offset = 0
    BY <2>1 DEF Loading, Op, Unanswered
  <2> QED
    BY <2>1, <2>3 DEF Unanswered, Encoded, ValuesEncoded, TypesEncoded, BranchesEncoded, AnswersEncoded, AnsweredCodes, HeapCodes, InvokeCodes
<1> QED
  BY <1>1, <1>2, <1>3, <1>4, <1>5, <1>6, <1>7, <1>8, <1>9, <1>10 DEF Constant, IfMet

LEMMA LocalOpsEncoded ==
  ASSUME NEW m \in Methods, NEW op \in LocalOps(m.kinds, m.locals)
  PROVE  Encoded(op)
<1>1. CASE op \in {Indexed(c, k, i) : c \in {"load", "load_n", "store", "store_n"}, k \in m.kinds, i \in 0 .. (m.locals - 1)}
  <2>1. PICK c \in {"load", "load_n", "store", "store_n"}, k \in m.kinds, i \in 0 .. (m.locals - 1) : op = Indexed(c, k, i)
    BY <1>1
  <2>2. k \in Five /\ i \in Locals
    BY <2>1, MethodsAssumption, FramesAssumption DEF Five, Locals
  <2>3. Unanswered(op) /\ op.code = c /\ op.type = k /\ op.index = i /\ op.offset = 0
    BY <2>1 DEF Indexed, Op, Unanswered
  <2> QED
    BY <2>1, <2>3, <2>2 DEF Unanswered, Encoded, ValuesEncoded, TypesEncoded, BranchesEncoded, AnswersEncoded, AnsweredCodes, HeapCodes, InvokeCodes
<1> QED
  BY <1>1 DEF LocalOps, IfMet

LEMMA ArithmeticOpsEncoded ==
  ASSUME NEW m \in Methods, NEW op \in ArithmeticOps(m.kinds, m.locals)
  PROVE  Encoded(op)
<1>1. CASE op \in {Adding(i, d) : i \in 0 .. (m.locals - 1), d \in {-1, 1}}
  <2>1. PICK i \in 0 .. (m.locals - 1), d \in {-1, 1} : op = Adding(i, d)
    BY <1>1
  <2>2. i \in Locals
    BY <2>1, MethodsAssumption, FramesAssumption DEF Locals
  <2>3. Unanswered(op) /\ op.code = "iinc" /\ op.index = i /\ op.delta = d /\ op.offset = 0
    BY <2>1 DEF Adding, Op, Unanswered
  <2> QED
    BY <2>1, <2>3, <2>2 DEF Unanswered, Encoded, ValuesEncoded, TypesEncoded, BranchesEncoded, AnswersEncoded, AnsweredCodes, HeapCodes, InvokeCodes
<1>2. CASE op \in {Typed(c, k) : c \in {"add", "sub", "mul", "div", "rem", "neg"}, k \in m.kinds \ {"Ref"}}
  <2>1. PICK c \in {"add", "sub", "mul", "div", "rem", "neg"}, k \in m.kinds \ {"Ref"} : op = Typed(c, k)
    BY <1>2
  <2>2. k \in Numbers
    BY <2>1, MethodsAssumption DEF Numbers
  <2>3. Unanswered(op) /\ op.code = c /\ op.type = k /\ op.offset = 0
    BY <2>1 DEF Typed, Op, Unanswered
  <2> QED
    BY <2>1, <2>3, <2>2 DEF Numbers, Unanswered, Encoded, ValuesEncoded, TypesEncoded, BranchesEncoded, AnswersEncoded, AnsweredCodes, HeapCodes, InvokeCodes
<1>3. CASE op \in {Guarded(c, k) : c \in {"div", "rem"}, k \in {"Int", "Long"} \cap m.kinds}
  <2>1. PICK c \in {"div", "rem"}, k \in {"Int", "Long"} : op = Guarded(c, k)
    BY <1>3
  <2>3. op.throws = FALSE /\ op.caught = TRUE /\ op.handler = 0 /\ op.result = "Void" /\ op.code = c /\ op.type = k /\ op.offset = 0
    BY <2>1 DEF Guarded, Op, Unanswered
  <2> QED
    BY <2>1, <2>3 DEF Numbers, Unanswered, Encoded, ValuesEncoded, TypesEncoded, BranchesEncoded, AnswersEncoded, AnsweredCodes, HeapCodes, InvokeCodes
<1>4. CASE op \in {Typed(c, k) : c \in {"and", "or", "xor"}, k \in m.kinds \cap {"Int", "Long"}}
  <2>1. PICK c \in {"and", "or", "xor"}, k \in m.kinds \cap {"Int", "Long"} : op = Typed(c, k)
    BY <1>4
  <2>2. k \in {"Int", "Long"}
    BY <2>1, MethodsAssumption DEF Numbers
  <2>3. Unanswered(op) /\ op.code = c /\ op.type = k /\ op.offset = 0
    BY <2>1 DEF Typed, Op, Unanswered
  <2> QED
    BY <2>1, <2>3, <2>2 DEF Numbers, Unanswered, Encoded, ValuesEncoded, TypesEncoded, BranchesEncoded, AnswersEncoded, AnsweredCodes, HeapCodes, InvokeCodes
<1>5. CASE op \in {Typed(c, k) : c \in {"shl", "shr", "ushr"}, k \in m.kinds \cap {"Int", "Long"}}
  <2>1. PICK c \in {"shl", "shr", "ushr"}, k \in m.kinds \cap {"Int", "Long"} : op = Typed(c, k)
    BY <1>5
  <2>2. k \in {"Int", "Long"}
    BY <2>1, MethodsAssumption DEF Numbers
  <2>3. Unanswered(op) /\ op.code = c /\ op.type = k /\ op.offset = 0
    BY <2>1 DEF Typed, Op, Unanswered
  <2> QED
    BY <2>1, <2>3, <2>2 DEF Numbers, Unanswered, Encoded, ValuesEncoded, TypesEncoded, BranchesEncoded, AnswersEncoded, AnsweredCodes, HeapCodes, InvokeCodes
<1>6. CASE op \in {Typed("cmp", k) : k \in m.kinds \cap {"Long"}}
  <2>1. op = Typed("cmp", "Long")
    BY <1>6
  <2>3. Unanswered(op) /\ op.code = "cmp" /\ op.type = "Long" /\ op.offset = 0
    BY <2>1 DEF Typed, Op, Unanswered
  <2> QED
    BY <2>1, <2>3 DEF Unanswered, Encoded, ValuesEncoded, TypesEncoded, BranchesEncoded, AnswersEncoded, AnsweredCodes, HeapCodes, InvokeCodes
<1>7. CASE op \in {Typed(c, k) : c \in {"cmpl", "cmpg"}, k \in m.kinds \cap {"Float", "Double"}}
  <2>1. PICK c \in {"cmpl", "cmpg"}, k \in m.kinds \cap {"Float", "Double"} : op = Typed(c, k)
    BY <1>7
  <2>2. k \in {"Float", "Double"}
    BY <2>1, MethodsAssumption DEF Numbers
  <2>3. Unanswered(op) /\ op.code = c /\ op.type = k /\ op.offset = 0
    BY <2>1 DEF Typed, Op, Unanswered
  <2> QED
    BY <2>1, <2>3, <2>2 DEF Numbers, Unanswered, Encoded, ValuesEncoded, TypesEncoded, BranchesEncoded, AnswersEncoded, AnsweredCodes, HeapCodes, InvokeCodes
<1>8. CASE op \in {Casting("Int", t) : t \in {"Byte", "Char", "Short"}}
  <2>1. PICK t \in {"Byte", "Char", "Short"} : op = Casting("Int", t)
    BY <1>8
  <2>2. <<"Int", t>> \in Casts
    BY <2>1, Zenon DEF Casts
  <2>3. Unanswered(op) /\ op.code = "convert" /\ op.type = "Int" /\ op.to = t /\ op.offset = 0
    BY <2>1 DEF Casting, Op, Unanswered
  <2> QED
    BY <2>1, <2>3, <2>2 DEF Unanswered, Encoded, ValuesEncoded, TypesEncoded, BranchesEncoded, AnswersEncoded, AnsweredCodes, HeapCodes, InvokeCodes
<1>9. CASE op \in {Casting(pair[1], pair[2]) : pair \in {p \in (m.kinds \ {"Ref"}) \X (m.kinds \ {"Ref"}) : p[1] # p[2]}}
  <2>1. PICK pair \in {p \in (m.kinds \ {"Ref"}) \X (m.kinds \ {"Ref"}) : p[1] # p[2]} : op = Casting(pair[1], pair[2])
    BY <1>9
  <2>2. <<pair[1], pair[2]>> \in Casts
    BY <2>1, MethodsAssumption DEF Casts
  <2>3. Unanswered(op) /\ op.code = "convert" /\ op.type = pair[1] /\ op.to = pair[2] /\ op.offset = 0
    BY <2>1 DEF Casting, Op, Unanswered
  <2> QED
    BY <2>1, <2>3, <2>2 DEF Unanswered, Encoded, ValuesEncoded, TypesEncoded, BranchesEncoded, AnswersEncoded, AnsweredCodes, HeapCodes, InvokeCodes
<1> QED
  BY <1>1, <1>2, <1>3, <1>4, <1>5, <1>6, <1>7, <1>8, <1>9 DEF ArithmeticOps, IfMet

LEMMA BranchOpsEncoded ==
  ASSUME NEW m \in Methods, NEW op \in BranchOps(m.kinds, pc)
  PROVE  Encoded(op)
<1>1. CASE op \in {Jumping(c, "eq") : c \in {"goto", "goto_w"}}
  <2>1. PICK c \in {"goto", "goto_w"} : op = Jumping(c, "eq")
    BY <1>1
  <2>3. Unanswered(op) /\ op.code = c /\ op.offset = 2
    BY <2>1 DEF Jumping, Op, Unanswered
  <2> QED
    BY <2>1, <2>3 DEF Unanswered, Encoded, ValuesEncoded, TypesEncoded, BranchesEncoded, AnswersEncoded, AnsweredCodes, HeapCodes, InvokeCodes
<1>2. CASE op \in {Jumping(c, x) : c \in {"if", "if_icmp"}, x \in {"eq", "ne", "lt", "ge", "gt", "le"}}
  <2>1. PICK c \in {"if", "if_icmp"}, x \in {"eq", "ne", "lt", "ge", "gt", "le"} : op = Jumping(c, x)
    BY <1>2
  <2>3. Unanswered(op) /\ op.code = c /\ op.condition = x /\ op.offset = 2
    BY <2>1 DEF Jumping, Op, Unanswered
  <2> QED
    BY <2>1, <2>3 DEF Unanswered, Encoded, ValuesEncoded, TypesEncoded, BranchesEncoded, AnswersEncoded, AnsweredCodes, HeapCodes, InvokeCodes
<1>3. CASE op \in {Switch(c, pc) : c \in {"tableswitch", "lookupswitch"}}
  <2>1. PICK c \in {"tableswitch", "lookupswitch"} : op = Switch(c, pc)
    BY <1>3
  <2>3. Unanswered(op) /\ op.code = c /\ op.offset = 0 /\ op.default = 1 /\ op.cases = [v \in {-1, 0} |-> v + 3]
        /\ op.words = (IF c = "tableswitch" THEN <<1, -1, 0, 2, 3>> ELSE <<1, 2, -1, 2, 0, 3>>)
        /\ op.tableAt = CHOOSE a \in (pc + 1) .. (pc + 4) : a % 4 = 0
    BY <2>1 DEF Switch, Op, Unanswered
  <2> QED
    BY <2>1, <2>3 DEF Unanswered, Encoded, ValuesEncoded, TypesEncoded, BranchesEncoded, AnswersEncoded, AnsweredCodes, HeapCodes, InvokeCodes
<1>4. CASE op \in {Jumping(c, x) : c \in {"ifnull", "if_acmp"}, x \in {"eq", "ne"}}
  <2>1. PICK c \in {"ifnull", "if_acmp"}, x \in {"eq", "ne"} : op = Jumping(c, x)
    BY <1>4
  <2>3. Unanswered(op) /\ op.code = c /\ op.condition = x /\ op.offset = 2
    BY <2>1 DEF Jumping, Op, Unanswered
  <2> QED
    BY <2>1, <2>3 DEF Unanswered, Encoded, ValuesEncoded, TypesEncoded, BranchesEncoded, AnswersEncoded, AnsweredCodes, HeapCodes, InvokeCodes
<1> QED
  BY <1>1, <1>2, <1>3, <1>4 DEF BranchOps, IfMet

LEMMA EndsEncoded ==
  ASSUME NEW m \in Methods, NEW op \in Ends(m.kinds)
  PROVE  Encoded(op)
<1>1. CASE op \in {Typed("xreturn", k) : k \in m.kinds}
  <2>1. PICK k \in m.kinds : op = Typed("xreturn", k)
    BY <1>1
  <2>2. k \in Five
    BY <2>1, MethodsAssumption DEF Five
  <2>3. Unanswered(op) /\ op.code = "xreturn" /\ op.type = k /\ op.offset = 0
    BY <2>1 DEF Typed, Op, Unanswered
  <2> QED
    BY <2>1, <2>3, <2>2 DEF Unanswered, Encoded, ValuesEncoded, TypesEncoded, BranchesEncoded, AnswersEncoded, AnsweredCodes, HeapCodes, InvokeCodes
<1>2. CASE op \in {Op("return")}
  <2>1. op = Op("return")
    BY <1>2
  <2>3. Unanswered(op) /\ op.code = "return" /\ op.type = "Void" /\ op.offset = 0
    BY <2>1 DEF Op, Unanswered
  <2> QED
    BY <2>1, <2>3 DEF Unanswered, Encoded, ValuesEncoded, TypesEncoded, BranchesEncoded, AnswersEncoded, AnsweredCodes, HeapCodes, InvokeCodes
<1>3. CASE op \in {Op(c) : c \in {"wide", "jsr", "jsr_w", "ret", "breakpoint"}}
  <2>1. PICK c \in {"wide", "jsr", "jsr_w", "ret", "breakpoint"} : op = Op(c)
    BY <1>3
  <2>3. Unanswered(op) /\ op.code = c /\ op.offset = 0
    BY <2>1 DEF Op, Unanswered
  <2> QED
    BY <2>1, <2>3 DEF Unanswered, Encoded, ValuesEncoded, TypesEncoded, BranchesEncoded, AnswersEncoded, AnsweredCodes, HeapCodes, InvokeCodes
<1> QED
  BY <1>1, <1>2, <1>3 DEF Ends, IfMet

LEMMA StackOpsEncoded ==
  ASSUME NEW op \in {Op(c) : c \in Java!StackCodes}
  PROVE  Encoded(op)
<1>1. PICK c \in Java!StackCodes : op = Op(c)
  OBVIOUS
<1>2. Unanswered(op) /\ op.code = c /\ op.offset = 0
  BY <1>1 DEF Op, Unanswered
<1> QED
  BY <1>1, <1>2 DEF Java!StackCodes, Unanswered, Encoded, ValuesEncoded, TypesEncoded, BranchesEncoded, AnswersEncoded, AnsweredCodes, HeapCodes, InvokeCodes

\* An instruction and its answer.
Fields == {"code", "type", "to", "index", "value", "constant", "delta", "condition", "offset", "handler", "caught",
           "throws", "result", "params", "dims", "default", "cases", "words", "garbage", "tableAt"}
Answer(op, o) ==
    /\ op.code = o.code /\ op.type = o.type /\ op.params = o.params /\ op.dims = o.dims
    /\ op.offset = o.offset /\ op.handler = o.handler
    /\ op.caught \in BOOLEAN /\ op.throws \in BOOLEAN
    /\ op.result # "Void" => Slot(op.result, op.value) \in JavaValues

LEMMA FieldsOfOp ==
  ASSUME NEW c
  PROVE  DOMAIN Op(c) = Fields
BY DEF Op, Fields

LEMMA AnswersAre ==
  ASSUME NEW o, NEW kinds, kinds \subseteq Five \cup {"Void"}, DOMAIN o = Fields, o.result = "Void", o.throws = FALSE,
         NEW op \in Answers(o, kinds)
  PROVE  Answer(op, o)
<1>1. CASE op \in {Thrown(o, c) : c \in BOOLEAN}
  <2>1. PICK c \in BOOLEAN : op = Thrown(o, c)
    BY <1>1
  <2> QED
    BY <2>1 DEF Thrown, Fields, Answer
<1>2. CASE op \in {Returned(o, r) : r \in kinds}
  <2>1. PICK r \in Five \cup {"Void"} : op = Returned(o, r)
    BY <1>2
  <2>2. r # "Void" => Slot(r, 1) \in JavaValues
    BY SmallValues
  <2> QED
    BY <2>1, <2>2 DEF Returned, Fields, Answer
<1> QED
  BY <1>1, <1>2 DEF Answers

\* What an answer is given to.
Asked(o) ==
    /\ DOMAIN o = Fields /\ o.result = "Void" /\ o.throws = FALSE /\ o.handler = 0 /\ o.offset = 0
    /\ o.code \in AnsweredCodes
    /\ o.code \in {"putfield", "putstatic", "xastore"} => o.type \in Five
    /\ o.code = "multianewarray" => o.dims \in {1, 2}
    /\ o.code \in InvokeCodes => o.params \in Seq(Five)

LEMMA AnsweredEncoded ==
  ASSUME NEW o, Asked(o), NEW kinds, kinds \subseteq Five \cup {"Void"}, NEW op \in Answers(o, kinds)
  PROVE  Encoded(op)
<1>1. Answer(op, o)
  BY AnswersAre DEF Asked
<1> QED
  BY <1>1 DEF Asked, Answer, Encoded, ValuesEncoded, TypesEncoded, BranchesEncoded, AnswersEncoded, AnsweredCodes, HeapCodes, InvokeCodes

LEMMA OpsAsked ==
  ASSUME NEW c \in HeapCodes \ {"putfield", "putstatic", "xastore", "multianewarray"}
  PROVE  Asked(Op(c))
<1>1. DOMAIN Op(c) = Fields
  BY FieldsOfOp
<1>2. Unanswered(Op(c)) /\ Op(c).code = c /\ Op(c).offset = 0
  BY DEF Op, Unanswered
<1> QED
  BY <1>1, <1>2 DEF Asked, Unanswered, AnsweredCodes, HeapCodes, InvokeCodes

LEMMA TypedAsked ==
  ASSUME NEW c \in {"putfield", "putstatic", "xastore"}, NEW k \in Five
  PROVE  Asked(Typed(c, k))
<1>1. DOMAIN Typed(c, k) = Fields
  BY FieldsOfOp DEF Typed
<1>2. Unanswered(Typed(c, k)) /\ Typed(c, k).code = c /\ Typed(c, k).type = k /\ Typed(c, k).offset = 0
  BY DEF Typed, Op, Unanswered
<1> QED
  BY <1>1, <1>2 DEF Asked, Unanswered, AnsweredCodes, HeapCodes, InvokeCodes

LEMMA CallsAsked ==
  ASSUME NEW m \in Methods, NEW o \in Calls(m.kinds)
  PROVE  Asked(o)
<1>1. m.kinds \subseteq Five
  BY MethodsAssumption DEF Five
<1>2. PICK c \in InvokeCodes, ps \in {<<k>> : k \in m.kinds} \cup {<<k, l>> : k \in m.kinds \ {"Ref"}, l \in m.kinds \ {"Ref"}} :
        o = Taking(c, ps)
  BY DEF Calls, InvokeCodes
<1>3. ps \in Seq(Five)
  <2>1. CASE ps \in {<<k>> : k \in m.kinds}
    <3>1. PICK k \in Five : ps = <<k>>
      BY <1>1, <2>1
    <3> QED
      BY <3>1
  <2>2. CASE ps \in {<<k, l>> : k \in m.kinds \ {"Ref"}, l \in m.kinds \ {"Ref"}}
    BY <1>1, <2>2
  <2> QED
    BY <2>1, <2>2
<1>4. DOMAIN o = Fields
  BY <1>2, FieldsOfOp DEF Taking
<1>5. Unanswered(o) /\ o.code = c /\ o.params = ps /\ o.offset = 0
  BY <1>2 DEF Taking, Op, Unanswered
<1> QED
  BY <1>3, <1>4, <1>5 DEF Asked, Unanswered, AnsweredCodes, HeapCodes, InvokeCodes

LEMMA DimensionsAsked ==
  ASSUME NEW o \in Nested
  PROVE  Asked(o)
<1>1. PICK d \in {1, 2} : o = [Op("multianewarray") EXCEPT !.dims = d]
  BY DEF Nested
<1>2. DOMAIN o = Fields
  BY <1>1, FieldsOfOp
<1>3. Unanswered(o) /\ o.code = "multianewarray" /\ o.dims = d /\ o.offset = 0
  BY <1>1 DEF Op, Unanswered
<1> QED
  BY <1>2, <1>3 DEF Asked, Unanswered, AnsweredCodes, HeapCodes, InvokeCodes

LEMMA ObjectOpsEncoded ==
  ASSUME NEW m \in Methods, NEW op \in ObjectOps(m.kinds)
  PROVE  Encoded(op)
<1>1. m.kinds \subseteq Five
  BY MethodsAssumption DEF Five
<1> DEFINE k == m.kinds
           Tests == {Pushing("instanceof", v) : v \in {0, 1}}
<1>2. op \in WithAnswers(Reads(k), k) \cup WithAnswers(News(k), {"Ref"}) \cup WithAnswers(Lengths(k), {"Int"})
             \cup WithAnswers(Stores(k), {"Void"}) \cup WithAnswers(Calls(k), k \cup {"Void"}) \cup Tests \cup Checks \cup Throwers
  BY DEF ObjectOps, IfMet
<1>3. \A o \in Reads(k) : Asked(o)
  BY OpsAsked DEF Reads, IfMet, HeapCodes
<1>4. \A o \in News(k) : Asked(o)
  <2>1. \A o \in Nested : Asked(o)
    BY DimensionsAsked
  <2> QED
    BY <2>1, OpsAsked DEF News, IfMet, HeapCodes
<1>5. \A o \in Lengths(k) : Asked(o)
  BY OpsAsked DEF Lengths, IfMet, HeapCodes
<1>6. \A o \in Stores(k) : Asked(o)
  BY <1>1, OpsAsked, TypedAsked DEF Stores, IfMet, HeapCodes
<1>7. \A o \in Calls(m.kinds) : Asked(o)
  BY CallsAsked
<1>8. CASE op \in Checks
  <2>1. PICK t \in BOOLEAN : op = [Op("checkcast") EXCEPT !.throws = t, !.caught = TRUE]
    BY <1>8 DEF Checks
  <2>2. op.code = "checkcast" /\ op.caught = TRUE /\ op.handler = 0 /\ op.result = "Void" /\ op.offset = 0
    BY <2>1 DEF Op
  <2> QED
    BY <2>2 DEF Encoded, ValuesEncoded, TypesEncoded, BranchesEncoded, AnswersEncoded, AnsweredCodes, HeapCodes, InvokeCodes
<1>9. CASE op \in Tests
  <2>1. PICK v \in {0, 1} : op = Pushing("instanceof", v)
    BY <1>9 DEF Tests
  <2>2. Unanswered(op) /\ op.code = "instanceof" /\ op.value = v /\ op.offset = 0
    BY <2>1 DEF Pushing, Op, Unanswered
  <2> QED
    BY <2>1, <2>2 DEF Unanswered, Encoded, ValuesEncoded, TypesEncoded, BranchesEncoded, AnswersEncoded, AnsweredCodes, HeapCodes, InvokeCodes
<1>10. CASE op \in Throwers
  <2>1. PICK c \in BOOLEAN : op = [Op("athrow") EXCEPT !.caught = c]
    BY <1>10 DEF Throwers
  <2>2. op.code = "athrow" /\ op.caught \in BOOLEAN /\ op.throws = FALSE /\ op.handler = 0 /\ op.result = "Void" /\ op.offset = 0
    BY <2>1 DEF Op
  <2> QED
    BY <2>2 DEF Encoded, ValuesEncoded, TypesEncoded, BranchesEncoded, AnswersEncoded, AnsweredCodes, HeapCodes, InvokeCodes
<1> HIDE DEF Tests
<1>11. CASE op \in WithAnswers(Reads(k), m.kinds)
  BY <1>1, <1>3, <1>11, AnsweredEncoded DEF WithAnswers
<1>12. CASE op \in WithAnswers(News(k), {"Ref"})
  BY <1>4, <1>12, AnsweredEncoded DEF Five, WithAnswers
<1>13. CASE op \in WithAnswers(Lengths(k), {"Int"})
  BY <1>5, <1>13, AnsweredEncoded DEF Five, WithAnswers
<1>14. CASE op \in WithAnswers(Stores(k), {"Void"})
  BY <1>6, <1>14, AnsweredEncoded DEF Five, WithAnswers
<1>15. CASE op \in WithAnswers(Calls(m.kinds), m.kinds \cup {"Void"})
  BY <1>1, <1>7, <1>15, AnsweredEncoded DEF Five, WithAnswers
<1> QED
  BY <1>2, <1>8, <1>9, <1>10, <1>11, <1>12, <1>13, <1>14, <1>15

LEMMA InstructionsEncoded ==
  ASSUME method \in Methods, pc \in 0 .. 3, NEW op \in Instructions[<<method, pc>>]
  PROVE  Encoded(op)
<1> DEFINE m == method
<1>1. op \in Constant(m) \cup LocalOps(m.kinds, m.locals)
             \cup (IF m.computes THEN ArithmeticOps(m.kinds, m.locals)
                   ELSE {Op(c) : c \in IF m.locals = 0 THEN Java!StackCodes ELSE {}})
             \cup BranchOps(m.kinds, pc) \cup ObjectOps(m.kinds) \cup Ends(m.kinds)
  BY DEF Instructions, InstructionsOf
<1>2. m \in Methods
  OBVIOUS
<1> HIDE DEF m
<1>3. CASE op \in Constant(m)
  BY <1>2, <1>3, ConstantsEncoded
<1>4. CASE op \in LocalOps(m.kinds, m.locals)
  BY <1>2, <1>4, LocalOpsEncoded
<1>5. CASE op \in ArithmeticOps(m.kinds, m.locals)
  BY <1>2, <1>5, ArithmeticOpsEncoded
<1>6. CASE op \in {Op(c) : c \in Java!StackCodes}
  BY <1>6, StackOpsEncoded
<1>7. CASE op \in BranchOps(m.kinds, pc)
  BY <1>2, <1>7, BranchOpsEncoded
<1>8. CASE op \in ObjectOps(m.kinds)
  BY <1>2, <1>8, ObjectOpsEncoded
<1>9. CASE op \in Ends(m.kinds)
  BY <1>2, <1>9, EndsEncoded
<1>10. op \in (IF m.computes THEN ArithmeticOps(m.kinds, m.locals)
               ELSE {Op(c) : c \in IF m.locals = 0 THEN Java!StackCodes ELSE {}})
       => op \in ArithmeticOps(m.kinds, m.locals) \/ op \in {Op(c) : c \in Java!StackCodes}
  OBVIOUS
<1> QED
  BY <1>1, <1>3, <1>4, <1>5, <1>6, <1>7, <1>8, <1>9, <1>10

-----------------------------------------------------------------------------
(* The bytes of an instruction, as the table of the opcodes counts them.   *)

OneByte == {"nop", "aconst_null", "iconst", "lconst", "fconst", "dconst", "load_n", "xaload",
            "store_n", "xastore", "pop", "pop2", "dup", "dup_x1", "dup_x2", "dup2", "dup2_x1",
            "dup2_x2", "swap", "add", "sub", "mul", "div", "rem", "neg", "shl", "shr", "ushr",
            "and", "or", "xor", "convert", "cmp", "cmpl", "cmpg", "arraylength", "monitorenter",
            "monitorexit"}
TwoBytes == {"bipush", "ldc", "load", "store", "newarray"}
ThreeBytes == {"sipush", "ldc_w", "ldc2_w", "iinc", "if", "if_icmp", "if_acmp", "ifnull",
               "getstatic", "putstatic", "getfield", "putfield", "invokevirtual", "invokespecial",
               "invokestatic", "new", "anewarray", "checkcast", "instanceof"}
FourBytes == {"multianewarray"}
FiveBytes == {"invokeinterface", "invokedynamic"}

LEMMA LengthsCounted ==
  ASSUME NEW c
  PROVE  /\ c \in OneByte => Java!Table!Length(c) = 1
         /\ c \in TwoBytes => Java!Table!Length(c) = 2
         /\ c \in ThreeBytes => Java!Table!Length(c) = 3
         /\ c \in FourBytes => Java!Table!Length(c) = 4
         /\ c \in FiveBytes => Java!Table!Length(c) = 5
<1>1. ASSUME c \in {"nop", "aconst_null", "iconst", "lconst", "fconst", "dconst", "load_n", "xaload"}
      PROVE  Java!Table!Length(c) = 1
  <2>1. Java!Table!ConstantsAndLoads(c) = "None"
    BY <1>1 DEF Java!Table!ConstantsAndLoads
  <2>2. Java!Table!StoresAndStack(c) = ""
    BY <1>1 DEF Java!Table!StoresAndStack
  <2>3. Java!Table!Computations(c) = ""
    BY <1>1 DEF Java!Table!Computations
  <2>4. Java!Table!Branches(c) = ""
    BY <1>1 DEF Java!Table!Branches
  <2>5. Java!Table!Objects(c) = ""
    BY <1>1 DEF Java!Table!Objects
  <2>6. Java!Table!Format(c) = "None"
    BY <2>1, <2>2, <2>3, <2>4, <2>5 DEF Java!Table!Format
  <2> QED
    BY <2>6 DEF Java!Table!Length, Java!Table!LengthOfFormat
<1>2. ASSUME c \in {"bipush", "ldc", "load"}
      PROVE  Java!Table!Length(c) = 2
  <2>1. Java!Table!ConstantsAndLoads(c) = "U1"
    BY <1>2 DEF Java!Table!ConstantsAndLoads
  <2>2. Java!Table!StoresAndStack(c) = ""
    BY <1>2 DEF Java!Table!StoresAndStack
  <2>3. Java!Table!Computations(c) = ""
    BY <1>2 DEF Java!Table!Computations
  <2>4. Java!Table!Branches(c) = ""
    BY <1>2 DEF Java!Table!Branches
  <2>5. Java!Table!Objects(c) = ""
    BY <1>2 DEF Java!Table!Objects
  <2>6. Java!Table!Format(c) = "U1"
    BY <2>1, <2>2, <2>3, <2>4, <2>5 DEF Java!Table!Format
  <2> QED
    BY <2>6 DEF Java!Table!Length, Java!Table!LengthOfFormat
<1>3. ASSUME c \in {"sipush"}
      PROVE  Java!Table!Length(c) = 3
  <2>1. Java!Table!ConstantsAndLoads(c) = "S2"
    BY <1>3 DEF Java!Table!ConstantsAndLoads
  <2>2. Java!Table!StoresAndStack(c) = ""
    BY <1>3 DEF Java!Table!StoresAndStack
  <2>3. Java!Table!Computations(c) = ""
    BY <1>3 DEF Java!Table!Computations
  <2>4. Java!Table!Branches(c) = ""
    BY <1>3 DEF Java!Table!Branches
  <2>5. Java!Table!Objects(c) = ""
    BY <1>3 DEF Java!Table!Objects
  <2>6. Java!Table!Format(c) = "S2"
    BY <2>1, <2>2, <2>3, <2>4, <2>5 DEF Java!Table!Format
  <2> QED
    BY <2>6 DEF Java!Table!Length, Java!Table!LengthOfFormat
<1>4. ASSUME c \in {"ldc_w", "ldc2_w"}
      PROVE  Java!Table!Length(c) = 3
  <2>1. Java!Table!ConstantsAndLoads(c) = "U2"
    BY <1>4 DEF Java!Table!ConstantsAndLoads
  <2>2. Java!Table!StoresAndStack(c) = ""
    BY <1>4 DEF Java!Table!StoresAndStack
  <2>3. Java!Table!Computations(c) = ""
    BY <1>4 DEF Java!Table!Computations
  <2>4. Java!Table!Branches(c) = ""
    BY <1>4 DEF Java!Table!Branches
  <2>5. Java!Table!Objects(c) = ""
    BY <1>4 DEF Java!Table!Objects
  <2>6. Java!Table!Format(c) = "U2"
    BY <2>1, <2>2, <2>3, <2>4, <2>5 DEF Java!Table!Format
  <2> QED
    BY <2>6 DEF Java!Table!Length, Java!Table!LengthOfFormat
<1>5. ASSUME c \in {"store_n", "xastore", "pop", "pop2", "dup", "dup_x1", "dup_x2", "dup2", "dup2_x1", "dup2_x2", "swap"}
      PROVE  Java!Table!Length(c) = 1
  <2>1. Java!Table!ConstantsAndLoads(c) = ""
    BY <1>5 DEF Java!Table!ConstantsAndLoads
  <2>2. Java!Table!StoresAndStack(c) = "None"
    BY <1>5 DEF Java!Table!StoresAndStack
  <2>3. Java!Table!Computations(c) = ""
    BY <1>5 DEF Java!Table!Computations
  <2>4. Java!Table!Branches(c) = ""
    BY <1>5 DEF Java!Table!Branches
  <2>5. Java!Table!Objects(c) = ""
    BY <1>5 DEF Java!Table!Objects
  <2>6. Java!Table!Format(c) = "None"
    BY <2>1, <2>2, <2>3, <2>4, <2>5 DEF Java!Table!Format
  <2> QED
    BY <2>6 DEF Java!Table!Length, Java!Table!LengthOfFormat
<1>6. ASSUME c \in {"store"}
      PROVE  Java!Table!Length(c) = 2
  <2>1. Java!Table!ConstantsAndLoads(c) = ""
    BY <1>6 DEF Java!Table!ConstantsAndLoads
  <2>2. Java!Table!StoresAndStack(c) = "U1"
    BY <1>6 DEF Java!Table!StoresAndStack
  <2>3. Java!Table!Computations(c) = ""
    BY <1>6 DEF Java!Table!Computations
  <2>4. Java!Table!Branches(c) = ""
    BY <1>6 DEF Java!Table!Branches
  <2>5. Java!Table!Objects(c) = ""
    BY <1>6 DEF Java!Table!Objects
  <2>6. Java!Table!Format(c) = "U1"
    BY <2>1, <2>2, <2>3, <2>4, <2>5 DEF Java!Table!Format
  <2> QED
    BY <2>6 DEF Java!Table!Length, Java!Table!LengthOfFormat
<1>7. ASSUME c \in {"add", "sub", "mul", "div", "rem", "neg", "shl", "shr", "ushr", "and", "or", "xor", "convert", "cmp", "cmpl", "cmpg"}
      PROVE  Java!Table!Length(c) = 1
  <2>1. Java!Table!ConstantsAndLoads(c) = ""
    BY <1>7 DEF Java!Table!ConstantsAndLoads
  <2>2. Java!Table!StoresAndStack(c) = ""
    BY <1>7 DEF Java!Table!StoresAndStack
  <2>3. Java!Table!Computations(c) = "None"
    BY <1>7 DEF Java!Table!Computations
  <2>4. Java!Table!Branches(c) = ""
    BY <1>7 DEF Java!Table!Branches
  <2>5. Java!Table!Objects(c) = ""
    BY <1>7 DEF Java!Table!Objects
  <2>6. Java!Table!Format(c) = "None"
    BY <2>1, <2>2, <2>3, <2>4, <2>5 DEF Java!Table!Format
  <2> QED
    BY <2>6 DEF Java!Table!Length, Java!Table!LengthOfFormat
<1>8. ASSUME c \in {"iinc"}
      PROVE  Java!Table!Length(c) = 3
  <2>1. Java!Table!ConstantsAndLoads(c) = ""
    BY <1>8 DEF Java!Table!ConstantsAndLoads
  <2>2. Java!Table!StoresAndStack(c) = ""
    BY <1>8 DEF Java!Table!StoresAndStack
  <2>3. Java!Table!Computations(c) = "Iinc"
    BY <1>8 DEF Java!Table!Computations
  <2>4. Java!Table!Branches(c) = ""
    BY <1>8 DEF Java!Table!Branches
  <2>5. Java!Table!Objects(c) = ""
    BY <1>8 DEF Java!Table!Objects
  <2>6. Java!Table!Format(c) = "Iinc"
    BY <2>1, <2>2, <2>3, <2>4, <2>5 DEF Java!Table!Format
  <2> QED
    BY <2>6 DEF Java!Table!Length, Java!Table!LengthOfFormat
<1>9. ASSUME c \in {"if", "if_icmp", "if_acmp", "ifnull"}
      PROVE  Java!Table!Length(c) = 3
  <2>1. Java!Table!ConstantsAndLoads(c) = ""
    BY <1>9 DEF Java!Table!ConstantsAndLoads
  <2>2. Java!Table!StoresAndStack(c) = ""
    BY <1>9 DEF Java!Table!StoresAndStack
  <2>3. Java!Table!Computations(c) = ""
    BY <1>9 DEF Java!Table!Computations
  <2>4. Java!Table!Branches(c) = "Branch"
    BY <1>9 DEF Java!Table!Branches
  <2>5. Java!Table!Objects(c) = ""
    BY <1>9 DEF Java!Table!Objects
  <2>6. Java!Table!Format(c) = "Branch"
    BY <2>1, <2>2, <2>3, <2>4, <2>5 DEF Java!Table!Format
  <2> QED
    BY <2>6 DEF Java!Table!Length, Java!Table!LengthOfFormat
<1>10. ASSUME c \in {"getstatic", "putstatic", "getfield", "putfield", "invokevirtual", "invokespecial", "invokestatic", "new", "anewarray", "checkcast", "instanceof"}
      PROVE  Java!Table!Length(c) = 3
  <2>1. Java!Table!ConstantsAndLoads(c) = ""
    BY <1>10 DEF Java!Table!ConstantsAndLoads
  <2>2. Java!Table!StoresAndStack(c) = ""
    BY <1>10 DEF Java!Table!StoresAndStack
  <2>3. Java!Table!Computations(c) = ""
    BY <1>10 DEF Java!Table!Computations
  <2>4. Java!Table!Branches(c) = ""
    BY <1>10 DEF Java!Table!Branches
  <2>5. Java!Table!Objects(c) = "U2"
    BY <1>10 DEF Java!Table!Objects
  <2>6. Java!Table!Format(c) = "U2"
    BY <2>1, <2>2, <2>3, <2>4, <2>5 DEF Java!Table!Format
  <2> QED
    BY <2>6 DEF Java!Table!Length, Java!Table!LengthOfFormat
<1>11. ASSUME c \in {"newarray"}
      PROVE  Java!Table!Length(c) = 2
  <2>1. Java!Table!ConstantsAndLoads(c) = ""
    BY <1>11 DEF Java!Table!ConstantsAndLoads
  <2>2. Java!Table!StoresAndStack(c) = ""
    BY <1>11 DEF Java!Table!StoresAndStack
  <2>3. Java!Table!Computations(c) = ""
    BY <1>11 DEF Java!Table!Computations
  <2>4. Java!Table!Branches(c) = ""
    BY <1>11 DEF Java!Table!Branches
  <2>5. Java!Table!Objects(c) = "U1"
    BY <1>11 DEF Java!Table!Objects
  <2>6. Java!Table!Format(c) = "U1"
    BY <2>1, <2>2, <2>3, <2>4, <2>5 DEF Java!Table!Format
  <2> QED
    BY <2>6 DEF Java!Table!Length, Java!Table!LengthOfFormat
<1>12. ASSUME c \in {"multianewarray"}
      PROVE  Java!Table!Length(c) = 4
  <2>1. Java!Table!ConstantsAndLoads(c) = ""
    BY <1>12 DEF Java!Table!ConstantsAndLoads
  <2>2. Java!Table!StoresAndStack(c) = ""
    BY <1>12 DEF Java!Table!StoresAndStack
  <2>3. Java!Table!Computations(c) = ""
    BY <1>12 DEF Java!Table!Computations
  <2>4. Java!Table!Branches(c) = ""
    BY <1>12 DEF Java!Table!Branches
  <2>5. Java!Table!Objects(c) = "Multianewarray"
    BY <1>12 DEF Java!Table!Objects
  <2>6. Java!Table!Format(c) = "Multianewarray"
    BY <2>1, <2>2, <2>3, <2>4, <2>5 DEF Java!Table!Format
  <2> QED
    BY <2>6 DEF Java!Table!Length, Java!Table!LengthOfFormat
<1>13. ASSUME c \in {"invokeinterface"}
      PROVE  Java!Table!Length(c) = 5
  <2>1. Java!Table!ConstantsAndLoads(c) = ""
    BY <1>13 DEF Java!Table!ConstantsAndLoads
  <2>2. Java!Table!StoresAndStack(c) = ""
    BY <1>13 DEF Java!Table!StoresAndStack
  <2>3. Java!Table!Computations(c) = ""
    BY <1>13 DEF Java!Table!Computations
  <2>4. Java!Table!Branches(c) = ""
    BY <1>13 DEF Java!Table!Branches
  <2>5. Java!Table!Objects(c) = "InvokeInterface"
    BY <1>13 DEF Java!Table!Objects
  <2>6. Java!Table!Format(c) = "InvokeInterface"
    BY <2>1, <2>2, <2>3, <2>4, <2>5 DEF Java!Table!Format
  <2> QED
    BY <2>6 DEF Java!Table!Length, Java!Table!LengthOfFormat
<1>14. ASSUME c \in {"invokedynamic"}
      PROVE  Java!Table!Length(c) = 5
  <2>1. Java!Table!ConstantsAndLoads(c) = ""
    BY <1>14 DEF Java!Table!ConstantsAndLoads
  <2>2. Java!Table!StoresAndStack(c) = ""
    BY <1>14 DEF Java!Table!StoresAndStack
  <2>3. Java!Table!Computations(c) = ""
    BY <1>14 DEF Java!Table!Computations
  <2>4. Java!Table!Branches(c) = ""
    BY <1>14 DEF Java!Table!Branches
  <2>5. Java!Table!Objects(c) = "InvokeDynamic"
    BY <1>14 DEF Java!Table!Objects
  <2>6. Java!Table!Format(c) = "InvokeDynamic"
    BY <2>1, <2>2, <2>3, <2>4, <2>5 DEF Java!Table!Format
  <2> QED
    BY <2>6 DEF Java!Table!Length, Java!Table!LengthOfFormat
<1>15. ASSUME c \in {"arraylength", "monitorenter", "monitorexit"}
      PROVE  Java!Table!Length(c) = 1
  <2>1. Java!Table!ConstantsAndLoads(c) = ""
    BY <1>15 DEF Java!Table!ConstantsAndLoads
  <2>2. Java!Table!StoresAndStack(c) = ""
    BY <1>15 DEF Java!Table!StoresAndStack
  <2>3. Java!Table!Computations(c) = ""
    BY <1>15 DEF Java!Table!Computations
  <2>4. Java!Table!Branches(c) = ""
    BY <1>15 DEF Java!Table!Branches
  <2>5. Java!Table!Objects(c) = "None"
    BY <1>15 DEF Java!Table!Objects
  <2>6. Java!Table!Format(c) = "None"
    BY <2>1, <2>2, <2>3, <2>4, <2>5 DEF Java!Table!Format
  <2> QED
    BY <2>6 DEF Java!Table!Length, Java!Table!LengthOfFormat
<1> QED
  BY <1>1, <1>2, <1>3, <1>4, <1>5, <1>6, <1>7, <1>8, <1>9, <1>10, <1>11, <1>12, <1>13, <1>14, <1>15 DEF OneByte, TwoBytes, ThreeBytes, FourBytes, FiveBytes

-----------------------------------------------------------------------------
(* The instructions that move values: a form takes blocks of one or two    *)
(* slots, and the program copies the blocks, whatever values are in them.  *)

LEMMA SlotsCounted ==
  ASSUME NEW A \in Seq(Slots), NEW B \in Seq(Slots)
  PROVE  /\ A \o B \in Seq(Slots) /\ Len(A \o B) = Len(A) + Len(B)
         /\ Len(A) \in Nat /\ Len(B) \in Nat
BY ConcatProperties, LenProperties

LEMMA PopsBlock ==
  ASSUME NEW A \in Seq(Slots), NEW B \in Seq(Slots), NEW n, Len(B) = n, NEW L, NEW g
  PROVE  PopN(At(A \o B, L, g), n) = At(A, L, B)
BY PopsSlots

LEMMA PopsOneSlot ==
  ASSUME NEW A \in Seq(Slots), NEW B \in Seq(Slots), Len(B) = 1, NEW L, NEW g
  PROVE  PopN(At(A \o B, L, g), 1) = At(A, L, B)
<1> DEFINE n == 1
<1>1. Len(B) = n
  OBVIOUS
<1> HIDE DEF n
<1>2. PopN(At(A \o B, L, g), n) = At(A, L, B)
  BY <1>1, PopsBlock
<1> QED
  BY <1>2, Zenon DEF n

LEMMA PopsTwoSlots ==
  ASSUME NEW A \in Seq(Slots), NEW B \in Seq(Slots), Len(B) = 2, NEW L, NEW g
  PROVE  PopN(At(A \o B, L, g), 2) = At(A, L, B)
<1> DEFINE n == 2
<1>1. Len(B) = n
  OBVIOUS
<1> HIDE DEF n
<1>2. PopN(At(A \o B, L, g), n) = At(A, L, B)
  BY <1>1, PopsBlock
<1> QED
  BY <1>2, Zenon DEF n

LEMMA PushesBlock ==
  ASSUME NEW A \in Seq(Slots), NEW B \in Seq(Slots), NEW L, NEW g, Len(A \o B) <= MaxStack
  PROVE  PushN(At(A, L, g), B) = At(A \o B, L, g)
<1>1. ~(Len(A) + Len(B) > MaxStack)
  BY FramesAssumption, SlotsCounted
<1> QED
  BY <1>1, PushesSlots

LEMMA GotBlock ==
  ASSUME NEW s, NEW L, NEW g
  PROVE  At(s, L, g).got = g
BY DEF At

LEMMA DupsBlock ==
  ASSUME NEW A \in Seq(Slots), NEW X \in Seq(Slots), Len(X) = 1, NEW L, NEW g, Len(A \o (X \o X)) <= MaxStack
  PROVE  Dup(At(A \o X, L, g)) = At(A \o (X \o X), L, X)
<1> DEFINE v == PopN(At(A \o X, L, g), 1)
<1>1. v = At(A, L, X)
  BY PopsOneSlot, Zenon
<1>2. A \o X \in Seq(Slots) /\ X \o X \in Seq(Slots)
  BY SlotsCounted
<1>3. (A \o X) \o X = A \o (X \o X)
  BY SlotsAssociate
<1>4. Len(A \o (X \o X)) = Len(A) + Len(X \o X)
  BY <1>2, SlotsCounted
<1>5. Len(X \o X) = Len(X) + Len(X) /\ Len(A \o X) = Len(A) + Len(X) /\ Len(A) \in Nat
  BY SlotsCounted
<1>6. Len(A \o X) <= MaxStack
  BY <1>4, <1>5, FramesAssumption
<1>7. PushN(At(A, L, X), X) = At(A \o X, L, X)
  BY <1>6, PushesBlock
<1>8. PushN(At(A \o X, L, X), X) = At((A \o X) \o X, L, X)
  <2> DEFINE B == A \o X
  <2>1. B \in Seq(Slots) /\ Len(B \o X) <= MaxStack
    BY <1>2, <1>3
  <2> HIDE DEF B
  <2>2. PushN(At(B, L, X), X) = At(B \o X, L, X)
    BY <2>1, PushesBlock
  <2> QED
    BY <2>2 DEF B
<1>9. v.got = X
  BY <1>1, GotBlock
<1>10. Dup(At(A \o X, L, g)) = PushN(PushN(v, v.got), v.got)
  BY Zenon DEF Dup
<1> QED
  BY <1>1, <1>3, <1>7, <1>8, <1>9, <1>10, Zenon

LEMMA HalvesOfBlock ==
  ASSUME NEW S, NEW X \in Seq(S), Len(X) = 2
  PROVE  /\ X = <<X[1]>> \o <<X[2]>> /\ <<X[1]>> \in Seq(S) /\ <<X[2]>> \in Seq(S)
         /\ Len(<<X[1]>>) = 1 /\ Len(<<X[2]>>) = 1
OBVIOUS

LEMMA PopsUpperOne ==
  ASSUME NEW A \in Seq(Slots), NEW Y \in Seq(Slots), NEW X \in Seq(Slots), Len(X) = 1, NEW L, NEW g
  PROVE  PopN(At(A \o (Y \o X), L, g), 1) = At(A \o Y, L, X)
<1>1. \A B \in Seq(Slots) : PopN(At(B \o X, L, g), 1) = At(B, L, X)
  BY PopsOneSlot, Zenon
<1>2. A \o Y \in Seq(Slots)
  BY SlotsCounted, Zenon
<1>3. A \o (Y \o X) = (A \o Y) \o X
  BY SlotsAssociate, Zenon
<1> QED
  BY <1>1, <1>2, <1>3, Zenon

LEMMA PopsUpperTwo ==
  ASSUME NEW A \in Seq(Slots), NEW Y \in Seq(Slots), NEW X \in Seq(Slots), Len(X) = 2, NEW L, NEW g
  PROVE  PopN(At(A \o (Y \o X), L, g), 2) = At(A \o Y, L, X)
<1>1. \A B \in Seq(Slots) : PopN(At(B \o X, L, g), 2) = At(B, L, X)
  BY PopsTwoSlots, Zenon
<1>2. A \o Y \in Seq(Slots)
  BY SlotsCounted, Zenon
<1>3. A \o (Y \o X) = (A \o Y) \o X
  BY SlotsAssociate, Zenon
<1> QED
  BY <1>1, <1>2, <1>3, Zenon

\* The upper block once more below the lower.
LEMMA PushesAround ==
  ASSUME NEW A \in Seq(Slots), NEW Y \in Seq(Slots), NEW X \in Seq(Slots), NEW L, NEW g,
         Len(A \o (X \o (Y \o X))) <= MaxStack
  PROVE  PushN(At(A, L, g), (X \o Y) \o X) = At(A \o (X \o (Y \o X)), L, g)
<1>1. Y \o X \in Seq(Slots) /\ X \o (Y \o X) = (X \o Y) \o X
  BY SlotsCounted, SlotsAssociate
<1>2. X \o (Y \o X) \in Seq(Slots)
  BY <1>1, SlotsCounted
<1> DEFINE B == X \o (Y \o X)
<1>3. PushN(At(A, L, g), B) = At(A \o B, L, g)
  <2>1. B \in Seq(Slots) /\ Len(A \o B) <= MaxStack
    BY <1>2
  <2> HIDE DEF B
  <2> QED
    BY <2>1, PushesBlock
<1> QED
  BY <1>1, <1>3, Zenon

LEMMA DupX1Block ==
  ASSUME NEW A \in Seq(Slots), NEW Y \in Seq(Slots), NEW X \in Seq(Slots), Len(Y) = 1, Len(X) = 1,
         NEW L, NEW g, Len(A \o (X \o (Y \o X))) <= MaxStack
  PROVE  DupX1(At(A \o (Y \o X), L, g)) = At(A \o (X \o (Y \o X)), L, Y)
<1> DEFINE v1 == PopN(At(A \o (Y \o X), L, g), 1)
           v2 == PopN(v1, 1)
<1>1. v1 = At(A \o Y, L, X) /\ v2 = At(A, L, Y)
  <2>1. v1 = At(A \o Y, L, X)
    BY PopsUpperOne
  <2>2. PopN(At(A \o Y, L, X), 1) = At(A, L, Y)
    BY PopsOneSlot, Zenon
  <2> QED
    BY <2>1, <2>2, Zenon
<1>2. v1.got = X /\ v2.got = Y
  BY <1>1, GotBlock
<1>3. DupX1(At(A \o (Y \o X), L, g)) = PushN(v2, v1.got \o v2.got \o v1.got)
  BY Zenon DEF DupX1
<1>4. PushN(At(A, L, Y), (X \o Y) \o X) = At(A \o (X \o (Y \o X)), L, Y)
  BY PushesAround
<1> QED
  BY <1>1, <1>2, <1>3, <1>4, Zenon

LEMMA Dup2X1Block ==
  ASSUME NEW A \in Seq(Slots), NEW Y \in Seq(Slots), NEW X \in Seq(Slots), Len(Y) = 1, Len(X) = 2,
         NEW L, NEW g, Len(A \o (X \o (Y \o X))) <= MaxStack
  PROVE  Dup2X1(At(A \o (Y \o X), L, g)) = At(A \o (X \o (Y \o X)), L, Y)
<1> DEFINE v1 == PopN(At(A \o (Y \o X), L, g), 2)
           v2 == PopN(v1, 1)
<1>1. v1 = At(A \o Y, L, X) /\ v2 = At(A, L, Y)
  <2>1. v1 = At(A \o Y, L, X)
    BY PopsUpperTwo
  <2>2. PopN(At(A \o Y, L, X), 1) = At(A, L, Y)
    BY PopsOneSlot, Zenon
  <2> QED
    BY <2>1, <2>2, Zenon
<1>2. v1.got = X /\ v2.got = Y
  BY <1>1, GotBlock
<1>3. Dup2X1(At(A \o (Y \o X), L, g)) = PushN(v2, v1.got \o v2.got \o v1.got)
  BY Zenon DEF Dup2X1
<1>4. PushN(At(A, L, Y), (X \o Y) \o X) = At(A \o (X \o (Y \o X)), L, Y)
  BY PushesAround
<1> QED
  BY <1>1, <1>2, <1>3, <1>4, Zenon

LEMMA SwapBlock ==
  ASSUME NEW A \in Seq(Slots), NEW Y \in Seq(Slots), NEW X \in Seq(Slots), Len(Y) = 1, Len(X) = 1,
         NEW L, NEW g, Len(A \o (X \o Y)) <= MaxStack
  PROVE  Swap(At(A \o (Y \o X), L, g)) = At(A \o (X \o Y), L, Y \o X)
<1> DEFINE B == Y \o X
           two == PopN(At(A \o B, L, g), 2)
<1>1. B \in Seq(Slots) /\ Len(B) = 2 /\ X \o Y \in Seq(Slots)
  <2>1. Y \o X \in Seq(Slots) /\ Len(Y \o X) = Len(Y) + Len(X)
    BY SlotsCounted
  <2>2. X \o Y \in Seq(Slots)
    BY SlotsCounted
  <2> QED
    BY <2>1, <2>2
<1>2. two = At(A, L, B)
  <2>1. B \in Seq(Slots) /\ Len(B) = 2
    BY <1>1, Zenon
  <2> HIDE DEF B
  <2>2. PopN(At(A \o B, L, g), 2) = At(A, L, B)
    BY <2>1, PopsTwoSlots, Zenon
  <2> QED
    BY <2>2, Zenon
<1>3. two.got = B
  <2>1. At(A, L, B).got = B
    BY DEF At
  <2> QED
    BY <1>2, <2>1, Zenon
<1>4. Reverse(B) = X \o Y
  <2>1. DOMAIN B = 1 .. 2 /\ Len(X \o Y) = 2 /\ DOMAIN (X \o Y) = 1 .. 2
    BY <1>1, SlotsCounted, LenProperties
  <2>2. B[1] = Y[1] /\ B[2] = X[1] /\ (X \o Y)[1] = X[1] /\ (X \o Y)[2] = Y[1]
    BY <2>1, ConcatProperties
  <2>3. Reverse(B) = [i \in 1 .. 2 |-> B[2 - i + 1]]
    <3> HIDE DEF B
    <3> QED
      BY <1>1, Zenon DEF Reverse
  <2>4. X \o Y = [i \in 1 .. 2 |-> (X \o Y)[i]]
    BY <1>1, <2>1, LenProperties
  <2>5. \A i \in 1 .. 2 : B[2 - i + 1] = (X \o Y)[i]
    <3> DEFINE C == X \o Y
    <3>1. B[1] = C[2] /\ B[2] = C[1]
      BY <2>2
    <3> HIDE DEF B, C
    <3>2. \A i \in 1 .. 2 : B[2 - i + 1] = C[i]
      BY <3>1
    <3> QED
      BY <3>2 DEF C
  <2> QED
    BY <2>3, <2>4, <2>5, Zenon
<1>5. Swap(At(A \o B, L, g)) = PushN(two, Reverse(two.got))
  BY Zenon DEF Swap
<1>6. PushN(At(A, L, B), X \o Y) = At(A \o (X \o Y), L, B)
  <2> DEFINE C == X \o Y
  <2>1. C \in Seq(Slots) /\ Len(A \o C) <= MaxStack
    BY <1>1
  <2> HIDE DEF C, B
  <2>2. PushN(At(A, L, B), C) = At(A \o C, L, B)
    BY <2>1, PushesBlock
  <2> QED
    BY <2>2 DEF C
<1> QED
  BY <1>2, <1>3, <1>4, <1>5, <1>6, Zenon

\* Where the program asks whether a block of two slots is one value, it copies the
\* same slots either way.
PopsEitherWay(A, Y, L, g) ==
    \E a, b \in Seq(Slots) : /\ PopN(At(A \o Y, L, g), 2) = At(A, L, Y)
                             /\ PopN(At(A \o Y, L, g), 1) = At(A \o a, L, b)
                             /\ PopN(At(A \o a, L, b), 1) = At(A, L, a)
                             /\ Y = a \o b
                             /\ \A x \in Seq(Slots) : (x \o a) \o b = x \o Y

Regroups(a, b) == \A x \in Seq(Slots) : (x \o a) \o b = x \o (a \o b)

LEMMA HalvesRegroup ==
  ASSUME NEW a \in Seq(Slots), NEW b \in Seq(Slots)
  PROVE  Regroups(a, b)
BY SlotsAssociate DEF Regroups

LEMMA SplitsBlock ==
  ASSUME NEW A \in Seq(Slots), NEW Y \in Seq(Slots), Len(Y) = 2, NEW L, NEW g
  PROVE  PopsEitherWay(A, Y, L, g)
<1>1. PICK a, b \in Seq(Slots) : Y = a \o b /\ Len(a) = 1 /\ Len(b) = 1
  BY HalvesOfBlock, Zenon
<1>2. PopN(At(A \o (a \o b), L, g), 1) = At(A \o a, L, b)
  BY <1>1, PopsUpperOne
<1>3. PopN(At(A \o a, L, b), 1) = At(A, L, a)
  BY <1>1, PopsOneSlot, Zenon
<1>4. PopN(At(A \o Y, L, g), 2) = At(A, L, Y)
  BY PopsTwoSlots, Zenon
<1>5. \A x \in Seq(Slots) : (x \o a) \o b = x \o Y
  <2>1. \A x \in Seq(Slots) : (x \o a) \o b = x \o (a \o b)
    <3>1. Regroups(a, b)
      BY HalvesRegroup, Zenon
    <3> QED
      BY <3>1, Zenon DEF Regroups
  <2> QED
    BY <1>1, <2>1, Zenon
<1> QED
  BY <1>1, <1>2, <1>3, <1>4, <1>5, Zenon DEF PopsEitherWay

\* f is a frame of stack s and locals L, whatever it handed out last.
LeavesBlock(f, s, L) == \E h : f = At(s, L, h)

LEMMA DupX2Block ==
  ASSUME NEW A \in Seq(Slots), NEW Y \in Seq(Slots), NEW X \in Seq(Slots), Len(Y) = 2, Len(X) = 1,
         NEW L, NEW g, Len(A \o (X \o (Y \o X))) <= MaxStack
  PROVE  LeavesBlock(DupX2(At(A \o (Y \o X), L, g)), A \o (X \o (Y \o X)), L)
<1> SUFFICES \E h : DupX2(At(A \o (Y \o X), L, g)) = At(A \o (X \o (Y \o X)), L, h)
  BY Zenon DEF LeavesBlock
<1> DEFINE f == At(A \o (Y \o X), L, g)
           v1 == PopN(f, 1)
           v2 == PopN(v1, IF TopIsCategory2(v1) THEN 2 ELSE 1)
           v3 == PopN(v2, 1)
<1>1. v1 = At(A \o Y, L, X) /\ v1.got = X
  BY PopsUpperOne, GotBlock
<1>2. DupX2(f) = IF TopIsCategory2(v1) THEN PushN(v2, v1.got \o v2.got \o v1.got)
                 ELSE PushN(v3, v1.got \o v3.got \o v2.got \o v1.got)
  BY Zenon DEF DupX2
<1>3. PICK a, b \in Seq(Slots) : /\ PopN(At(A \o Y, L, X), 2) = At(A, L, Y)
                                 /\ PopN(At(A \o Y, L, X), 1) = At(A \o a, L, b)
                                 /\ PopN(At(A \o a, L, b), 1) = At(A, L, a)
                                 /\ Y = a \o b
                                 /\ \A x \in Seq(Slots) : (x \o a) \o b = x \o Y
  <2>1. PopsEitherWay(A, Y, L, X)
    BY SplitsBlock
  <2> QED
    BY <2>1, Zenon DEF PopsEitherWay
<1>4. CASE TopIsCategory2(v1)
  <2>1. v2 = At(A, L, Y) /\ DupX2(f) = PushN(v2, v1.got \o v2.got \o v1.got)
    BY <1>1, <1>2, <1>3, <1>4, Zenon
  <2>2. v2.got = Y
    BY <2>1, GotBlock
  <2>3. PushN(At(A, L, Y), (X \o Y) \o X) = At(A \o (X \o (Y \o X)), L, Y)
    BY PushesAround
  <2> QED
    BY <1>1, <2>1, <2>2, <2>3, Zenon
<1>5. CASE ~TopIsCategory2(v1)
  <2>1. v2 = At(A \o a, L, b) /\ DupX2(f) = PushN(v3, v1.got \o v3.got \o v2.got \o v1.got)
    BY <1>1, <1>2, <1>3, <1>5, Zenon
  <2>2. v3 = At(A, L, a)
    BY <1>3, <2>1, Zenon
  <2>3. v2.got = b /\ v3.got = a
    <3>1. At(A \o a, L, b).got = b
      BY DEF At
    <3>2. At(A, L, a).got = a
      BY DEF At
    <3> QED
      BY <2>1, <2>2, <3>1, <3>2, Zenon
  <2>4. (X \o a) \o b = X \o Y
    BY <1>3, Zenon
  <2>5. PushN(At(A, L, a), (X \o Y) \o X) = At(A \o (X \o (Y \o X)), L, a)
    BY PushesAround
  <2> QED
    BY <1>1, <2>1, <2>2, <2>3, <2>4, <2>5, Zenon
<1> QED
  BY <1>4, <1>5, Zenon

LEMMA Dup2Block ==
  ASSUME NEW A \in Seq(Slots), NEW X \in Seq(Slots), Len(X) = 2, NEW L, NEW g, Len(A \o (X \o X)) <= MaxStack
  PROVE  \E h : Dup2(At(A \o X, L, g)) = At(A \o (X \o X), L, h)
<1> DEFINE f == At(A \o X, L, g)
           cat2 == PopN(f, 2)
           v1 == PopN(f, 1)
           v2 == PopN(v1, 1)
<1>1. Dup2(f) = IF TopIsCategory2(f) THEN PushN(cat2, cat2.got \o cat2.got)
                ELSE PushN(v2, v2.got \o v1.got \o v2.got \o v1.got)
  BY Zenon DEF Dup2
<1>2. PICK a, b \in Seq(Slots) : /\ cat2 = At(A, L, X) /\ v1 = At(A \o a, L, b)
                                 /\ PopN(At(A \o a, L, b), 1) = At(A, L, a)
                                 /\ X = a \o b
  <2>1. PopsEitherWay(A, X, L, g)
    BY SplitsBlock
  <2> QED
    BY <2>1, Zenon DEF PopsEitherWay
<1>3. v2 = At(A, L, a)
  BY <1>2, Zenon
<1>4. cat2.got = X /\ v1.got = b /\ v2.got = a
  <2>1. At(A, L, X).got = X /\ At(A \o a, L, b).got = b /\ At(A, L, a).got = a
    BY GotBlock
  <2> QED
    BY <1>2, <1>3, <2>1, Zenon
<1>5. a \o b \o a \o b = X \o X
  <2>1. a \o b \in Seq(Slots)
    BY <1>2, SlotsCounted
  <2>2. ((a \o b) \o a) \o b = (a \o b) \o (a \o b)
    <3> DEFINE c == a \o b
    <3>1. c \in Seq(Slots)
      BY <2>1
    <3> HIDE DEF c
    <3>2. (c \o a) \o b = c \o (a \o b)
      BY <3>1, SlotsAssociate, Zenon
    <3> QED
      BY <3>2, Zenon DEF c
  <2> QED
    BY <1>2, <2>2, Zenon
<1>6. \A h : PushN(At(A, L, h), X \o X) = At(A \o (X \o X), L, h)
  <2> DEFINE B == X \o X
  <2>1. B \in Seq(Slots) /\ Len(A \o B) <= MaxStack
    BY SlotsCounted
  <2> HIDE DEF B
  <2>2. \A h : PushN(At(A, L, h), B) = At(A \o B, L, h)
    BY <2>1, PushesBlock
  <2> QED
    BY <2>2 DEF B
<1>7. CASE TopIsCategory2(f)
  <2>1. Dup2(f) = PushN(cat2, cat2.got \o cat2.got)
    BY <1>1, <1>7, Zenon
  <2> QED
    BY <1>2, <1>4, <1>6, <2>1, Zenon
<1>8. CASE ~TopIsCategory2(f)
  <2>1. Dup2(f) = PushN(v2, v2.got \o v1.got \o v2.got \o v1.got)
    BY <1>1, <1>8, Zenon
  <2> QED
    BY <1>3, <1>4, <1>5, <1>6, <2>1, Zenon
<1> QED
  BY <1>7, <1>8, Zenon

LEMMA Dup2X2Block ==
  ASSUME NEW A \in Seq(Slots), NEW Y \in Seq(Slots), NEW X \in Seq(Slots), Len(Y) = 2, Len(X) = 2,
         NEW L, NEW g, Len(A \o (X \o (Y \o X))) <= MaxStack
  PROVE  LeavesBlock(Dup2X2(At(A \o (Y \o X), L, g)), A \o (X \o (Y \o X)), L)
<1> SUFFICES \E h : Dup2X2(At(A \o (Y \o X), L, g)) = At(A \o (X \o (Y \o X)), L, h)
  BY Zenon DEF LeavesBlock
<1> DEFINE f == At(A \o (Y \o X), L, g)
           v == PopN(f, 2)
           w == PopN(v, 2)
           w1 == PopN(v, 1)
           w2 == PopN(w1, 1)
<1>1. v = At(A \o Y, L, X) /\ v.got = X
  BY PopsUpperTwo, GotBlock
<1>2. Dup2X2(f) = IF TopIsCategory2(v) THEN PushN(w, v.got \o w.got \o v.got)
                  ELSE PushN(w2, v.got \o w2.got \o w1.got \o v.got)
  BY Zenon DEF Dup2X2
<1>3. PICK a, b \in Seq(Slots) : /\ PopN(At(A \o Y, L, X), 2) = At(A, L, Y)
                                 /\ PopN(At(A \o Y, L, X), 1) = At(A \o a, L, b)
                                 /\ PopN(At(A \o a, L, b), 1) = At(A, L, a)
                                 /\ Y = a \o b
                                 /\ \A x \in Seq(Slots) : (x \o a) \o b = x \o Y
  <2>1. PopsEitherWay(A, Y, L, X)
    BY SplitsBlock
  <2> QED
    BY <2>1, Zenon DEF PopsEitherWay
<1>4. w = At(A, L, Y) /\ w1 = At(A \o a, L, b)
  BY <1>1, <1>3, Zenon
<1>5. w2 = At(A, L, a)
  BY <1>3, <1>4, Zenon
<1>6. w.got = Y /\ w1.got = b /\ w2.got = a
  <2>1. At(A, L, Y).got = Y
    BY DEF At
  <2>2. At(A \o a, L, b).got = b
    BY DEF At
  <2>3. At(A, L, a).got = a
    BY DEF At
  <2> QED
    BY <1>4, <1>5, <2>1, <2>2, <2>3, Zenon
<1>7. (X \o a) \o b = X \o Y
  BY <1>3, Zenon
<1>8. \A h : PushN(At(A, L, h), (X \o Y) \o X) = At(A \o (X \o (Y \o X)), L, h)
  BY PushesAround
<1>9. CASE TopIsCategory2(v)
  <2>1. Dup2X2(f) = PushN(w, v.got \o w.got \o v.got)
    BY <1>2, <1>9, Zenon
  <2> QED
    BY <1>1, <1>4, <1>6, <1>8, <2>1, Zenon
<1>10. CASE ~TopIsCategory2(v)
  <2>1. Dup2X2(f) = PushN(w2, v.got \o w2.got \o w1.got \o v.got)
    BY <1>2, <1>10, Zenon
  <2> QED
    BY <1>1, <1>5, <1>6, <1>7, <1>8, <2>1, Zenon
<1> QED
  BY <1>9, <1>10, Zenon

-----------------------------------------------------------------------------
(* The forms of the instructions that move values, and their blocks. *)

Picked(t, from) == [i \in DOMAIN from |-> t[from[i]]]

LEMMA PicksNone ==
  ASSUME NEW t
  PROVE  Picked(t, <<>>) = <<>>
BY DEF Picked

LEMMA PicksTwo ==
  ASSUME NEW t, NEW a \in Nat, NEW b \in Nat
  PROVE  Picked(t, <<a, b>>) = <<t[a], t[b]>>
BY DEF Picked

LEMMA PicksThree ==
  ASSUME NEW t, NEW a \in Nat, NEW b \in Nat, NEW c \in Nat
  PROVE  Picked(t, <<a, b, c>>) = <<t[a], t[b], t[c]>>
BY DEF Picked

LEMMA PicksFour ==
  ASSUME NEW t, NEW a \in Nat, NEW b \in Nat, NEW c \in Nat, NEW d \in Nat
  PROVE  Picked(t, <<a, b, c, d>>) = <<t[a], t[b], t[c], t[d]>>
BY DEF Picked

LEMMA PicksFive ==
  ASSUME NEW t, NEW a \in Nat, NEW b \in Nat, NEW c \in Nat, NEW d \in Nat, NEW e \in Nat
  PROVE  Picked(t, <<a, b, c, d, e>>) = <<t[a], t[b], t[c], t[d], t[e]>>
BY DEF Picked

LEMMA PicksSix ==
  ASSUME NEW t, NEW a \in Nat, NEW b \in Nat, NEW c \in Nat, NEW d \in Nat, NEW e \in Nat, NEW f \in Nat
  PROVE  Picked(t, <<a, b, c, d, e, f>>) = <<t[a], t[b], t[c], t[d], t[e], t[f]>>
BY DEF Picked

LEMMA CountsOne ==
  ASSUME NEW v \in JavaValues
  PROVE  /\ <<v>> \in Seq(JavaValues) /\ Len(Expanded(<<v>>)) = Java!Category(v.kind)
BY ExpandedOfOne, ValueFacts

LEMMA PairsConcat ==
  ASSUME NEW S, NEW v \in S, NEW w \in S
  PROVE  /\ <<v>> \in Seq(S) /\ <<w>> \in Seq(S) /\ <<v, w>> \in Seq(S)
         /\ <<v, w>> = <<v>> \o <<w>>
<1>1. <<v>> \in Seq(S) /\ <<w>> \in Seq(S) /\ <<v, w>> \in Seq(S)
  OBVIOUS
<1> DEFINE a == <<v>>
           b == <<w>>
<1>2. Len(a) = 1 /\ Len(b) = 1 /\ a[1] = v /\ b[1] = w
  OBVIOUS
<1>3. Len(a \o b) = 2 /\ (a \o b)[1] = v /\ (a \o b)[2] = w /\ a \o b \in Seq(S)
  <2> HIDE DEF a, b
  <2> QED
    BY <1>1, <1>2, ConcatProperties DEF a, b
<1> DEFINE c == a \o b
<1>4. a \o b = <<v, w>>
  <2>1. c \in Seq(S) /\ Len(c) = 2 /\ c[1] = v /\ c[2] = w
    BY <1>3
  <2> HIDE DEF c
  <2>2. c = <<v, w>>
    BY <2>1
  <2> QED
    BY <2>2 DEF c
<1> QED
  BY <1>1, <1>4

LEMMA CountsTwo ==
  ASSUME NEW v \in JavaValues, NEW w \in JavaValues
  PROVE  /\ <<v, w>> \in Seq(JavaValues) /\ <<v, w>> = <<v>> \o <<w>>
         /\ Len(Expanded(<<v, w>>)) = Java!Category(v.kind) + Java!Category(w.kind)
<1>1. <<v>> \in Seq(JavaValues) /\ <<w>> \in Seq(JavaValues) /\ <<v, w>> = <<v>> \o <<w>> /\ <<v, w>> \in Seq(JavaValues)
  BY PairsConcat
<1> DEFINE a == <<v>>
           b == <<w>>
<1>2. Expanded(a \o b) = Expanded(a) \o Expanded(b) /\ Expanded(a) \in Seq(Slots) /\ Expanded(b) \in Seq(Slots)
  <2>1. a \in Seq(JavaValues) /\ b \in Seq(JavaValues)
    BY <1>1
  <2> HIDE DEF a, b
  <2> QED
    BY <2>1, ExpandedOfConcat, ExpandedType
<1>3. Len(Expanded(a)) = Java!Category(v.kind) /\ Len(Expanded(b)) = Java!Category(w.kind)
  BY CountsOne
<1>4. Len(Expanded(a) \o Expanded(b)) = Len(Expanded(a)) + Len(Expanded(b))
  <2> HIDE DEF a, b
  <2> QED
    BY <1>2, SlotsCounted
<1>5. Len(Expanded(<<v, w>>)) = Len(Expanded(a)) + Len(Expanded(b))
  BY <1>1, <1>2, <1>4, Zenon
<1> QED
  BY <1>1, <1>3, <1>5, Zenon

LEMMA JoinIs ==
  ASSUME NEW S, NEW y \in Seq(S), NEW x \in Seq(S), NEW m \in Nat, Len(y) = m, NEW n \in Nat, Len(x) = n
  PROVE  /\ y \o x \in Seq(S) /\ Len(y \o x) = m + n
         /\ \A i \in 1 .. m : (y \o x)[i] = y[i]
         /\ \A i \in 1 .. n : (y \o x)[m + i] = x[i]
<1> DEFINE w == y \o x
<1>1. w \in Seq(S) /\ Len(w) = m + n
  BY ConcatProperties
<1>2. \A i \in 1 .. m + n : w[i] = IF i <= m THEN y[i] ELSE x[i - m]
  BY ConcatProperties
<1> HIDE DEF w
<1>3. \A i \in 1 .. m : w[i] = y[i]
  <2>1. \A i \in 1 .. m : i \in 1 .. m + n /\ i <= m
    OBVIOUS
  <2> QED
    BY <1>2, <2>1, Zenon
<1>4. \A i \in 1 .. n : w[m + i] = x[i]
  <2>1. \A i \in 1 .. n : m + i \in 1 .. m + n /\ ~(m + i <= m) /\ (m + i) - m = i
    OBVIOUS
  <2> QED
    BY <1>2, <2>1, Zenon
<1> QED
  BY <1>1, <1>3, <1>4, Zenon DEF w

LEMMA AroundIs ==
  ASSUME NEW S, NEW y \in Seq(S), NEW x \in Seq(S), NEW m \in Nat, Len(y) = m, NEW n \in Nat, Len(x) = n
  PROVE  /\ y \o x \in Seq(S) /\ Len(y \o x) = m + n
         /\ \A i \in 1 .. m : (y \o x)[i] = y[i]
         /\ \A i \in 1 .. n : (y \o x)[m + i] = x[i]
         /\ x \o (y \o x) \in Seq(S) /\ Len(x \o (y \o x)) = n + m + n
         /\ \A i \in 1 .. n : (x \o (y \o x))[i] = x[i]
         /\ \A i \in 1 .. m : (x \o (y \o x))[n + i] = y[i]
         /\ \A i \in 1 .. n : (x \o (y \o x))[n + m + i] = x[i]
<1> DEFINE w == y \o x
           k == m + n
<1>1. /\ w \in Seq(S) /\ Len(w) = k /\ k \in Nat
      /\ \A i \in 1 .. m : w[i] = y[i]
      /\ \A i \in 1 .. n : w[m + i] = x[i]
  <2>1. w \in Seq(S) /\ Len(w) = k /\ k \in Nat
    BY JoinIs
  <2>2. \A i \in 1 .. m : w[i] = y[i]
    BY JoinIs
  <2>3. \A i \in 1 .. k : w[i] = IF i <= m THEN y[i] ELSE x[i - m]
    BY ConcatProperties
  <2> HIDE DEF w
  <2>4. \A i \in 1 .. n : w[m + i] = x[i]
    BY <2>3
  <2> QED
    BY <2>1, <2>2, <2>4
<1> HIDE DEF w, k
<1> DEFINE z == x \o w
<1>2. /\ z \in Seq(S) /\ Len(z) = n + k
      /\ \A i \in 1 .. n : z[i] = x[i]
      /\ \A i \in 1 .. k : z[n + i] = w[i]
  <2>1. z \in Seq(S) /\ Len(z) = n + k
    BY <1>1, JoinIs
  <2>2. \A i \in 1 .. n : z[i] = x[i]
    BY <1>1, JoinIs
  <2>3. \A i \in 1 .. n + k : z[i] = IF i <= n THEN x[i] ELSE w[i - n]
    <3>1. w \in Seq(S)
      BY <1>1
    <3>2. \A i \in 1 .. Len(x) + Len(w) : z[i] = IF i <= Len(x) THEN x[i] ELSE w[i - Len(x)]
      BY <3>1, ConcatProperties
    <3>3. Len(x) = n /\ Len(w) = k
      BY <1>1
    <3> QED
      BY <3>2, <3>3, Zenon
  <2> HIDE DEF z
  <2>4. \A i \in 1 .. k : z[n + i] = w[i]
    BY <1>1, <2>3
  <2> QED
    BY <2>1, <2>2, <2>4
<1> HIDE DEF z
<1>3. Len(z) = n + m + n
  BY <1>2 DEF k
<1>4. ASSUME NEW i \in 1 .. m
      PROVE  z[n + i] = y[i]
  <2>1. i \in 1 .. k
    BY DEF k
  <2> QED
    BY <1>1, <1>2, <2>1
<1>5. ASSUME NEW i \in 1 .. n
      PROVE  z[n + m + i] = x[i]
  <2> DEFINE j == m + i
  <2>1. j \in 1 .. k /\ n + m + i = n + j
    BY DEF k
  <2>2. w[j] = x[i]
    BY <1>1
  <2> HIDE DEF j
  <2>3. z[n + j] = w[j]
    BY <1>2, <2>1
  <2> QED
    BY <2>1, <2>2, <2>3
<1> QED
  BY <1>1, <1>2, <1>3, <1>4, <1>5, Zenon DEF w, z, k

LEMMA AroundOneOne ==
  ASSUME NEW S, NEW t \in Seq(S), Len(t) = 2, NEW y, NEW x, y = <<t[1]>>, x = <<t[2]>>
  PROVE  y \in Seq(S) /\ x \in Seq(S) /\ t = y \o x /\ <<t[2], t[1], t[2]>> = x \o (y \o x)
<1>1. t[1] \in S /\ t[2] \in S
  <2>1. 1 \in 1 .. Len(t) /\ 2 \in 1 .. Len(t)
    OBVIOUS
  <2> QED
    BY <2>1, ElementOfSeq
<1>2. y \in Seq(S) /\ x \in Seq(S) /\ Len(y) = 1 /\ Len(x) = 1
  BY <1>1
<1>3. y[1] = t[1] /\ x[1] = t[2]
  OBVIOUS
<1> DEFINE w == y \o x
           z == x \o (y \o x)
<1>4. /\ w \in Seq(S) /\ Len(w) = 1 + 1
      /\ \A i \in 1 .. 1 : w[i] = y[i]
      /\ \A i \in 1 .. 1 : w[1 + i] = x[i]
  BY <1>2, AroundIs
<1>5. /\ z \in Seq(S) /\ Len(z) = 1 + 1 + 1
      /\ \A i \in 1 .. 1 : z[i] = x[i]
      /\ \A i \in 1 .. 1 : z[1 + i] = y[i]
      /\ \A i \in 1 .. 1 : z[1 + 1 + i] = x[i]
  BY <1>2, AroundIs
<1> HIDE DEF w, z
<1>6. Len(w) = 2 /\ w[1] = t[1] /\ w[2] = t[2]
  BY <1>3, <1>4
<1>7. Len(z) = 3 /\ z[1] = t[2] /\ z[2] = t[1] /\ z[3] = t[2]
  BY <1>3, <1>5
<1>8. t = w
  BY <1>4, <1>6
<1>9. z = <<t[2], t[1], t[2]>>
  BY <1>5, <1>7
<1> QED
  BY <1>2, <1>8, <1>9, Zenon DEF w, z

LEMMA AroundOneTwo ==
  ASSUME NEW S, NEW t \in Seq(S), Len(t) = 3, NEW y, NEW x, y = <<t[1]>>, x = <<t[2], t[3]>>
  PROVE  y \in Seq(S) /\ x \in Seq(S) /\ t = y \o x /\ <<t[2], t[3], t[1], t[2], t[3]>> = x \o (y \o x)
<1>1. t[1] \in S /\ t[2] \in S /\ t[3] \in S
  <2>1. 1 \in 1 .. Len(t) /\ 2 \in 1 .. Len(t) /\ 3 \in 1 .. Len(t)
    OBVIOUS
  <2> QED
    BY <2>1, ElementOfSeq
<1>2. y \in Seq(S) /\ x \in Seq(S) /\ Len(y) = 1 /\ Len(x) = 2
  BY <1>1
<1>3. y[1] = t[1] /\ x[1] = t[2] /\ x[2] = t[3]
  OBVIOUS
<1> DEFINE w == y \o x
           z == x \o (y \o x)
<1>4. /\ w \in Seq(S) /\ Len(w) = 1 + 2
      /\ \A i \in 1 .. 1 : w[i] = y[i]
      /\ \A i \in 1 .. 2 : w[1 + i] = x[i]
  BY <1>2, AroundIs
<1>5. /\ z \in Seq(S) /\ Len(z) = 2 + 1 + 2
      /\ \A i \in 1 .. 2 : z[i] = x[i]
      /\ \A i \in 1 .. 1 : z[2 + i] = y[i]
      /\ \A i \in 1 .. 2 : z[2 + 1 + i] = x[i]
  BY <1>2, AroundIs
<1> HIDE DEF w, z
<1>6. Len(w) = 3 /\ w[1] = t[1] /\ w[2] = t[2] /\ w[3] = t[3]
  BY <1>3, <1>4
<1>7. Len(z) = 5 /\ z[1] = t[2] /\ z[2] = t[3] /\ z[3] = t[1] /\ z[4] = t[2] /\ z[5] = t[3]
  BY <1>3, <1>5
<1>8. t = w
  BY <1>4, <1>6
<1>9. z = <<t[2], t[3], t[1], t[2], t[3]>>
  BY <1>5, <1>7
<1> QED
  BY <1>2, <1>8, <1>9, Zenon DEF w, z

LEMMA AroundTwoOne ==
  ASSUME NEW S, NEW t \in Seq(S), Len(t) = 3, NEW y, NEW x, y = <<t[1], t[2]>>, x = <<t[3]>>
  PROVE  y \in Seq(S) /\ x \in Seq(S) /\ t = y \o x /\ <<t[3], t[1], t[2], t[3]>> = x \o (y \o x)
<1>1. t[1] \in S /\ t[2] \in S /\ t[3] \in S
  <2>1. 1 \in 1 .. Len(t) /\ 2 \in 1 .. Len(t) /\ 3 \in 1 .. Len(t)
    OBVIOUS
  <2> QED
    BY <2>1, ElementOfSeq
<1>2. y \in Seq(S) /\ x \in Seq(S) /\ Len(y) = 2 /\ Len(x) = 1
  BY <1>1
<1>3. y[1] = t[1] /\ y[2] = t[2] /\ x[1] = t[3]
  OBVIOUS
<1> DEFINE w == y \o x
           z == x \o (y \o x)
<1>4. /\ w \in Seq(S) /\ Len(w) = 2 + 1
      /\ \A i \in 1 .. 2 : w[i] = y[i]
      /\ \A i \in 1 .. 1 : w[2 + i] = x[i]
  BY <1>2, AroundIs
<1>5. /\ z \in Seq(S) /\ Len(z) = 1 + 2 + 1
      /\ \A i \in 1 .. 1 : z[i] = x[i]
      /\ \A i \in 1 .. 2 : z[1 + i] = y[i]
      /\ \A i \in 1 .. 1 : z[1 + 2 + i] = x[i]
  BY <1>2, AroundIs
<1> HIDE DEF w, z
<1>6. Len(w) = 3 /\ w[1] = t[1] /\ w[2] = t[2] /\ w[3] = t[3]
  BY <1>3, <1>4
<1>7. Len(z) = 4 /\ z[1] = t[3] /\ z[2] = t[1] /\ z[3] = t[2] /\ z[4] = t[3]
  BY <1>3, <1>5
<1>8. t = w
  BY <1>4, <1>6
<1>9. z = <<t[3], t[1], t[2], t[3]>>
  BY <1>5, <1>7
<1> QED
  BY <1>2, <1>8, <1>9, Zenon DEF w, z

LEMMA AroundTwoTwo ==
  ASSUME NEW S, NEW t \in Seq(S), Len(t) = 4, NEW y, NEW x, y = <<t[1], t[2]>>, x = <<t[3], t[4]>>
  PROVE  y \in Seq(S) /\ x \in Seq(S) /\ t = y \o x /\ <<t[3], t[4], t[1], t[2], t[3], t[4]>> = x \o (y \o x)
<1>1. t[1] \in S /\ t[2] \in S /\ t[3] \in S /\ t[4] \in S
  <2>1. 1 \in 1 .. Len(t) /\ 2 \in 1 .. Len(t) /\ 3 \in 1 .. Len(t) /\ 4 \in 1 .. Len(t)
    OBVIOUS
  <2> QED
    BY <2>1, ElementOfSeq
<1>2. y \in Seq(S) /\ x \in Seq(S) /\ Len(y) = 2 /\ Len(x) = 2
  BY <1>1
<1>3. y[1] = t[1] /\ y[2] = t[2] /\ x[1] = t[3] /\ x[2] = t[4]
  OBVIOUS
<1> DEFINE w == y \o x
           z == x \o (y \o x)
<1>4. /\ w \in Seq(S) /\ Len(w) = 2 + 2
      /\ \A i \in 1 .. 2 : w[i] = y[i]
      /\ \A i \in 1 .. 2 : w[2 + i] = x[i]
  BY <1>2, AroundIs
<1>5. /\ z \in Seq(S) /\ Len(z) = 2 + 2 + 2
      /\ \A i \in 1 .. 2 : z[i] = x[i]
      /\ \A i \in 1 .. 2 : z[2 + i] = y[i]
      /\ \A i \in 1 .. 2 : z[2 + 2 + i] = x[i]
  BY <1>2, AroundIs
<1> HIDE DEF w, z
<1>6. Len(w) = 4 /\ w[1] = t[1] /\ w[2] = t[2] /\ w[3] = t[3] /\ w[4] = t[4]
  BY <1>3, <1>4
<1>7. Len(z) = 6 /\ z[1] = t[3] /\ z[2] = t[4] /\ z[3] = t[1] /\ z[4] = t[2] /\ z[5] = t[3] /\ z[6] = t[4]
  BY <1>3, <1>5
<1>8. t = w
  BY <1>4, <1>6
<1>9. z = <<t[3], t[4], t[1], t[2], t[3], t[4]>>
  BY <1>5, <1>7
<1> QED
  BY <1>2, <1>8, <1>9, Zenon DEF w, z

\* The values of a form, and what it puts in their place, as blocks.
Taken(form, t) == Len(t) = Len(form[1]) /\ \A i \in 1 .. Len(form[1]) : Java!Category(t[i].kind) = form[1][i]
Shaped(t, u, p, q) ==
    \E y, x \in Seq(JavaValues) : t = y \o x /\ u = x \o (y \o x) /\ Len(Expanded(y)) = p /\ Len(Expanded(x)) = q

LEMMA FormsAre ==
  /\ \A form \in Java!Forms["nop"] : form = <<<< >>, << >>>>
  /\ \A form \in Java!Forms["pop"] : form = <<<<1>>, << >>>>
  /\ \A form \in Java!Forms["pop2"] : form = <<<<1, 1>>, << >>>> \/ form = <<<<2>>, << >>>>
  /\ \A form \in Java!Forms["dup"] : form = <<<<1>>, <<1, 1>>>>
  /\ \A form \in Java!Forms["dup_x1"] : form = <<<<1, 1>>, <<2, 1, 2>>>>
  /\ \A form \in Java!Forms["dup_x2"] : form = <<<<1, 1, 1>>, <<3, 1, 2, 3>>>> \/ form = <<<<2, 1>>, <<2, 1, 2>>>>
  /\ \A form \in Java!Forms["dup2"] : form = <<<<1, 1>>, <<1, 2, 1, 2>>>> \/ form = <<<<2>>, <<1, 1>>>>
  /\ \A form \in Java!Forms["dup2_x1"] : form = <<<<1, 1, 1>>, <<2, 3, 1, 2, 3>>>> \/ form = <<<<1, 2>>, <<2, 1, 2>>>>
  /\ \A form \in Java!Forms["dup2_x2"] :
        \/ form = <<<<1, 1, 1, 1>>, <<3, 4, 1, 2, 3, 4>>>>
        \/ form = <<<<1, 1, 2>>, <<3, 1, 2, 3>>>>
        \/ form = <<<<2, 1, 1>>, <<2, 3, 1, 2, 3>>>>
        \/ form = <<<<2, 2>>, <<2, 1, 2>>>>
  /\ \A form \in Java!Forms["swap"] : form = <<<<1, 1>>, <<2, 1>>>>
<1>1. Java!Forms["nop"] = {<<<< >>, << >>>>}
  BY DEF Java!Forms, Java!StackCodes
<1>2. Java!Forms["pop"] = {<<<<1>>, << >>>>}
  BY DEF Java!Forms, Java!StackCodes
<1>3. Java!Forms["pop2"] = {<<<<1, 1>>, << >>>>, <<<<2>>, << >>>>}
  BY DEF Java!Forms, Java!StackCodes
<1>4. Java!Forms["dup"] = {<<<<1>>, <<1, 1>>>>}
  BY DEF Java!Forms, Java!StackCodes
<1>5. Java!Forms["dup_x1"] = {<<<<1, 1>>, <<2, 1, 2>>>>}
  BY DEF Java!Forms, Java!StackCodes
<1>6. Java!Forms["dup_x2"] = {<<<<1, 1, 1>>, <<3, 1, 2, 3>>>>, <<<<2, 1>>, <<2, 1, 2>>>>}
  BY DEF Java!Forms, Java!StackCodes
<1>7. Java!Forms["dup2"] = {<<<<1, 1>>, <<1, 2, 1, 2>>>>, <<<<2>>, <<1, 1>>>>}
  BY DEF Java!Forms, Java!StackCodes
<1>8. Java!Forms["dup2_x1"] = {<<<<1, 1, 1>>, <<2, 3, 1, 2, 3>>>>, <<<<1, 2>>, <<2, 1, 2>>>>}
  BY DEF Java!Forms, Java!StackCodes
<1>9. Java!Forms["dup2_x2"] = {<<<<1, 1, 1, 1>>, <<3, 4, 1, 2, 3, 4>>>>, <<<<1, 1, 2>>, <<3, 1, 2, 3>>>>, <<<<2, 1, 1>>, <<2, 3, 1, 2, 3>>>>, <<<<2, 2>>, <<2, 1, 2>>>>}
  BY DEF Java!Forms, Java!StackCodes
<1>10. Java!Forms["swap"] = {<<<<1, 1>>, <<2, 1>>>>}
  BY DEF Java!Forms, Java!StackCodes
<1> QED
  BY <1>1, <1>2, <1>3, <1>4, <1>5, <1>6, <1>7, <1>8, <1>9, <1>10, Zenon

LEMMA ShapedOneOne ==
  ASSUME NEW t \in Seq(JavaValues), Len(t) = 2
  PROVE  Shaped(t, Picked(t, <<2, 1, 2>>), Java!Category(t[1].kind),
                Java!Category(t[2].kind))
<1> DEFINE y == <<t[1]>>
           x == <<t[2]>>
<1>1. t[1] \in JavaValues /\ t[2] \in JavaValues
  <2>1. 1 \in 1 .. Len(t) /\ 2 \in 1 .. Len(t)
    OBVIOUS
  <2> QED
    BY <2>1, ElementOfSeq
<1>2. y \in Seq(JavaValues) /\ Len(Expanded(y)) = Java!Category(t[1].kind)
  BY <1>1, CountsOne
<1>3. x \in Seq(JavaValues) /\ Len(Expanded(x)) = Java!Category(t[2].kind)
  BY <1>1, CountsOne
<1>4. /\ y \in Seq(JavaValues) /\ x \in Seq(JavaValues) /\ t = y \o x
      /\ <<t[2], t[1], t[2]>> = x \o (y \o x)
  <2>1. y = <<t[1]>> /\ x = <<t[2]>>
    OBVIOUS
  <2> HIDE DEF y, x
  <2>2. y \in Seq(JavaValues) /\ x \in Seq(JavaValues)
    BY <1>2, <1>3
  <2>3. t = y \o x
    BY <2>1, AroundOneOne
  <2>4. <<t[2], t[1], t[2]>> = x \o (y \o x)
    BY <2>1, AroundOneOne
  <2> QED
    BY <2>2, <2>3, <2>4
<1>5. Picked(t, <<2, 1, 2>>) = <<t[2], t[1], t[2]>>
  BY DEF Picked
<1> QED
  BY <1>2, <1>3, <1>4, <1>5, Zenon DEF Shaped

LEMMA ShapedOneTwo ==
  ASSUME NEW t \in Seq(JavaValues), Len(t) = 3
  PROVE  Shaped(t, Picked(t, <<2, 3, 1, 2, 3>>), Java!Category(t[1].kind),
                Java!Category(t[2].kind) + Java!Category(t[3].kind))
<1> DEFINE y == <<t[1]>>
           x == <<t[2], t[3]>>
<1>1. t[1] \in JavaValues /\ t[2] \in JavaValues /\ t[3] \in JavaValues
  <2>1. 1 \in 1 .. Len(t) /\ 2 \in 1 .. Len(t) /\ 3 \in 1 .. Len(t)
    OBVIOUS
  <2> QED
    BY <2>1, ElementOfSeq
<1>2. y \in Seq(JavaValues) /\ Len(Expanded(y)) = Java!Category(t[1].kind)
  BY <1>1, CountsOne
<1>3. x \in Seq(JavaValues) /\ Len(Expanded(x)) = Java!Category(t[2].kind) + Java!Category(t[3].kind)
  BY <1>1, CountsTwo
<1>4. /\ y \in Seq(JavaValues) /\ x \in Seq(JavaValues) /\ t = y \o x
      /\ <<t[2], t[3], t[1], t[2], t[3]>> = x \o (y \o x)
  <2>1. y = <<t[1]>> /\ x = <<t[2], t[3]>>
    OBVIOUS
  <2> HIDE DEF y, x
  <2>2. y \in Seq(JavaValues) /\ x \in Seq(JavaValues)
    BY <1>2, <1>3
  <2>3. t = y \o x
    BY <2>1, AroundOneTwo
  <2>4. <<t[2], t[3], t[1], t[2], t[3]>> = x \o (y \o x)
    BY <2>1, AroundOneTwo
  <2> QED
    BY <2>2, <2>3, <2>4
<1>5. Picked(t, <<2, 3, 1, 2, 3>>) = <<t[2], t[3], t[1], t[2], t[3]>>
  BY DEF Picked
<1> QED
  BY <1>2, <1>3, <1>4, <1>5, Zenon DEF Shaped

LEMMA ShapedTwoOne ==
  ASSUME NEW t \in Seq(JavaValues), Len(t) = 3
  PROVE  Shaped(t, Picked(t, <<3, 1, 2, 3>>), Java!Category(t[1].kind) + Java!Category(t[2].kind),
                Java!Category(t[3].kind))
<1> DEFINE y == <<t[1], t[2]>>
           x == <<t[3]>>
<1>1. t[1] \in JavaValues /\ t[2] \in JavaValues /\ t[3] \in JavaValues
  <2>1. 1 \in 1 .. Len(t) /\ 2 \in 1 .. Len(t) /\ 3 \in 1 .. Len(t)
    OBVIOUS
  <2> QED
    BY <2>1, ElementOfSeq
<1>2. y \in Seq(JavaValues) /\ Len(Expanded(y)) = Java!Category(t[1].kind) + Java!Category(t[2].kind)
  BY <1>1, CountsTwo
<1>3. x \in Seq(JavaValues) /\ Len(Expanded(x)) = Java!Category(t[3].kind)
  BY <1>1, CountsOne
<1>4. /\ y \in Seq(JavaValues) /\ x \in Seq(JavaValues) /\ t = y \o x
      /\ <<t[3], t[1], t[2], t[3]>> = x \o (y \o x)
  <2>1. y = <<t[1], t[2]>> /\ x = <<t[3]>>
    OBVIOUS
  <2> HIDE DEF y, x
  <2>2. y \in Seq(JavaValues) /\ x \in Seq(JavaValues)
    BY <1>2, <1>3
  <2>3. t = y \o x
    BY <2>1, AroundTwoOne
  <2>4. <<t[3], t[1], t[2], t[3]>> = x \o (y \o x)
    BY <2>1, AroundTwoOne
  <2> QED
    BY <2>2, <2>3, <2>4
<1>5. Picked(t, <<3, 1, 2, 3>>) = <<t[3], t[1], t[2], t[3]>>
  BY DEF Picked
<1> QED
  BY <1>2, <1>3, <1>4, <1>5, Zenon DEF Shaped

LEMMA ShapedTwoTwo ==
  ASSUME NEW t \in Seq(JavaValues), Len(t) = 4
  PROVE  Shaped(t, Picked(t, <<3, 4, 1, 2, 3, 4>>), Java!Category(t[1].kind) + Java!Category(t[2].kind),
                Java!Category(t[3].kind) + Java!Category(t[4].kind))
<1> DEFINE y == <<t[1], t[2]>>
           x == <<t[3], t[4]>>
<1>1. t[1] \in JavaValues /\ t[2] \in JavaValues /\ t[3] \in JavaValues /\ t[4] \in JavaValues
  <2>1. 1 \in 1 .. Len(t) /\ 2 \in 1 .. Len(t) /\ 3 \in 1 .. Len(t) /\ 4 \in 1 .. Len(t)
    OBVIOUS
  <2> QED
    BY <2>1, ElementOfSeq
<1>2. y \in Seq(JavaValues) /\ Len(Expanded(y)) = Java!Category(t[1].kind) + Java!Category(t[2].kind)
  BY <1>1, CountsTwo
<1>3. x \in Seq(JavaValues) /\ Len(Expanded(x)) = Java!Category(t[3].kind) + Java!Category(t[4].kind)
  BY <1>1, CountsTwo
<1>4. /\ y \in Seq(JavaValues) /\ x \in Seq(JavaValues) /\ t = y \o x
      /\ <<t[3], t[4], t[1], t[2], t[3], t[4]>> = x \o (y \o x)
  <2>1. y = <<t[1], t[2]>> /\ x = <<t[3], t[4]>>
    OBVIOUS
  <2> HIDE DEF y, x
  <2>2. y \in Seq(JavaValues) /\ x \in Seq(JavaValues)
    BY <1>2, <1>3
  <2>3. t = y \o x
    BY <2>1, AroundTwoTwo
  <2>4. <<t[3], t[4], t[1], t[2], t[3], t[4]>> = x \o (y \o x)
    BY <2>1, AroundTwoTwo
  <2> QED
    BY <2>2, <2>3, <2>4
<1>5. Picked(t, <<3, 4, 1, 2, 3, 4>>) = <<t[3], t[4], t[1], t[2], t[3], t[4]>>
  BY DEF Picked
<1> QED
  BY <1>2, <1>3, <1>4, <1>5, Zenon DEF Shaped

LEMMA DupX1Shaped ==
  ASSUME NEW t \in Seq(JavaValues), NEW form \in Java!Forms["dup_x1"], Taken(form, t)
  PROVE  Shaped(t, Picked(t, form[2]), 1, 1)
<1>1. CASE form = <<<<1, 1>>, <<2, 1, 2>>>>
  <2>1. Len(t) = 2 /\ form[2] = <<2, 1, 2>> /\ Java!Category(t[1].kind) = 1 /\ Java!Category(t[2].kind) = 1
    <3>1. Len(form[1]) = 2 /\ form[2] = <<2, 1, 2>> /\ form[1][1] = 1 /\ form[1][2] = 1
      BY <1>1
    <3> HIDE <1>1
    <3>2. Len(t) = Len(form[1]) /\ \A i \in 1 .. Len(form[1]) : Java!Category(t[i].kind) = form[1][i]
      BY Zenon DEF Taken
    <3> QED
      BY <3>1, <3>2
  <2>2. Shaped(t, Picked(t, <<2, 1, 2>>), Java!Category(t[1].kind), Java!Category(t[2].kind))
    BY <2>1, ShapedOneOne
  <2>3. Java!Category(t[1].kind) = 1 /\ Java!Category(t[2].kind) = 1
    BY <2>1
  <2> QED
    BY <2>1, <2>2, <2>3, Zenon
<1> QED
  BY FormsAre, <1>1

LEMMA DupX2Shaped ==
  ASSUME NEW t \in Seq(JavaValues), NEW form \in Java!Forms["dup_x2"], Taken(form, t)
  PROVE  Shaped(t, Picked(t, form[2]), 2, 1)
<1>1. CASE form = <<<<1, 1, 1>>, <<3, 1, 2, 3>>>>
  <2>1. Len(t) = 3 /\ form[2] = <<3, 1, 2, 3>> /\ Java!Category(t[1].kind) = 1 /\ Java!Category(t[2].kind) = 1 /\ Java!Category(t[3].kind) = 1
    <3>1. Len(form[1]) = 3 /\ form[2] = <<3, 1, 2, 3>> /\ form[1][1] = 1 /\ form[1][2] = 1 /\ form[1][3] = 1
      BY <1>1
    <3> HIDE <1>1
    <3>2. Len(t) = Len(form[1]) /\ \A i \in 1 .. Len(form[1]) : Java!Category(t[i].kind) = form[1][i]
      BY Zenon DEF Taken
    <3> QED
      BY <3>1, <3>2
  <2>2. Shaped(t, Picked(t, <<3, 1, 2, 3>>), Java!Category(t[1].kind) + Java!Category(t[2].kind), Java!Category(t[3].kind))
    BY <2>1, ShapedTwoOne
  <2>3. Java!Category(t[1].kind) + Java!Category(t[2].kind) = 2 /\ Java!Category(t[3].kind) = 1
    BY <2>1
  <2> QED
    BY <2>1, <2>2, <2>3, Zenon
<1>2. CASE form = <<<<2, 1>>, <<2, 1, 2>>>>
  <2>1. Len(t) = 2 /\ form[2] = <<2, 1, 2>> /\ Java!Category(t[1].kind) = 2 /\ Java!Category(t[2].kind) = 1
    <3>1. Len(form[1]) = 2 /\ form[2] = <<2, 1, 2>> /\ form[1][1] = 2 /\ form[1][2] = 1
      BY <1>2
    <3> HIDE <1>2
    <3>2. Len(t) = Len(form[1]) /\ \A i \in 1 .. Len(form[1]) : Java!Category(t[i].kind) = form[1][i]
      BY Zenon DEF Taken
    <3> QED
      BY <3>1, <3>2
  <2>2. Shaped(t, Picked(t, <<2, 1, 2>>), Java!Category(t[1].kind), Java!Category(t[2].kind))
    BY <2>1, ShapedOneOne
  <2>3. Java!Category(t[1].kind) = 2 /\ Java!Category(t[2].kind) = 1
    BY <2>1
  <2> QED
    BY <2>1, <2>2, <2>3, Zenon
<1> QED
  BY FormsAre, <1>1, <1>2

LEMMA Dup2X1Shaped ==
  ASSUME NEW t \in Seq(JavaValues), NEW form \in Java!Forms["dup2_x1"], Taken(form, t)
  PROVE  Shaped(t, Picked(t, form[2]), 1, 2)
<1>1. CASE form = <<<<1, 1, 1>>, <<2, 3, 1, 2, 3>>>>
  <2>1. Len(t) = 3 /\ form[2] = <<2, 3, 1, 2, 3>> /\ Java!Category(t[1].kind) = 1 /\ Java!Category(t[2].kind) = 1 /\ Java!Category(t[3].kind) = 1
    <3>1. Len(form[1]) = 3 /\ form[2] = <<2, 3, 1, 2, 3>> /\ form[1][1] = 1 /\ form[1][2] = 1 /\ form[1][3] = 1
      BY <1>1
    <3> HIDE <1>1
    <3>2. Len(t) = Len(form[1]) /\ \A i \in 1 .. Len(form[1]) : Java!Category(t[i].kind) = form[1][i]
      BY Zenon DEF Taken
    <3> QED
      BY <3>1, <3>2
  <2>2. Shaped(t, Picked(t, <<2, 3, 1, 2, 3>>), Java!Category(t[1].kind), Java!Category(t[2].kind) + Java!Category(t[3].kind))
    BY <2>1, ShapedOneTwo
  <2>3. Java!Category(t[1].kind) = 1 /\ Java!Category(t[2].kind) + Java!Category(t[3].kind) = 2
    BY <2>1
  <2> QED
    BY <2>1, <2>2, <2>3, Zenon
<1>2. CASE form = <<<<1, 2>>, <<2, 1, 2>>>>
  <2>1. Len(t) = 2 /\ form[2] = <<2, 1, 2>> /\ Java!Category(t[1].kind) = 1 /\ Java!Category(t[2].kind) = 2
    <3>1. Len(form[1]) = 2 /\ form[2] = <<2, 1, 2>> /\ form[1][1] = 1 /\ form[1][2] = 2
      BY <1>2
    <3> HIDE <1>2
    <3>2. Len(t) = Len(form[1]) /\ \A i \in 1 .. Len(form[1]) : Java!Category(t[i].kind) = form[1][i]
      BY Zenon DEF Taken
    <3> QED
      BY <3>1, <3>2
  <2>2. Shaped(t, Picked(t, <<2, 1, 2>>), Java!Category(t[1].kind), Java!Category(t[2].kind))
    BY <2>1, ShapedOneOne
  <2>3. Java!Category(t[1].kind) = 1 /\ Java!Category(t[2].kind) = 2
    BY <2>1
  <2> QED
    BY <2>1, <2>2, <2>3, Zenon
<1> QED
  BY FormsAre, <1>1, <1>2

LEMMA Dup2X2Shaped ==
  ASSUME NEW t \in Seq(JavaValues), NEW form \in Java!Forms["dup2_x2"], Taken(form, t)
  PROVE  Shaped(t, Picked(t, form[2]), 2, 2)
<1>1. CASE form = <<<<1, 1, 1, 1>>, <<3, 4, 1, 2, 3, 4>>>>
  <2>1. Len(t) = 4 /\ form[2] = <<3, 4, 1, 2, 3, 4>> /\ Java!Category(t[1].kind) = 1 /\ Java!Category(t[2].kind) = 1 /\ Java!Category(t[3].kind) = 1 /\ Java!Category(t[4].kind) = 1
    <3>1. Len(form[1]) = 4 /\ form[2] = <<3, 4, 1, 2, 3, 4>> /\ form[1][1] = 1 /\ form[1][2] = 1 /\ form[1][3] = 1 /\ form[1][4] = 1
      BY <1>1
    <3> HIDE <1>1
    <3>2. Len(t) = Len(form[1]) /\ \A i \in 1 .. Len(form[1]) : Java!Category(t[i].kind) = form[1][i]
      BY Zenon DEF Taken
    <3> QED
      BY <3>1, <3>2
  <2>2. Shaped(t, Picked(t, <<3, 4, 1, 2, 3, 4>>), Java!Category(t[1].kind) + Java!Category(t[2].kind), Java!Category(t[3].kind) + Java!Category(t[4].kind))
    BY <2>1, ShapedTwoTwo
  <2>3. Java!Category(t[1].kind) + Java!Category(t[2].kind) = 2 /\ Java!Category(t[3].kind) + Java!Category(t[4].kind) = 2
    BY <2>1
  <2> QED
    BY <2>1, <2>2, <2>3, Zenon
<1>2. CASE form = <<<<1, 1, 2>>, <<3, 1, 2, 3>>>>
  <2>1. Len(t) = 3 /\ form[2] = <<3, 1, 2, 3>> /\ Java!Category(t[1].kind) = 1 /\ Java!Category(t[2].kind) = 1 /\ Java!Category(t[3].kind) = 2
    <3>1. Len(form[1]) = 3 /\ form[2] = <<3, 1, 2, 3>> /\ form[1][1] = 1 /\ form[1][2] = 1 /\ form[1][3] = 2
      BY <1>2
    <3> HIDE <1>2
    <3>2. Len(t) = Len(form[1]) /\ \A i \in 1 .. Len(form[1]) : Java!Category(t[i].kind) = form[1][i]
      BY Zenon DEF Taken
    <3> QED
      BY <3>1, <3>2
  <2>2. Shaped(t, Picked(t, <<3, 1, 2, 3>>), Java!Category(t[1].kind) + Java!Category(t[2].kind), Java!Category(t[3].kind))
    BY <2>1, ShapedTwoOne
  <2>3. Java!Category(t[1].kind) + Java!Category(t[2].kind) = 2 /\ Java!Category(t[3].kind) = 2
    BY <2>1
  <2> QED
    BY <2>1, <2>2, <2>3, Zenon
<1>3. CASE form = <<<<2, 1, 1>>, <<2, 3, 1, 2, 3>>>>
  <2>1. Len(t) = 3 /\ form[2] = <<2, 3, 1, 2, 3>> /\ Java!Category(t[1].kind) = 2 /\ Java!Category(t[2].kind) = 1 /\ Java!Category(t[3].kind) = 1
    <3>1. Len(form[1]) = 3 /\ form[2] = <<2, 3, 1, 2, 3>> /\ form[1][1] = 2 /\ form[1][2] = 1 /\ form[1][3] = 1
      BY <1>3
    <3> HIDE <1>3
    <3>2. Len(t) = Len(form[1]) /\ \A i \in 1 .. Len(form[1]) : Java!Category(t[i].kind) = form[1][i]
      BY Zenon DEF Taken
    <3> QED
      BY <3>1, <3>2
  <2>2. Shaped(t, Picked(t, <<2, 3, 1, 2, 3>>), Java!Category(t[1].kind), Java!Category(t[2].kind) + Java!Category(t[3].kind))
    BY <2>1, ShapedOneTwo
  <2>3. Java!Category(t[1].kind) = 2 /\ Java!Category(t[2].kind) + Java!Category(t[3].kind) = 2
    BY <2>1
  <2> QED
    BY <2>1, <2>2, <2>3, Zenon
<1>4. CASE form = <<<<2, 2>>, <<2, 1, 2>>>>
  <2>1. Len(t) = 2 /\ form[2] = <<2, 1, 2>> /\ Java!Category(t[1].kind) = 2 /\ Java!Category(t[2].kind) = 2
    <3>1. Len(form[1]) = 2 /\ form[2] = <<2, 1, 2>> /\ form[1][1] = 2 /\ form[1][2] = 2
      BY <1>4
    <3> HIDE <1>4
    <3>2. Len(t) = Len(form[1]) /\ \A i \in 1 .. Len(form[1]) : Java!Category(t[i].kind) = form[1][i]
      BY Zenon DEF Taken
    <3> QED
      BY <3>1, <3>2
  <2>2. Shaped(t, Picked(t, <<2, 1, 2>>), Java!Category(t[1].kind), Java!Category(t[2].kind))
    BY <2>1, ShapedOneOne
  <2>3. Java!Category(t[1].kind) = 2 /\ Java!Category(t[2].kind) = 2
    BY <2>1
  <2> QED
    BY <2>1, <2>2, <2>3, Zenon
<1> QED
  BY FormsAre, <1>1, <1>2, <1>3, <1>4

LEMMA CountsAll ==
  ASSUME NEW t \in Seq(JavaValues)
  PROVE  /\ Len(t) = 1 => Len(Expanded(t)) = Java!Category(t[1].kind)
         /\ Len(t) = 2 => Len(Expanded(t)) = Java!Category(t[1].kind) + Java!Category(t[2].kind)
<1>1. CASE Len(t) = 1
  <2>1. 1 \in 1 .. Len(t)
    BY <1>1
  <2>2. t[1] \in JavaValues
    BY <2>1, ElementOfSeq
  <2>3. t = <<t[1]>>
    BY <1>1
  <2> DEFINE v == t[1]
  <2>4. Len(Expanded(<<v>>)) = Java!Category(v.kind)
    <3>1. v \in JavaValues
      BY <2>2
    <3> HIDE DEF v
    <3> QED
      BY <3>1, CountsOne
  <2> QED
    BY <1>1, <2>3, <2>4
<1>2. CASE Len(t) = 2
  <2>1. 1 \in 1 .. Len(t) /\ 2 \in 1 .. Len(t)
    BY <1>2
  <2>2. t[1] \in JavaValues /\ t[2] \in JavaValues
    BY <2>1, ElementOfSeq
  <2>3. t = <<t[1], t[2]>>
    BY <1>2
  <2> DEFINE v == t[1]
             w == t[2]
  <2>4. Len(Expanded(<<v, w>>)) = Java!Category(v.kind) + Java!Category(w.kind)
    <3>1. v \in JavaValues /\ w \in JavaValues
      BY <2>2
    <3> HIDE DEF v, w
    <3> QED
      BY <3>1, CountsTwo
  <2> QED
    BY <1>2, <2>3, <2>4
<1> QED
  BY <1>1, <1>2

LEMMA Doubled ==
  ASSUME NEW S, NEW t \in Seq(S)
  PROVE  /\ Len(t) = 1 => t \o t = <<t[1], t[1]>>
         /\ Len(t) = 2 => t \o t = <<t[1], t[2], t[1], t[2]>>
<1> DEFINE w == t \o t
<1>1. /\ w \in Seq(S) /\ Len(w) = Len(t) + Len(t)
      /\ \A i \in 1 .. Len(t) + Len(t) : w[i] = IF i <= Len(t) THEN t[i] ELSE t[i - Len(t)]
  BY ConcatProperties
<1> HIDE DEF w
<1>2. w \in Seq(S)
  BY <1>1
<1>3. CASE Len(t) = 1
  <2>1. Len(w) = 2 /\ w[1] = t[1] /\ w[2] = t[1]
    BY <1>1, <1>3
  <2>2. w = <<t[1], t[1]>>
    BY <1>2, <2>1
  <2> QED
    BY <1>3, <2>2 DEF w
<1>4. CASE Len(t) = 2
  <2>1. Len(w) = 4 /\ w[1] = t[1] /\ w[2] = t[2] /\ w[3] = t[1] /\ w[4] = t[2]
    BY <1>1, <1>4
  <2>2. w = <<t[1], t[2], t[1], t[2]>>
    BY <1>2, <2>1
  <2> QED
    BY <1>4, <2>2 DEF w
<1> QED
  BY <1>3, <1>4

LEMMA TakenFacts ==
  ASSUME NEW t \in Seq(JavaValues), NEW form, Taken(form, t)
  PROVE  /\ form[1] = << >> => Len(t) = 0
         /\ form[1] = <<1>> => Len(t) = 1 /\ Len(Expanded(t)) = 1
         /\ form[1] = <<2>> => Len(t) = 1 /\ Len(Expanded(t)) = 2
         /\ form[1] = <<1, 1>> => Len(t) = 2 /\ Len(Expanded(t)) = 2 /\ Java!Category(t[1].kind) = 1 /\ Java!Category(t[2].kind) = 1
<1>1. Len(t) = Len(form[1]) /\ \A i \in 1 .. Len(form[1]) : Java!Category(t[i].kind) = form[1][i]
  BY Zenon DEF Taken
<1>2. ASSUME form[1] = << >>
      PROVE  Len(t) = 0
  BY <1>1, <1>2
<1>3. ASSUME NEW c \in {1, 2}, form[1] = <<c>>
      PROVE  Len(t) = 1 /\ Len(Expanded(t)) = c
  <2>1. Len(t) = 1 /\ Java!Category(t[1].kind) = c
    BY <1>1, <1>3
  <2> QED
    BY <2>1, CountsAll
<1>4. ASSUME form[1] = <<1, 1>>
      PROVE  Len(t) = 2 /\ Len(Expanded(t)) = 2 /\ Java!Category(t[1].kind) = 1 /\ Java!Category(t[2].kind) = 1
  <2>1. Len(t) = 2 /\ Java!Category(t[1].kind) = 1 /\ Java!Category(t[2].kind) = 1
    BY <1>1, <1>4
  <2>2. Len(Expanded(t)) = Java!Category(t[1].kind) + Java!Category(t[2].kind)
    BY <2>1, CountsAll, Zenon
  <2> QED
    BY <2>1, <2>2
<1> QED
  BY <1>2, <1>3, <1>4

\* nop and the pops leave nothing in place of their values.
LEMMA PopsShaped ==
  ASSUME NEW t \in Seq(JavaValues), NEW code, NEW form \in Java!Forms[code], Taken(form, t)
  PROVE  /\ code = "nop" => Picked(t, form[2]) = <<>> /\ t = <<>>
         /\ code = "pop" => Picked(t, form[2]) = <<>> /\ Len(Expanded(t)) = 1
         /\ code = "pop2" => Picked(t, form[2]) = <<>> /\ Len(Expanded(t)) = 2
<1>1. CASE code = "nop"
  <2>1. form[1] = << >> /\ form[2] = << >>
    BY <1>1, FormsAre
  <2>2. Len(t) = 0
    BY <2>1, TakenFacts, Zenon
  <2>3. t = <<>>
    BY <2>2, EmptySeq
  <2> QED
    BY <1>1, <2>1, <2>3, PicksNone
<1>2. CASE code = "pop"
  <2>1. form[1] = <<1>> /\ form[2] = << >>
    BY <1>2, FormsAre
  <2>2. Len(Expanded(t)) = 1
    BY <2>1, TakenFacts, Zenon
  <2> QED
    BY <1>2, <2>1, <2>2, PicksNone
<1>3. CASE code = "pop2"
  <2>1. form[1] \in {<<1, 1>>, <<2>>} /\ form[2] = << >>
    BY <1>3, FormsAre
  <2>2. Len(Expanded(t)) = 2
    BY <2>1, TakenFacts, Zenon
  <2> QED
    BY <1>3, <2>1, <2>2, PicksNone
<1> QED
  BY <1>1, <1>2, <1>3

LEMMA DupsShaped ==
  ASSUME NEW t \in Seq(JavaValues), NEW code, NEW form \in Java!Forms[code], Taken(form, t)
  PROVE  /\ code = "dup" => Picked(t, form[2]) = t \o t /\ Len(Expanded(t)) = 1
         /\ code = "dup2" => Picked(t, form[2]) = t \o t /\ Len(Expanded(t)) = 2
<1>1. CASE code = "dup"
  <2>1. form[1] = <<1>> /\ form[2] = <<1, 1>>
    BY <1>1, FormsAre
  <2>2. Len(Expanded(t)) = 1 /\ Len(t) = 1
    BY <2>1, TakenFacts, Zenon
  <2>3. Picked(t, form[2]) = <<t[1], t[1]>>
    BY <2>1 DEF Picked
  <2>4. t \o t = <<t[1], t[1]>>
    BY <2>2, Doubled, Zenon
  <2> QED
    BY <1>1, <2>2, <2>3, <2>4, Zenon
<1>2. CASE code = "dup2"
  <2>1. form = << <<1, 1>>, <<1, 2, 1, 2>> >> \/ form = << <<2>>, <<1, 1>> >>
    BY <1>2, FormsAre
  <2>2. CASE form = << <<1, 1>>, <<1, 2, 1, 2>> >>
    <3>1. form[1] = <<1, 1>> /\ form[2] = <<1, 2, 1, 2>>
      BY <2>2
    <3>2. Len(Expanded(t)) = 2 /\ Len(t) = 2
      BY <3>1, TakenFacts, Zenon
    <3>3. Picked(t, form[2]) = <<t[1], t[2], t[1], t[2]>>
      BY <3>1 DEF Picked
    <3>4. t \o t = <<t[1], t[2], t[1], t[2]>>
      BY <3>2, Doubled, Zenon
    <3> QED
      BY <1>2, <3>2, <3>3, <3>4, Zenon
  <2>3. CASE form = << <<2>>, <<1, 1>> >>
    <3>1. form[1] = <<2>> /\ form[2] = <<1, 1>>
      BY <2>3
    <3>2. Len(Expanded(t)) = 2 /\ Len(t) = 1
      BY <3>1, TakenFacts, Zenon
    <3>3. Picked(t, form[2]) = <<t[1], t[1]>>
      BY <3>1 DEF Picked
    <3>4. t \o t = <<t[1], t[1]>>
      BY <3>2, Doubled, Zenon
    <3> QED
      BY <1>2, <3>2, <3>3, <3>4, Zenon
  <2> QED
    BY <2>1, <2>2, <2>3, Zenon
<1> QED
  BY <1>1, <1>2

Swapped(t, u) ==
    \E y, x \in Seq(JavaValues) : t = y \o x /\ u = x \o y /\ Len(Expanded(y)) = 1 /\ Len(Expanded(x)) = 1

LEMMA SwapShaped ==
  ASSUME NEW t \in Seq(JavaValues), NEW form \in Java!Forms["swap"], Taken(form, t)
  PROVE  Swapped(t, Picked(t, form[2]))
<1>1. form[1] = <<1, 1>> /\ form[2] = <<2, 1>>
  BY FormsAre
<1>2. Len(t) = 2 /\ Java!Category(t[1].kind) = 1 /\ Java!Category(t[2].kind) = 1
  BY <1>1, TakenFacts, Zenon
<1> DEFINE v == t[1]
           w == t[2]
<1>3. v \in JavaValues /\ w \in JavaValues
  <2>1. 1 \in 1 .. Len(t) /\ 2 \in 1 .. Len(t)
    BY <1>2
  <2> QED
    BY <2>1, ElementOfSeq
<1>4. t = <<v, w>> /\ Picked(t, form[2]) = <<w, v>>
  BY <1>1, <1>2 DEF Picked
<1>5. Java!Category(v.kind) = 1 /\ Java!Category(w.kind) = 1
  BY <1>2
<1> HIDE DEF v, w
<1>6. /\ <<v>> \in Seq(JavaValues) /\ <<w>> \in Seq(JavaValues)
      /\ Len(Expanded(<<v>>)) = 1 /\ Len(Expanded(<<w>>)) = 1
  BY <1>3, <1>5, CountsOne
<1>7. <<v, w>> = <<v>> \o <<w>> /\ <<w, v>> = <<w>> \o <<v>>
  BY <1>3, PairsConcat
<1> QED
  BY <1>4, <1>6, <1>7, Zenon DEF Swapped

LEMMA FormsOfValues ==
  ASSUME NEW code \in Java!StackCodes, NEW form \in Java!Forms[code]
  PROVE  Len(form[1]) \in Nat /\ DOMAIN form[1] = 1 .. Len(form[1])
<1>1. form[1] \in {<< >>, <<1>>, <<2>>, <<1, 1>>, <<1, 2>>, <<2, 1>>, <<2, 2>>, <<1, 1, 1>>, <<1, 1, 2>>,
                   <<2, 1, 1>>, <<1, 1, 1, 1>>}
  BY FormsAre DEF Java!StackCodes
<1> DEFINE x == form[1]
<1>2. x \in {<< >>, <<1>>, <<2>>, <<1, 1>>, <<1, 2>>, <<2, 1>>, <<2, 2>>, <<1, 1, 1>>, <<1, 1, 2>>,
              <<2, 1, 1>>, <<1, 1, 1, 1>>}
  BY <1>1
<1> HIDE DEF x
<1>3. Len(x) \in Nat /\ DOMAIN x = 1 .. Len(x)
  BY <1>2
<1> QED
  BY <1>3 DEF x
=============================================================================
