---------------------------- MODULE FoldTheorems ----------------------------
(***************************************************************************)
(* Induction over numbers and over the recursion of a fold, in first-order *)
(* form.  A fold is a recursive function over the subsets of a finite set: *)
(* of each it takes one element, and goes on with what it has made of the  *)
(* others.                                                                 *)
(***************************************************************************)
EXTENDS Integers, FiniteSetTheorems, WellFoundedInduction, TLAPS

\* A set of natural numbers that has 0 and with each number the next has all.
LEMMA AllNumbers ==
    ASSUME NEW P, 0 \in P, \A n \in Nat : n \in P => n + 1 \in P
    PROVE  \A n \in Nat : n \in P
<1> DEFINE Missing == {n \in Nat : n \notin P}
<1> SUFFICES ASSUME Missing # {} PROVE FALSE
  OBVIOUS
<1>1. IsWellFoundedOn(OpToRel(<, Nat), Nat) /\ Missing \subseteq Nat
  BY NatLessThanWellFounded
<1>2. PICK n \in Missing : \A k \in Missing : ~ (<<k, n>> \in OpToRel(<, Nat))
  <2> HIDE DEF Missing
  <2> QED BY <1>1, WFMin
<1>3. n \in Nat /\ n # 0 /\ n - 1 \in Nat /\ n - 1 < n
  <2>1. n \in Nat /\ n # 0
    BY <1>2
  <2> QED BY <2>1
<1>4. n - 1 \notin Missing
  BY <1>2, <1>3 DEF OpToRel
<1>5. n \in P
  <2>1. n - 1 \in P /\ (n - 1) + 1 = n
    BY <1>3, <1>4
  <2> QED BY <2>1, <1>3
<1> QED BY <1>2, <1>5

\* The same up to a bound.
LEMMA NumbersUpto ==
    ASSUME NEW P, NEW m \in Nat, 0 \in P,
           \A n \in Nat : n < m /\ n \in P => n + 1 \in P
    PROVE  \A n \in 0 .. m : n \in P
<1> DEFINE Q == {n \in Nat : n <= m => n \in P}
<1>1. 0 \in Q
  OBVIOUS
<1>2. \A n \in Nat : n \in Q => n + 1 \in Q
  OBVIOUS
<1>3. \A n \in Nat : n \in Q
  <2> HIDE DEF Q
  <2> QED BY <1>1, <1>2, AllNumbers
<1> QED BY <1>3

\* A set without one of its elements.
LEMMA OneLess ==
    ASSUME NEW S, IsFiniteSet(S), NEW x \in S
    PROVE  /\ IsFiniteSet(S \ {x}) /\ Cardinality(S) \in Nat /\ Cardinality(S) # 0
           /\ Cardinality(S \ {x}) = Cardinality(S) - 1
  BY FS_RemoveElement, FS_EmptySet, FS_CardinalityType

\* What a fold makes of the subset T, f of each of them: step[x][v] is what it
\* makes of x and of the value v of the others.
Folded(f, T, base, pick, step) ==
    f[T] = IF T = {} THEN base ELSE step[pick[T]][f[T \ {pick[T]}]]

\* The function of a fold exists, and gives values of D, if its steps do.
LEMMA FoldExists ==
    ASSUME NEW S, IsFiniteSet(S), NEW D, NEW base \in D,
           NEW pick, \A T \in SUBSET S : T # {} => pick[T] \in T,
           NEW step, \A x \in S, v \in D : step[x][v] \in D
    PROVE  \E f \in [SUBSET S -> D] : \A T \in SUBSET S : Folded(f, T, base, pick, step)
<1> DEFINE More(f) == [T \in SUBSET S |-> IF T = {} THEN base
                                          ELSE step[pick[T]][f[T \ {pick[T]}]]]
           Upto(f, n) == \A T \in SUBSET S :
                            Cardinality(T) <= n => Folded(f, T, base, pick, step)
           P == {n \in Nat : \E f \in [SUBSET S -> D] : Upto(f, n)}
<1>1. \A T \in SUBSET S : IsFiniteSet(T) /\ Cardinality(T) \in Nat
  BY FS_Subset, FS_CardinalityType
<1>2. 0 \in P
  <2>1. \A T \in SUBSET S : Cardinality(T) <= 0 => T = {}
    BY <1>1, FS_EmptySet
  <2>2. Upto([T \in SUBSET S |-> base], 0)
    BY <2>1 DEF Folded
  <2>3. [T \in SUBSET S |-> base] \in [SUBSET S -> D]
    OBVIOUS
  <2> QED BY <2>2, <2>3
<1>3. ASSUME NEW n \in Nat, n \in P PROVE n + 1 \in P
  <2>1. PICK f \in [SUBSET S -> D] : Upto(f, n)
    BY <1>3
  <2>2. PICK g : g = More(f)
    OBVIOUS
  <2>3. \A T \in SUBSET S : T # {} => T \ {pick[T]} \in SUBSET S /\ pick[T] \in S
    OBVIOUS
  <2>4. g \in [SUBSET S -> D]
    BY <2>2, <2>3
  <2>5. \A T \in SUBSET S : Cardinality(T) <= n => g[T] = f[T]
    BY <2>1, <2>2 DEF Folded
  <2>6. ASSUME NEW T \in SUBSET S, Cardinality(T) <= n + 1
        PROVE  Folded(g, T, base, pick, step)
    <3>1. CASE T = {}
      BY <2>2, <3>1 DEF Folded
    <3>2. CASE T # {}
      <4>1. T \ {pick[T]} \in SUBSET S /\ Cardinality(T \ {pick[T]}) <= n
        BY <1>1, <2>6, <3>2, OneLess
      <4>2. g[T \ {pick[T]}] = f[T \ {pick[T]}]
        BY <2>5, <4>1
      <4> QED BY <2>2, <3>2, <4>2 DEF Folded
    <3> QED BY <3>1, <3>2
  <2>7. Upto(g, n + 1)
    BY <2>6
  <2> HIDE DEF Upto
  <2> QED BY <2>4, <2>7
<1>4. PICK f \in [SUBSET S -> D] : Upto(f, Cardinality(S))
  <2>1. \A n \in Nat : n \in P
    <3> HIDE DEF P
    <3> QED BY <1>2, <1>3, AllNumbers
  <2> QED BY <1>1, <2>1
<1>5. \A T \in SUBSET S : Folded(f, T, base, pick, step)
  BY <1>4, FS_Subset
<1> QED BY <1>5

\* The greatest number of a set, as FoldLeft takes it.
Greatest(T) == CHOOSE x \in T : \A y \in T : x >= y

\* A set of numbers up to n has a greatest one.
LEMMA GreatestIn ==
    ASSUME NEW n \in Nat, NEW T \in SUBSET (1 .. n), T # {}
    PROVE  Greatest(T) \in T
<1> DEFINE P == {k \in Nat : T \cap 1 .. k # {} =>
                                \E x \in T \cap 1 .. k : \A y \in T \cap 1 .. k : x >= y}
<1>1. 0 \in P
  OBVIOUS
<1>2. ASSUME NEW k \in Nat, k \in P PROVE k + 1 \in P
  <2>1. 1 .. k + 1 = (1 .. k) \cup {k + 1}
    OBVIOUS
  <2>2. CASE k + 1 \in T
    <3>1. k + 1 \in T \cap 1 .. k + 1 /\ \A y \in T \cap 1 .. k + 1 : k + 1 >= y
      BY <2>2
    <3> QED BY <3>1
  <2>3. CASE k + 1 \notin T
    <3>1. T \cap 1 .. k + 1 = T \cap 1 .. k
      BY <2>1, <2>3
    <3> QED BY <1>2, <3>1
  <2> QED BY <2>2, <2>3
<1>3. n \in P
  <2> HIDE DEF P
  <2> QED BY <1>1, <1>2, AllNumbers
<1>4. T \cap 1 .. n = T
  OBVIOUS
<1> QED BY <1>3, <1>4 DEF Greatest

\* The least of a set of numbers.
LEMMA LeastIn ==
    ASSUME NEW S \in SUBSET Nat, S # {}
    PROVE  (CHOOSE x \in S : \A y \in S : x =< y) \in S
<1>1. IsWellFoundedOn(OpToRel(<, Nat), Nat)
  BY NatLessThanWellFounded
<1>2. PICK n \in S : \A k \in S : ~ (<<k, n>> \in OpToRel(<, Nat))
  BY <1>1, WFMin
<1>3. ASSUME NEW k \in S PROVE n =< k
  <2>1. k \in Nat /\ n \in Nat
    OBVIOUS
  <2>2. ~ (k < n)
    BY <1>2, <2>1 DEF OpToRel
  <2> QED BY <2>1, <2>2
<1> QED BY <1>3

\* The greatest of the numbers up to k is k.
LEMMA GreatestOf ==
    ASSUME NEW k \in Nat, k # 0
    PROVE  Greatest(1 .. k) = k /\ (1 .. k) \ {k} = 1 .. k - 1
  BY DEF Greatest

\* The function f of a fold over the numbers up to n takes them in order.
Climbs(f, n, D, base, step) ==
    /\ f[{}] = base
    /\ \A k \in 1 .. n : f[1 .. k - 1] \in D => f[1 .. k] = step[k][f[1 .. k - 1]]

\* The values of a fold on its way from none of the numbers up to n to all.
Chain(a, n, base, step, result) ==
    a[0] = base /\ a[n] = result /\ \A k \in 1 .. n : a[k] = step[k][a[k - 1]]

LEMMA Trace ==
    ASSUME NEW n \in Nat, NEW D, NEW base \in D,
           NEW step, \A k \in 1 .. n, v \in D : step[k][v] \in D,
           NEW f, Climbs(f, n, D, base, step)
    PROVE  \E a \in [0 .. n -> D] : Chain(a, n, base, step, f[1 .. n])
<1> DEFINE a == [k \in 0 .. n |-> f[1 .. k]]
           P == {k \in Nat : k <= n => f[1 .. k] \in D}
<1>1. 1 .. 0 = {}
  OBVIOUS
<1>2. 0 \in P
  BY <1>1 DEF Climbs
<1>3. ASSUME NEW k \in Nat, k \in P PROVE k + 1 \in P
  <2> SUFFICES ASSUME k + 1 <= n PROVE f[1 .. k + 1] \in D
    OBVIOUS
  <2>1. k + 1 \in 1 .. n /\ (k + 1) - 1 = k
    OBVIOUS
  <2>2. f[1 .. (k + 1) - 1] \in D
    BY <1>3, <2>1
  <2> QED BY <2>1, <2>2 DEF Climbs
<1>4. \A k \in Nat : k \in P
  <2> HIDE DEF P
  <2> QED BY <1>2, <1>3, AllNumbers
<1>5. a \in [0 .. n -> D]
  BY <1>4
<1>6. ASSUME NEW k \in 1 .. n PROVE a[k] = step[k][a[k - 1]]
  <2>1. k \in 0 .. n /\ k - 1 \in 0 .. n /\ k - 1 \in Nat
    OBVIOUS
  <2>2. f[1 .. k - 1] \in D
    BY <1>4, <2>1
  <2> QED BY <2>1, <2>2 DEF Climbs
<1>7. a[0] = base /\ a[n] = f[1 .. n]
  BY <1>1 DEF Climbs
<1> HIDE DEF a
<1> QED BY <1>5, <1>6, <1>7 DEF Chain

\* FoldLeft takes the greatest number first.
LEMMA ChainFacts ==
  ASSUME NEW n \in Nat
  PROVE  /\ IsFiniteSet(1 .. n)
         /\ \A T \in SUBSET (1 .. n) : T # {} => Greatest(T) \in T
         /\ \A k \in 1 .. n : /\ 1 .. k \in SUBSET (1 .. n) /\ 1 .. k # {}
                              /\ Greatest(1 .. k) = k /\ (1 .. k) \ {k} = 1 .. k - 1
<1>1. IsFiniteSet(1 .. n)
  BY FS_Interval
<1>2. \A T \in SUBSET (1 .. n) : T # {} => Greatest(T) \in T
  BY GreatestIn
<1>3. ASSUME NEW k \in 1 .. n
      PROVE  /\ 1 .. k \in SUBSET (1 .. n) /\ 1 .. k # {}
             /\ Greatest(1 .. k) = k /\ (1 .. k) \ {k} = 1 .. k - 1
  <2>1. k \in Nat /\ k # 0 /\ k \in 1 .. k
    OBVIOUS
  <2> QED BY <2>1, GreatestOf
<1> QED BY <1>1, <1>2, <1>3
=============================================================================
