--------------------------- MODULE FiniteInduction ---------------------------
(* Induction over natural numbers and over finite sets.  The theorems of the  *)
(* library take an operator for what is shown; these take the set of what it  *)
(* has been shown of.                                                         *)
EXTENDS Integers, FiniteSets, FiniteSetTheorems, WellFoundedInduction, TLAPS

\* The order of the natural numbers, as a relation.
Below == {pair \in Nat \X Nat : pair[1] < pair[2]}

\* A set of natural numbers has a least element.
LEMMA Least ==
  ASSUME NEW S \in SUBSET Nat, S # {}
  PROVE  \E n \in S : \A m \in S : n <= m
  <1>1. IsWellFoundedOn(Below, Nat)
    BY NatLessThanWellFounded DEF OpToRel, Below
  <1>2. \E x \in S : \A y \in S : ~ (<<y, x>> \in Below)
    BY <1>1, WFMin
  <1>3. PICK x \in S : \A y \in S : ~ (<<y, x>> \in Below)
    BY <1>2
  <1>4. ASSUME NEW y \in S PROVE x <= y
    <2>1. <<y, x>> \in Nat \X Nat OBVIOUS
    <2>2. ~(y < x) BY <1>3, <2>1 DEF Below
    <2> QED BY <2>2
  <1> QED BY <1>4

\* A set that holds 0 and, with each number, the next one holds all of them.
LEMMA Induction ==
  ASSUME NEW S, 0 \in S, \A n \in Nat : n \in S => n + 1 \in S
  PROVE  Nat \subseteq S
  <1> SUFFICES ASSUME ~(Nat \subseteq S) PROVE FALSE OBVIOUS
  <1> DEFINE U == Nat \ S
  <1>1. PICK n \in U : \A m \in U : n <= m BY Least
  <1>2. n # 0 OBVIOUS
  <1>3. n - 1 \in Nat /\ n - 1 \notin U BY <1>1, <1>2
  <1> QED BY <1>1, <1>3

\* What holds of the empty set, and of a set when it holds of the sets with one
\* element less, holds of every subset of a finite set.
LEMMA SetInduction ==
  ASSUME NEW S, IsFiniteSet(S), NEW G, {} \in G,
         \A T \in SUBSET S : T # {} /\ (\A x \in T : T \ {x} \in G) => T \in G
  PROVE  SUBSET S \subseteq G
  <1> DEFINE N == {n \in Nat : \A T \in SUBSET S : Cardinality(T) = n => T \in G}
  <1>1. \A T \in SUBSET S : IsFiniteSet(T) /\ Cardinality(T) \in Nat
    BY FS_Subset, FS_CardinalityType
  <1>2. 0 \in N
    <2>1. \A T \in SUBSET S : Cardinality(T) = 0 => T = {}
      BY <1>1, FS_EmptySet
    <2> QED BY <2>1
  <1>3. ASSUME NEW n \in Nat, n \in N PROVE n + 1 \in N
    <2> SUFFICES ASSUME NEW T \in SUBSET S, Cardinality(T) = n + 1 PROVE T \in G
      OBVIOUS
    <2>1. T # {}
      <3>1. Cardinality({}) = 0 BY FS_EmptySet
      <3> QED BY <3>1
    <2>2. ASSUME NEW x \in T PROVE T \ {x} \in G
      <3>1. Cardinality(T \ {x}) = n
        <4>1. IsFiniteSet(T) BY <1>1
        <4>2. Cardinality(T \ {x}) = Cardinality(T) - 1 BY <4>1, <2>2, FS_RemoveElement
        <4> QED BY <4>2
      <3>2. T \ {x} \in SUBSET S OBVIOUS
      <3> QED BY <1>3, <3>1, <3>2
    <2> QED BY <2>1, <2>2
  <1> HIDE DEF N
  <1>4. Nat \subseteq N BY <1>2, <1>3, Induction
  <1> QED
    <2> SUFFICES ASSUME NEW T \in SUBSET S PROVE T \in G OBVIOUS
    <2>1. Cardinality(T) \in N BY <1>1, <1>4
    <2> QED BY <2>1 DEF N

\* What a fold over a set is made of: ch takes an element of each part of the
\* set, op combines it with what the rest comes to, base is for the empty set.
Folding(S, B, base, ch, op) ==
  /\ IsFiniteSet(S)
  /\ base \in B
  /\ \A T \in SUBSET S : T # {} => ch[T] \in T
  /\ op \in [S -> [B -> B]]

\* g says what it comes to for each part.
IsFold(g, S, B, base, ch, op) ==
  /\ g \in [SUBSET S -> B]
  /\ \A T \in SUBSET S : g[T] = IF T = {} THEN base ELSE op[ch[T]][g[T \ {ch[T]}]]

\* A fold over a finite set is defined: the recursion has a solution.
LEMMA FoldIsDefined ==
  ASSUME NEW S, NEW B, NEW base, NEW ch, NEW op, Folding(S, B, base, ch, op)
  PROVE  \E g : IsFold(g, S, B, base, ch, op)
  <1>0. /\ IsFiniteSet(S)
        /\ base \in B
        /\ \A T \in SUBSET S : T # {} => ch[T] \in T
        /\ op \in [S -> [B -> B]]
    BY DEF Folding
  <1> DEFINE Right(g, T) == g[T] = IF T = {} THEN base ELSE op[ch[T]][g[T \ {ch[T]}]]
             N == {n \in Nat : \E g \in [SUBSET S -> B] :
                     \A T \in SUBSET S : Cardinality(T) <= n => Right(g, T)}
  <1>1. \A T \in SUBSET S : IsFiniteSet(T) /\ Cardinality(T) \in Nat
    BY <1>0, FS_Subset, FS_CardinalityType
  <1>2. 0 \in N
    <2> DEFINE g == [T \in SUBSET S |-> base]
    <2>1. g \in [SUBSET S -> B] BY <1>0
    <2>2. \A T \in SUBSET S : Cardinality(T) <= 0 => T = {}
      BY <1>1, FS_EmptySet
    <2>3. \A T \in SUBSET S : Cardinality(T) <= 0 => Right(g, T) BY <2>2
    <2> QED BY <2>1, <2>3
  <1>3. ASSUME NEW n \in Nat, n \in N PROVE n + 1 \in N
    <2>1. PICK g \in [SUBSET S -> B] :
            \A T \in SUBSET S : Cardinality(T) <= n => Right(g, T)
      BY <1>3
    <2> DEFINE f == [T \in SUBSET S |-> IF Cardinality(T) = n + 1
                                        THEN op[ch[T]][g[T \ {ch[T]}]] ELSE g[T]]
    <2>2. ASSUME NEW T \in SUBSET S, T # {}
          PROVE  /\ ch[T] \in T /\ T \ {ch[T]} \in SUBSET S
                 /\ Cardinality(T \ {ch[T]}) = Cardinality(T) - 1
                 /\ op[ch[T]][g[T \ {ch[T]}]] \in B
      <3>1. ch[T] \in T BY <1>0, <2>2
      <3>2. T \ {ch[T]} \in SUBSET S OBVIOUS
      <3>3. Cardinality(T \ {ch[T]}) = Cardinality(T) - 1
        BY <3>1, <1>1, FS_RemoveElement
      <3>4. ch[T] \in S /\ g[T \ {ch[T]}] \in B BY <3>1, <3>2, <2>1
      <3> QED BY <1>0, <3>1, <3>2, <3>3, <3>4
    <2>5. \A T \in SUBSET S : f[T] = IF Cardinality(T) = n + 1
                                     THEN op[ch[T]][g[T \ {ch[T]}]] ELSE g[T]
      BY Zenon
    <2>6. Cardinality({}) = 0 BY FS_EmptySet
    <2>3. f \in [SUBSET S -> B]
      <3> SUFFICES ASSUME NEW T \in SUBSET S PROVE f[T] \in B BY Zenon
      <3> HIDE DEF f
      <3>1. CASE Cardinality(T) = n + 1
        <4>1. T # {}
          <5>1. Cardinality(T) # 0 BY <3>1
          <5> QED BY <5>1, <2>6
        <4>2. f[T] = op[ch[T]][g[T \ {ch[T]}]] BY <3>1, <2>5, Zenon
        <4> QED BY <4>2, <4>1, <2>2
      <3>2. CASE Cardinality(T) # n + 1
        <4>2. f[T] = g[T] BY <3>2, <2>5, Zenon
        <4> QED BY <4>2
      <3> QED BY <3>1, <3>2
    <2>4. ASSUME NEW T \in SUBSET S, Cardinality(T) <= n + 1 PROVE Right(f, T)
      <3> HIDE DEF f
      <3>1. CASE T = {}
        <4>1. Cardinality(T) = 0 BY <3>1, <2>6
        <4>4. Cardinality(T) # n + 1 BY <4>1
        <4>2. f[T] = g[T] BY <4>4, <2>5, Zenon
        <4>5. Cardinality(T) <= n BY <4>1
        <4>3. Right(g, T) BY <2>1, <4>5, Zenon
        <4> QED BY <3>1, <4>2, <4>3
      <3>2. CASE T # {}
        <4> DEFINE U == T \ {ch[T]}
        <4>1. U \in SUBSET S /\ Cardinality(U) = Cardinality(T) - 1 BY <3>2, <2>2
        <4>2. Cardinality(U) # n + 1 BY <4>1, <2>4, <1>1
        <4>3. f[U] = g[U] BY <4>1, <4>2, <2>5, Zenon
        <4>4. CASE Cardinality(T) = n + 1
          <5>1. f[T] = op[ch[T]][g[U]] BY <4>4, <2>5, Zenon
          <5> QED BY <5>1, <4>3, <3>2
        <4>5. CASE Cardinality(T) # n + 1
          <5>1. Cardinality(T) <= n BY <4>5, <2>4, <1>1
          <5>2. Right(g, T) BY <5>1, <2>1
          <5>3. f[T] = g[T] BY <4>5, <2>5, Zenon
          <5> QED BY <5>2, <5>3, <4>3, <3>2
        <4> QED BY <4>4, <4>5
      <3> QED BY <3>1, <3>2
    <2> HIDE DEF f, Right
    <2>7. \E e \in [SUBSET S -> B] :
            \A T \in SUBSET S : Cardinality(T) <= n + 1 => Right(e, T)
      BY <2>3, <2>4
    <2> QED BY <2>7
  <1>4. Nat \subseteq N
    <2> HIDE DEF N
    <2> QED BY <1>2, <1>3, Induction
  <1>5. Cardinality(S) \in N BY <1>4, <1>1
  <1>6. PICK g \in [SUBSET S -> B] :
          \A T \in SUBSET S : Cardinality(T) <= Cardinality(S) => Right(g, T)
    BY <1>5
  <1>7. \A T \in SUBSET S : Cardinality(T) <= Cardinality(S)
    BY <1>0, FS_Subset
  <1>8. \A T \in SUBSET S : Right(g, T) BY <1>6, <1>7
  <1> QED BY <1>8 DEF IsFold

\* The members of S that R puts before x, and those with fewer than k such.
Before(S, R, x) == {y \in S : <<y, x>> \in R}
FirstOf(S, R, k) == {x \in S : Cardinality(Before(S, R, x)) < k}

\* Of a finite set that R orders strictly, at least k are among the first k, or
\* all of them are.
LEMMA FirstAreEnough ==
  ASSUME NEW S, IsFiniteSet(S), NEW R,
         \A x \in S : <<x, x>> \notin R,
         \A x, y, z \in S : <<x, y>> \in R /\ <<y, z>> \in R => <<x, z>> \in R,
         NEW k \in Nat, k <= Cardinality(S)
  PROVE  Cardinality(FirstOf(S, R, k)) >= k
  <1> DEFINE N == {n \in Nat : n <= Cardinality(S) => Cardinality(FirstOf(S, R, n)) >= n}
             rank == [x \in S |-> Cardinality(Before(S, R, x))]
  <1>1. \A x \in S : IsFiniteSet(Before(S, R, x)) /\ rank[x] \in Nat
    <2> SUFFICES ASSUME NEW x \in S
                 PROVE  IsFiniteSet(Before(S, R, x)) /\ rank[x] \in Nat
      OBVIOUS
    <2>1. Before(S, R, x) \subseteq S BY DEF Before
    <2> QED BY <2>1, FS_Subset, FS_CardinalityType
  <1>2. \A n : IsFiniteSet(FirstOf(S, R, n)) /\ Cardinality(FirstOf(S, R, n)) \in Nat
    <2> SUFFICES ASSUME NEW n
                 PROVE  /\ IsFiniteSet(FirstOf(S, R, n))
                        /\ Cardinality(FirstOf(S, R, n)) \in Nat
      OBVIOUS
    <2>1. FirstOf(S, R, n) \subseteq S BY DEF FirstOf
    <2> QED BY <2>1, FS_Subset, FS_CardinalityType
  <1>3. 0 \in N BY <1>2
  <1>4. ASSUME NEW n \in Nat, n \in N PROVE n + 1 \in N
    <2> SUFFICES ASSUME n + 1 <= Cardinality(S)
                 PROVE  Cardinality(FirstOf(S, R, n + 1)) >= n + 1
      OBVIOUS
    <2> DEFINE L == FirstOf(S, R, n)
               M == FirstOf(S, R, n + 1)
    <2>1. Cardinality(S) \in Nat BY FS_CardinalityType
    <2>2. Cardinality(L) >= n BY <1>4, <2>1
    <2>3. L \subseteq M BY <1>1 DEF FirstOf
    <2>4. CASE Cardinality(L) >= n + 1
      <3>1. Cardinality(L) <= Cardinality(M) BY <1>2, <2>3, FS_Subset
      <3> QED BY <2>4, <3>1, <1>2
    <2>5. CASE Cardinality(L) = n
      <3> DEFINE D == {rank[x] : x \in S \ L}
      <3>1. S \ L # {}
        <4>1. L \subseteq S BY DEF FirstOf
        <4>2. L # S BY <2>5, <2>1
        <4> QED BY <4>1, <4>2
      <3>2. D \subseteq Nat /\ D # {} BY <1>1, <3>1
      <3> HIDE DEF D
      <3>3. PICK m \in D : \A i \in D : m <= i BY <3>2, Least
      <3>4. PICK x \in S \ L : rank[x] = m BY <3>3 DEF D
      <3>5. ASSUME NEW y \in Before(S, R, x), y \notin L PROVE FALSE
        <4>1. y \in S /\ <<y, x>> \in R BY <3>5 DEF Before
        <4>2. Before(S, R, y) \subseteq Before(S, R, x) BY <4>1, <3>4 DEF Before
        <4>3. y \in Before(S, R, x) /\ y \notin Before(S, R, y) BY <4>1, <3>5 DEF Before
        <4>4. Cardinality(Before(S, R, y)) < Cardinality(Before(S, R, x))
          <5>1. Before(S, R, y) # Before(S, R, x) BY <4>3
          <5>2. Cardinality(Before(S, R, y)) <= Cardinality(Before(S, R, x))
            BY <1>1, <3>4, <4>2, FS_Subset
          <5>3. Cardinality(Before(S, R, y)) # Cardinality(Before(S, R, x))
            BY <1>1, <3>4, <4>2, <5>1, FS_Subset
          <5> QED BY <5>2, <5>3, <1>1, <3>4, <4>1
        <4>5. rank[y] \in D BY <4>1, <3>5 DEF D
        <4>6. m <= rank[y] BY <3>3, <4>5
        <4> QED BY <4>1, <4>4, <4>6, <3>4, <1>1
      <3>6. Before(S, R, x) \subseteq L BY <3>5
      <3>7. Cardinality(Before(S, R, x)) <= n
        BY <3>6, <1>2, <2>5, FS_Subset
      <3>8. x \in M BY <3>7, <3>4, <1>1 DEF FirstOf
      <3>9. Cardinality(L \cup {x}) = n + 1
        <4>1. x \notin L BY <3>4
        <4> QED BY <4>1, <1>2, <2>5, FS_AddElement
      <3>10. Cardinality(L \cup {x}) <= Cardinality(M)
        BY <2>3, <3>8, <1>2, FS_Subset
      <3> QED BY <3>9, <3>10, <1>2
    <2> QED BY <2>2, <2>4, <2>5, <1>2
  <1> HIDE DEF N
  <1>5. Nat \subseteq N BY <1>3, <1>4, Induction
  <1>6. k \in N BY <1>5
  <1> QED BY <1>6 DEF N
==============================================================================
