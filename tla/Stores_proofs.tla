---------------------------- MODULE Stores_proofs ----------------------------
(* Theorems about DiskStore and MemoryStore, for any number of torrents, of    *)
(* handles and of engine threads, torrents, pieces and blocks of any length;   *)
(* the first lemmas are about what Extents computes: inserting a range adds    *)
(* its bytes and keeps the spans apart, the sizes are numbers of bytes, and a  *)
(* list of spans that are apart is read back as it was written.                *)
EXTENDS DiskStore, MemoryStore, FiniteInduction

-----------------------------------------------------------------------------
(* Ranges. *)

\* Of spans that are apart, a range absorbs those it meets or touches.
LEMMA AbsorbedTouch ==
  ASSUME NEW S, Canonical(S), NEW a \in Nat, NEW b \in Nat, a <= b
  PROVE  Absorbed(S, a, b) = {s \in S : s[1] <= b /\ s[2] >= a}
  <1> USE DEF Canonical, Span
  <1>1. ASSUME NEW s \in S, s[1] <= a, s[2] >= a
        PROVE  s \in LastUpTo(S, a)
    <2> SUFFICES ASSUME NEW u \in S, u[1] <= a PROVE u[1] <= s[1]
      BY <1>1 DEF LastUpTo
    <2>1. u = s \/ s[2] < u[1] \/ u[2] < s[1] OBVIOUS
    <2> QED BY <2>1, <1>1
  <1>2. \A s \in LastUpTo(S, a) : s \in S /\ s[1] <= a BY DEF LastUpTo
  <1>3. \A s \in S : s[1] \in Nat /\ s[2] \in Nat OBVIOUS
  <1> QED BY <1>1, <1>2, <1>3 DEF Absorbed

\* The merged span reaches over all of them, and ends where one of them or the
\* range does.
LEMMA MergedAre ==
  ASSUME NEW S, Canonical(S), NEW a \in Nat, NEW b \in Nat, a < b
  PROVE  LET A == {s \in S : s[1] <= b /\ s[2] >= a}
             x == MergedStart(S, a, b)
             y == MergedEnd(S, a, b)
         IN  /\ x \in Nat /\ y \in Nat /\ x <= a /\ b <= y
             /\ \A s \in A : x <= s[1] /\ s[2] <= y
             /\ x = a \/ \E s \in A : s[1] = x
             /\ y = b \/ \E s \in A : s[2] = y
  <1> DEFINE A == Absorbed(S, a, b)
             x == MergedStart(S, a, b)
             y == MergedEnd(S, a, b)
  <1>1. A = {s \in S : s[1] <= b /\ s[2] >= a} BY AbsorbedTouch
  <1>2. \A s \in A : /\ s \in S /\ s[1] \in Nat /\ s[2] \in Nat /\ s[1] < s[2]
                     /\ s[1] <= b /\ s[2] >= a
    BY <1>1 DEF Canonical, Span
  <1>3. \A s, u \in A : s # u => s[2] < u[1] \/ u[2] < s[1]
    BY <1>2 DEF Canonical
  <1> HIDE DEF A
  <1>4. x \in Nat /\ x <= a /\ (\A s \in A : x <= s[1]) /\ (x = a \/ \E s \in A : s[1] = x)
    <2>1. CASE \E s \in A : s[1] < a
      <3> DEFINE p == CHOOSE s \in A : s[1] < a
      <3>1. p \in A /\ p[1] < a BY <2>1
      <3>2. x = p[1] BY <2>1 DEF MergedStart, A
      <3> HIDE DEF p
      <3>3. ASSUME NEW s \in A PROVE p[1] <= s[1]
        <4>1. p = s \/ p[2] < s[1] \/ s[2] < p[1] BY <3>1, <1>3
        <4> QED BY <4>1, <3>1, <1>2
      <3> QED BY <3>1, <3>2, <3>3, <1>2
    <2>2. CASE ~ \E s \in A : s[1] < a
      <3>1. x = a BY <2>2 DEF MergedStart, A
      <3> QED BY <3>1, <2>2, <1>2
    <2> QED BY <2>1, <2>2
  <1>5. y \in Nat /\ b <= y /\ (\A s \in A : s[2] <= y) /\ (y = b \/ \E s \in A : s[2] = y)
    <2>1. CASE \E s \in A : s[2] > b
      <3> DEFINE p == CHOOSE s \in A : s[2] > b
      <3>1. p \in A /\ p[2] > b BY <2>1
      <3>2. y = p[2] BY <2>1 DEF MergedEnd, A
      <3> HIDE DEF p
      <3>3. ASSUME NEW s \in A PROVE s[2] <= p[2]
        <4>1. p = s \/ p[2] < s[1] \/ s[2] < p[1] BY <3>1, <1>3
        <4> QED BY <4>1, <3>1, <1>2
      <3> QED BY <3>1, <3>2, <3>3, <1>2
    <2>2. CASE ~ \E s \in A : s[2] > b
      <3>1. y = b BY <2>2 DEF MergedEnd, A
      <3> QED BY <3>1, <2>2, <1>2
    <2> QED BY <2>1, <2>2
  <1> QED BY <1>1, <1>4, <1>5

\* Extents::insert: the bytes of the range are added and the spans stay apart.
LEMMA InsertAdds ==
  ASSUME NEW S, Canonical(S), NEW a \in Nat, NEW b \in Nat, a < b
  PROVE  /\ Canonical(Insert(S, a, b))
         /\ Covered(Insert(S, a, b)) = Covered(S) \cup Bytes(a, b)
  <1> DEFINE A == {s \in S : s[1] <= b /\ s[2] >= a}
             x == MergedStart(S, a, b)
             y == MergedEnd(S, a, b)
             I == (S \ A) \cup {<<x, y>>}
  <1>1. Insert(S, a, b) = I BY AbsorbedTouch DEF Insert
  <1>2. /\ x \in Nat /\ y \in Nat /\ x <= a /\ b <= y
        /\ \A s \in A : x <= s[1] /\ s[2] <= y
        /\ x = a \/ \E s \in A : s[1] = x
        /\ y = b \/ \E s \in A : s[2] = y
    BY MergedAre
  <1>3. \A s \in S : s \in Nat \X Nat /\ s[1] \in Nat /\ s[2] \in Nat /\ s[1] < s[2]
    BY DEF Canonical, Span
  <1>4. \A s, u \in S : s # u => s[2] < u[1] \/ u[2] < s[1]
    BY DEF Canonical
  <1>5. ASSUME NEW s \in S \ A PROVE s[2] < x \/ y < s[1]
    <2>1. s[1] > b \/ s[2] < a BY <1>3
    <2>2. CASE s[1] > b
      <3>1. ASSUME NEW u \in A, u[2] = y PROVE y < s[1]
        <4>1. u # s OBVIOUS
        <4>2. u[2] < s[1] \/ s[2] < u[1] BY <4>1, <1>4
        <4> QED BY <4>2, <3>1, <2>2, <1>3
      <3> QED BY <3>1, <2>2, <1>2
    <2>3. CASE s[2] < a
      <3>1. ASSUME NEW u \in A, u[1] = x PROVE s[2] < x
        <4>1. u # s OBVIOUS
        <4>2. u[2] < s[1] \/ s[2] < u[1] BY <4>1, <1>4
        <4> QED BY <4>2, <3>1, <2>3, <1>3
      <3> QED BY <3>1, <2>3, <1>2
    <2> QED BY <2>1, <2>2, <2>3
  <1> HIDE DEF x, y
  <1>6. Canonical(I)
    <2>1. I \subseteq Span
      <3>1. <<x, y>> \in Span BY <1>2 DEF Span
      <3> QED BY <3>1, <1>3 DEF Span
    <2>2. ASSUME NEW s \in I, NEW u \in I, s # u PROVE s[2] < u[1] \/ u[2] < s[1]
      <3>1. CASE s \in S \ A /\ u \in S \ A BY <3>1, <2>2, <1>4
      <3>2. CASE s \in S \ A /\ u = <<x, y>> BY <3>2, <1>5
      <3>3. CASE u \in S \ A /\ s = <<x, y>> BY <3>3, <1>5
      <3> QED BY <3>1, <3>2, <3>3, <2>2
    <2> QED BY <2>1, <2>2 DEF Canonical
  <1>7. Covered(I) \subseteq Covered(S) \cup Bytes(a, b)
    <2> SUFFICES ASSUME NEW i, NEW s \in I, i \in Bytes(s[1], s[2])
                 PROVE  i \in Covered(S) \cup Bytes(a, b)
      BY DEF Covered
    <2>1. CASE s \in S BY <2>1 DEF Covered
    <2>2. CASE s = <<x, y>>
      <3>1. i \in Nat /\ x <= i /\ i < y
        <4>1. i \in x .. (y - 1) BY <2>2 DEF Bytes
        <4> QED BY <4>1, <1>2
      <3>2. CASE i < a
        <4>1. PICK u \in A : u[1] = x BY <3>1, <3>2, <1>2
        <4>2. i \in Bytes(u[1], u[2]) BY <4>1, <3>1, <3>2, <1>3 DEF Bytes
        <4> QED BY <4>2 DEF Covered
      <3>3. CASE i >= b
        <4>1. PICK u \in A : u[2] = y BY <3>1, <3>3, <1>2
        <4>2. i \in Bytes(u[1], u[2]) BY <4>1, <3>1, <3>3, <1>3 DEF Bytes
        <4> QED BY <4>2 DEF Covered
      <3>4. CASE a <= i /\ i < b BY <3>4, <3>1 DEF Bytes
      <3> QED BY <3>1, <3>2, <3>3, <3>4
    <2> QED BY <2>1, <2>2
  <1>8. Covered(S) \cup Bytes(a, b) \subseteq Covered(I)
    <2>1. <<x, y>> \in I OBVIOUS
    <2>2. Bytes(x, y) \subseteq Covered(I)
      <3>1. <<x, y>>[1] = x /\ <<x, y>>[2] = y OBVIOUS
      <3> HIDE DEF I
      <3> QED BY <2>1, <3>1 DEF Covered
    <2>3. Bytes(a, b) \subseteq Bytes(x, y) BY <1>2 DEF Bytes
    <2>4. ASSUME NEW s \in S PROVE Bytes(s[1], s[2]) \subseteq Covered(I)
      <3>1. CASE s \in A
        <4>1. Bytes(s[1], s[2]) \subseteq Bytes(x, y)
          BY <3>1, <1>2, <1>3 DEF Bytes
        <4> QED BY <4>1, <2>2
      <3>2. CASE s \notin A BY <3>2 DEF Covered
      <3> QED BY <3>1, <3>2
    <2> QED BY <2>2, <2>3, <2>4 DEF Covered
  <1> QED BY <1>1, <1>6, <1>7, <1>8

\* Extents::covers, when it says yes.
LEMMA CoversMeans ==
  ASSUME NEW S, Canonical(S), NEW a \in Nat, NEW b \in Nat, Covers(S, a, b)
  PROVE  Bytes(a, b) \subseteq Covered(S)
  <1>1. CASE a = b BY <1>1 DEF Bytes
  <1>2. CASE a # b
    <2>1. PICK s \in S : s[1] <= a /\ s[2] >= b
      BY <1>2 DEF Covers, LastUpTo
    <2>2. s[1] \in Nat /\ s[2] \in Nat BY DEF Canonical, Span
    <2>3. Bytes(a, b) \subseteq Bytes(s[1], s[2]) BY <2>1, <2>2 DEF Bytes
    <2> QED BY <2>3 DEF Covered
  <1> QED BY <1>1, <1>2

-----------------------------------------------------------------------------
(* Sizes. *)

\* A range has as many bytes as it is long.
LEMMA BytesCount ==
  ASSUME NEW a \in Nat, NEW b \in Nat, a <= b
  PROVE  IsFiniteSet(Bytes(a, b)) /\ Cardinality(Bytes(a, b)) = b - a
  <1>1. b - 1 \in Int OBVIOUS
  <1>2. IsFiniteSet(a .. (b - 1))
        /\ Cardinality(a .. (b - 1)) = IF a > b - 1 THEN 0 ELSE (b - 1) - a + 1
    BY <1>1, FS_Interval
  <1> QED BY <1>2 DEF Bytes

\* Spans that are apart stay so when some are left out.
LEMMA PartOfCanonical ==
  ASSUME NEW S, Canonical(S), NEW T \in SUBSET S
  PROVE  Canonical(T)
  BY DEF Canonical

\* The bytes of a span and those of the others.
LEMMA CoveredWithout ==
  ASSUME NEW S, Canonical(S), NEW s \in S
  PROVE  /\ Covered(S) = Covered(S \ {s}) \cup Bytes(s[1], s[2])
         /\ Covered(S \ {s}) \cap Bytes(s[1], s[2]) = {}
  <1>1. Covered(S) = Covered(S \ {s}) \cup Bytes(s[1], s[2]) BY DEF Covered
  <1>2. ASSUME NEW u \in S \ {s} PROVE Bytes(u[1], u[2]) \cap Bytes(s[1], s[2]) = {}
    <2>1. u[2] < s[1] \/ s[2] < u[1] BY DEF Canonical
    <2>2. u[1] \in Nat /\ u[2] \in Nat /\ s[1] \in Nat /\ s[2] \in Nat
      BY DEF Canonical, Span
    <2> QED BY <2>1, <2>2 DEF Bytes
  <1>3. Covered(S \ {s}) \cap Bytes(s[1], s[2]) = {} BY <1>2 DEF Covered
  <1> QED BY <1>1, <1>3

\* Finitely many spans cover finitely many bytes.
LEMMA CoveredIsFinite ==
  ASSUME NEW S, Canonical(S), IsFiniteSet(S)
  PROVE  IsFiniteSet(Covered(S)) /\ Cardinality(Covered(S)) \in Nat
  <1> DEFINE G == {T \in SUBSET S : IsFiniteSet(Covered(T))}
  <1>1. {} \in G
    <2>1. Covered({}) = {} BY DEF Covered
    <2> QED BY <2>1, FS_EmptySet
  <1>2. ASSUME NEW T \in SUBSET S, T # {}, \A x \in T : T \ {x} \in G
        PROVE  T \in G
    <2>1. PICK s \in T : TRUE BY <1>2
    <2>2. Canonical(T) BY PartOfCanonical
    <2>3. Covered(T) = Covered(T \ {s}) \cup Bytes(s[1], s[2]) BY <2>2, CoveredWithout
    <2>4. s[1] \in Nat /\ s[2] \in Nat /\ s[1] <= s[2] BY DEF Canonical, Span
    <2>5. IsFiniteSet(Bytes(s[1], s[2])) BY <2>4, BytesCount
    <2>6. IsFiniteSet(Covered(T \ {s})) BY <1>2
    <2> QED BY <2>3, <2>5, <2>6, FS_Union
  <1> HIDE DEF G
  <1>3. SUBSET S \subseteq G BY <1>1, <1>2, SetInduction
  <1> QED BY <1>3, FS_CardinalityType DEF G

\* Extents::total is the number of bytes.
LEMMA SizeIsCount ==
  ASSUME NEW S, Canonical(S), IsFiniteSet(S)
  PROVE  Size(S) = Cardinality(Covered(S))
  <1> DEFINE next(T, n) == LET x == CHOOSE y \in T : TRUE IN (x[2] - x[1]) + n[T \ {x}]
             Sums(g) == g = [T \in SUBSET S |-> IF T = {} THEN 0 ELSE next(T, g)]
             g == CHOOSE e : Sums(e)
             count == [T \in SUBSET S |-> Cardinality(Covered(T))]
  <1>1. Size(S) = g[S] BY Zenon DEF Size, MapThenSumSet, MapThenFoldSet
  <1>2. Cardinality(Covered({})) = 0
    <2>1. Covered({}) = {} BY DEF Covered
    <2> QED BY <2>1, FS_EmptySet
  <1>3. ASSUME NEW T \in SUBSET S, NEW s \in T
        PROVE  Cardinality(Covered(T)) = (s[2] - s[1]) + Cardinality(Covered(T \ {s}))
    <2>1. Canonical(T) /\ IsFiniteSet(T) BY PartOfCanonical, FS_Subset
    <2>2. Canonical(T \ {s}) /\ IsFiniteSet(T \ {s}) BY <2>1, PartOfCanonical, FS_Subset
    <2>3. s[1] \in Nat /\ s[2] \in Nat /\ s[1] <= s[2] BY DEF Canonical, Span
    <2>4. /\ IsFiniteSet(Bytes(s[1], s[2]))
          /\ Cardinality(Bytes(s[1], s[2])) = s[2] - s[1]
      BY <2>3, BytesCount
    <2>5. IsFiniteSet(Covered(T \ {s})) /\ Cardinality(Covered(T \ {s})) \in Nat
      BY <2>2, CoveredIsFinite
    <2>6. /\ Covered(T) = Covered(T \ {s}) \cup Bytes(s[1], s[2])
          /\ Covered(T \ {s}) \cap Bytes(s[1], s[2]) = {}
      BY <2>1, CoveredWithout
    <2>7. Cardinality(Covered(T)) = Cardinality(Covered(T \ {s})) + Cardinality(Bytes(s[1], s[2]))
          - Cardinality({})
      BY <2>4, <2>5, <2>6, FS_Union
    <2> QED BY <2>3, <2>4, <2>5, <2>7, FS_EmptySet
  <1>4. \A T \in SUBSET S : T # {} => (CHOOSE y \in T : TRUE) \in T OBVIOUS
  <1>5. Sums(count)
    <2>1. ASSUME NEW T \in SUBSET S
          PROVE  Cardinality(Covered(T)) = IF T = {} THEN 0 ELSE next(T, count)
      <3>1. CASE T = {} BY <3>1, <1>2
      <3>2. CASE T # {}
        <4> DEFINE x == CHOOSE y \in T : TRUE
        <4>1. x \in T BY <3>2
        <4> HIDE DEF x
        <4>2. count[T \ {x}] = Cardinality(Covered(T \ {x})) OBVIOUS
        <4>3. Cardinality(Covered(T)) = (x[2] - x[1]) + count[T \ {x}] BY <4>1, <4>2, <1>3
        <4> QED BY <4>3, <3>2 DEF x
      <3> QED BY <3>1, <3>2
    <2> HIDE DEF next
    <2>2. \A T \in SUBSET S : count[T] = IF T = {} THEN 0 ELSE next(T, count)
      BY <2>1
    <2> QED BY <2>2
  <1>6. Sums(g) BY <1>5
  <1>7. \A T \in SUBSET S : g[T] = IF T = {} THEN 0 ELSE next(T, g)
    <2> HIDE DEF g, next
    <2> QED BY <1>6
  <1> HIDE DEF g, Sums, count
  <1> DEFINE G == {T \in SUBSET S : g[T] = Cardinality(Covered(T))}
  <1>8. {} \in G BY <1>2, <1>7
  <1>9. ASSUME NEW T \in SUBSET S, T # {}, \A x \in T : T \ {x} \in G
        PROVE  T \in G
    <2> DEFINE x == CHOOSE y \in T : TRUE
    <2>1. x \in T BY <1>9
    <2>2. g[T] = (x[2] - x[1]) + g[T \ {x}] BY <1>7, <1>9
    <2> HIDE DEF x
    <2>3. g[T \ {x}] = Cardinality(Covered(T \ {x})) BY <2>1, <1>9
    <2>4. g[T] = Cardinality(Covered(T)) BY <2>1, <2>2, <2>3, <1>3
    <2> QED BY <2>4
  <1> HIDE DEF G
  <1>10. SUBSET S \subseteq G BY <1>8, <1>9, SetInduction
  <1>11. g[S] = Cardinality(Covered(S)) BY <1>10 DEF G
  <1> QED BY <1>1, <1>11

\* What Extents::insert returns is the number of bytes that were not there.
LEMMA AddedIsNew ==
  ASSUME NEW S, Canonical(S), IsFiniteSet(S), NEW a \in Nat, NEW b \in Nat, a < b
  PROVE  Added(S, a, b) = Cardinality(Bytes(a, b) \ Covered(S))
  <1> DEFINE A == {s \in S : s[1] <= b /\ s[2] >= a}
             x == MergedStart(S, a, b)
             y == MergedEnd(S, a, b)
             new == Bytes(a, b) \ Covered(S)
  <1>1. /\ x \in Nat /\ y \in Nat /\ x <= a /\ b <= y
        /\ \A s \in A : x <= s[1] /\ s[2] <= y
        /\ x = a \/ \E s \in A : s[1] = x
        /\ y = b \/ \E s \in A : s[2] = y
    BY MergedAre
  <1>2. \A s \in S : s[1] \in Nat /\ s[2] \in Nat /\ s[1] < s[2]
    BY DEF Canonical, Span
  <1>3. Added(S, a, b) = (y - x) - Size(A)
    <2>1. Absorbed(S, a, b) = A BY AbsorbedTouch
    <2> HIDE DEF A
    <2> QED BY <2>1 DEF Added
  <1> HIDE DEF x, y
  <1>4. A \in SUBSET S OBVIOUS
  <1>5. Canonical(A) /\ IsFiniteSet(A) BY <1>4, PartOfCanonical, FS_Subset
  <1>6. /\ Size(A) = Cardinality(Covered(A))
        /\ IsFiniteSet(Covered(A)) /\ Cardinality(Covered(A)) \in Nat
    BY <1>5, SizeIsCount, CoveredIsFinite
  <1>7. IsFiniteSet(Bytes(x, y)) /\ Cardinality(Bytes(x, y)) = y - x
    <2>1. x <= y BY <1>1
    <2> QED BY <2>1, <1>1, BytesCount
  <1>8. Bytes(x, y) = Covered(A) \cup new
    <2>1. Covered(A) \subseteq Bytes(x, y)
      <3> SUFFICES ASSUME NEW s \in A PROVE Bytes(s[1], s[2]) \subseteq Bytes(x, y)
        BY DEF Covered
      <3> QED BY <1>1, <1>2 DEF Bytes
    <2>2. new \subseteq Bytes(x, y) BY <1>1 DEF Bytes
    <2>3. ASSUME NEW i \in Bytes(x, y) PROVE i \in Covered(A) \cup new
      <3>1. i \in Nat /\ x <= i /\ i < y
        <4>1. i \in x .. (y - 1) BY DEF Bytes
        <4> QED BY <4>1, <1>1
      <3>2. CASE i < a
        <4>1. PICK u \in A : u[1] = x BY <3>1, <3>2, <1>1
        <4>2. i \in Bytes(u[1], u[2]) BY <4>1, <3>1, <3>2, <1>2 DEF Bytes
        <4> QED BY <4>2 DEF Covered
      <3>3. CASE i >= b
        <4>1. PICK u \in A : u[2] = y BY <3>1, <3>3, <1>1
        <4>2. i \in Bytes(u[1], u[2]) BY <4>1, <3>1, <3>3, <1>2 DEF Bytes
        <4> QED BY <4>2 DEF Covered
      <3>4. CASE a <= i /\ i < b
        <4>1. i \in Bytes(a, b) BY <3>1, <3>4 DEF Bytes
        <4>2. CASE i \in Covered(S)
          <5>1. PICK u \in S : i \in Bytes(u[1], u[2]) BY <4>2 DEF Covered
          <5>2. u[1] <= i /\ i < u[2] BY <5>1, <1>2, <3>1 DEF Bytes
          <5>3. u \in A BY <5>2, <3>4, <3>1, <1>2
          <5> QED BY <5>1, <5>3 DEF Covered
        <4>3. CASE i \notin Covered(S) BY <4>1, <4>3
        <4> QED BY <4>2, <4>3
      <3> QED BY <3>1, <3>2, <3>3, <3>4
    <2> QED BY <2>1, <2>2, <2>3
  <1>9. Covered(A) \cap new = {} BY DEF Covered
  <1>10. IsFiniteSet(new) /\ Cardinality(new) \in Nat
    <2>1. IsFiniteSet(Bytes(a, b)) BY BytesCount
    <2> QED BY <2>1, FS_Subset, FS_CardinalityType
  <1> HIDE DEF A, new
  <1>11. Cardinality(Bytes(x, y)) = Cardinality(Covered(A)) + Cardinality(new) - Cardinality({})
    BY <1>6, <1>8, <1>9, <1>10, FS_Union
  <1>12. Cardinality({}) = 0 BY FS_EmptySet
  <1>13. (y - x) - Cardinality(Covered(A)) = Cardinality(new)
    BY <1>11, <1>12, <1>7, <1>6, <1>10, <1>1
  <1>14. Added(S, a, b) = Cardinality(new) BY <1>13, <1>3, <1>6
  <1> QED BY <1>14 DEF new

\* An insertion leaves finitely many spans.
LEMMA InsertIsFinite ==
  ASSUME NEW S, Canonical(S), IsFiniteSet(S), NEW a \in Nat, NEW b \in Nat, a < b
  PROVE  IsFiniteSet(Insert(S, a, b))
  <1>1. IsFiniteSet(S \ Absorbed(S, a, b)) BY FS_Subset
  <1>2. Insert(S, a, b) = (S \ Absorbed(S, a, b))
                            \cup {<<MergedStart(S, a, b), MergedEnd(S, a, b)>>}
    BY DEF Insert
  <1> DEFINE kept == S \ Absorbed(S, a, b)
             more == <<MergedStart(S, a, b), MergedEnd(S, a, b)>>
  <1>3. IsFiniteSet(kept) BY <1>1
  <1> HIDE DEF kept, more
  <1>4. IsFiniteSet(kept \cup {more}) BY <1>3, FS_AddElement
  <1> QED BY <1>2, <1>4 DEF kept, more

-----------------------------------------------------------------------------
(* Reading back. *)

\* Some span starts last.
LEMMA LastSpanIs ==
  ASSUME NEW S, Canonical(S), IsFiniteSet(S), S # {}
  PROVE  LastSpan(S) \in S /\ \A u \in S : u[1] <= LastSpan(S)[1]
  <1> DEFINE G == {T \in SUBSET S : T # {} => \E s \in T : \A u \in T : u[1] <= s[1]}
  <1>1. {} \in G OBVIOUS
  <1>2. ASSUME NEW T \in SUBSET S, T # {}, \A x \in T : T \ {x} \in G
        PROVE  T \in G
    <2> SUFFICES \E s \in T : \A u \in T : u[1] <= s[1] OBVIOUS
    <2>0. \A u \in T : u[1] \in Nat BY DEF Canonical, Span
    <2>1. PICK x \in T : TRUE BY <1>2
    <2>2. CASE T \ {x} = {}
      <3>1. \A u \in T : u = x BY <2>2
      <3> QED BY <3>1, <2>0
    <2>3. CASE T \ {x} # {}
      <3>1. PICK s \in T \ {x} : \A u \in T \ {x} : u[1] <= s[1] BY <2>3, <1>2
      <3>2. CASE x[1] <= s[1] BY <3>1, <3>2
      <3>3. CASE s[1] <= x[1] BY <3>1, <3>3, <2>0
      <3> QED BY <3>2, <3>3, <2>0
    <2> QED BY <2>2, <2>3
  <1> HIDE DEF G
  <1>3. SUBSET S \subseteq G BY <1>1, <1>2, SetInduction
  <1>4. \E s \in S : \A u \in S : u[1] <= s[1] BY <1>3 DEF G
  <1> QED BY <1>4 DEF LastSpan

\* A span beyond the others is added as it is.
LEMMA InsertApart ==
  ASSUME NEW S, Canonical(S), IsFiniteSet(S), NEW s \in S
  PROVE  /\ s[1] \in Nat /\ s[2] \in Nat /\ s[1] < s[2]
         /\ Insert(S \ {s}, s[1], s[2]) = S
         /\ Added(S \ {s}, s[1], s[2]) = s[2] - s[1]
  <1>1. s[1] \in Nat /\ s[2] \in Nat /\ s[1] < s[2] /\ s = <<s[1], s[2]>>
    BY DEF Canonical, Span
  <1>2. Canonical(S \ {s}) /\ IsFiniteSet(S \ {s}) BY PartOfCanonical, FS_Subset
  <1>3. Absorbed(S \ {s}, s[1], s[2]) = {}
    <2>1. Absorbed(S \ {s}, s[1], s[2]) = {u \in S \ {s} : u[1] <= s[2] /\ u[2] >= s[1]}
      BY <1>1, <1>2, AbsorbedTouch
    <2>2. \A u \in S \ {s} : u[2] < s[1] \/ s[2] < u[1] BY DEF Canonical
    <2>3. \A u \in S : u[1] \in Nat /\ u[2] \in Nat BY DEF Canonical, Span
    <2> QED BY <2>1, <2>2, <2>3, <1>1
  <1>4. MergedStart(S \ {s}, s[1], s[2]) = s[1] /\ MergedEnd(S \ {s}, s[1], s[2]) = s[2]
    BY <1>3 DEF MergedStart, MergedEnd
  <1>5. Insert(S \ {s}, s[1], s[2]) = S
    BY <1>1, <1>3, <1>4 DEF Insert
  <1>6. Size({}) = 0
    <2>1. Canonical({}) BY DEF Canonical
    <2>2. Covered({}) = {} BY DEF Covered
    <2> QED BY <2>1, <2>2, SizeIsCount, FS_EmptySet
  <1>7. Added(S \ {s}, s[1], s[2]) = s[2] - s[1]
    BY <1>1, <1>3, <1>4, <1>6 DEF Added
  <1> QED BY <1>1, <1>5, <1>7

\* Extents::from_spans accepts what Extents::spans gave, and gets it back.
LEMMA FromSpansReads ==
  ASSUME NEW S, Canonical(S), IsFiniteSet(S)
  PROVE  FromSpans(S) = [ok |-> TRUE, spans |-> S]
  <1> DEFINE take(s, acc) ==
               [ok    |-> acc.ok /\ s[1] <= s[2] /\ Added(acc.spans, s[1], s[2]) = s[2] - s[1],
                spans |-> Insert(acc.spans, s[1], s[2])]
             none == [ok |-> TRUE, spans |-> {}]
             next(T, g) == take(LastSpan(T), g[T \ {LastSpan(T)}])
             Folds(g) == g = [T \in SUBSET S |-> IF T = {} THEN none ELSE next(T, g)]
             g == CHOOSE e : Folds(e)
             whole(T) == [ok |-> TRUE, spans |-> T]
             same == [T \in SUBSET S |-> whole(T)]
  <1>1. FromSpans(S) = g[S] BY Zenon DEF FromSpans, MapThenFoldSet
  <1>2. ASSUME NEW T \in SUBSET S, T # {}
        PROVE  /\ LastSpan(T) \in T /\ T \ {LastSpan(T)} \in SUBSET S
               /\ take(LastSpan(T), whole(T \ {LastSpan(T)})) = whole(T)
    <2>1. Canonical(T) /\ IsFiniteSet(T) BY PartOfCanonical, FS_Subset
    <2> DEFINE s == LastSpan(T)
    <2>2. s \in T BY <2>1, <1>2, LastSpanIs
    <2> HIDE DEF s
    <2>3. /\ s[1] \in Nat /\ s[2] \in Nat /\ s[1] < s[2]
          /\ Insert(T \ {s}, s[1], s[2]) = T
          /\ Added(T \ {s}, s[1], s[2]) = s[2] - s[1]
      BY <2>1, <2>2, InsertApart
    <2>4. take(s, whole(T \ {s})) = whole(T)
      <3> DEFINE ok == /\ whole(T \ {s}).ok /\ s[1] <= s[2]
                       /\ Added(whole(T \ {s}).spans, s[1], s[2]) = s[2] - s[1]
      <3>1. whole(T \ {s}).ok = TRUE /\ whole(T \ {s}).spans = T \ {s} OBVIOUS
      <3>2. ok = TRUE
        <4> HIDE DEF whole
        <4> QED BY <3>1, <2>3
      <3>3. Insert(whole(T \ {s}).spans, s[1], s[2]) = T BY <3>1, <2>3
      <3>4. take(s, whole(T \ {s}))
              = [ok |-> ok, spans |-> Insert(whole(T \ {s}).spans, s[1], s[2])]
        BY Zenon
      <3> HIDE DEF ok, take
      <3> QED BY <3>2, <3>3, <3>4
    <2> QED BY <2>2, <2>4 DEF s
  <1> HIDE DEF take, whole, none
  <1>3. none = whole({}) BY DEF none, whole
  <1>4. Folds(same)
    <2>1. ASSUME NEW T \in SUBSET S
          PROVE  whole(T) = IF T = {} THEN none ELSE next(T, same)
      <3>1. CASE T = {} BY <3>1, <1>3
      <3>2. CASE T # {}
        <4>1. same[T \ {LastSpan(T)}] = whole(T \ {LastSpan(T)}) BY <3>2, <1>2
        <4> QED BY <3>2, <4>1, <1>2
      <3> QED BY <3>1, <3>2
    <2> HIDE DEF next
    <2>2. \A T \in SUBSET S : same[T] = IF T = {} THEN none ELSE next(T, same)
      BY <2>1
    <2> QED BY <2>2
  <1>5. Folds(g) BY <1>4
  <1>6. \A T \in SUBSET S : g[T] = IF T = {} THEN none ELSE next(T, g)
    <2> HIDE DEF g, next
    <2> QED BY <1>5
  <1> HIDE DEF g, Folds, same
  <1> DEFINE G == {T \in SUBSET S : g[T] = whole(T)}
  <1>7. {} \in G BY <1>3, <1>6
  <1>8. ASSUME NEW T \in SUBSET S, T # {}, \A x \in T : T \ {x} \in G
        PROVE  T \in G
    <2>1. g[T] = take(LastSpan(T), g[T \ {LastSpan(T)}]) BY <1>6, <1>8
    <2>2. g[T \ {LastSpan(T)}] = whole(T \ {LastSpan(T)}) BY <1>2, <1>8
    <2> QED BY <2>1, <2>2, <1>2, <1>8
  <1> HIDE DEF G
  <1>9. SUBSET S \subseteq G BY <1>7, <1>8, SetInduction
  <1>10. g[S] = whole(S) BY <1>9 DEF G
  <1> QED BY <1>1, <1>10 DEF whole

-----------------------------------------------------------------------------
(* The invariant. *)

Records == [extents : SUBSET Span, completed : SUBSET Pieces]
FileStates == {NoFile, CutFile} \cup [state : {"whole"}, record : Records]
Dirs == [dir : BOOLEAN, good : SUBSET Bytes(0, Length), manifest : FileStates, tmp : FileStates]

Ranged == {"data", "index", "reading"}
Pended == {"manifest", "rename"}
CallStates ==
    {NoCall}
      \cup [at : Ranged, t : Torrents, h : Arcs, a : 0 .. Length, b : 0 .. Length]
      \cup [at : {"mark"}, t : Torrents, h : Arcs, p : Pieces]
      \cup [at : Pended, t : Torrents, h : Arcs, a : 0 .. Length, b : 0 .. Length, added : Nat]

Clears ==
    [at : {"clear"}, kind : {"open"}, t : Torrents, h : {Nothing}]
      \cup [at : {"clear"}, kind : {"remove"}, t : Torrents, h : Arcs]
      \cup [at : {"clear"}, kind : {"discard"}, t : Torrents, h : {Nothing}, keep : SUBSET Torrents]
OpStates ==
    {Free, [at |-> "boot"]} \cup Clears
      \cup [at : {"discard"}, keep : SUBSET Torrents]
      \cup [at : {"create"}, t : Torrents, record : Records]

Types ==
    /\ disk \in [Torrents -> Dirs]
    /\ \A t \in Torrents : disk[t].dir \/ disk[t] = NoDir
    /\ torrents \in [Torrents -> Arcs \cup {Nothing}]
    /\ mem \in [Arcs -> Records]
    /\ mutex \in [Arcs -> Workers \cup {Nothing}]
    /\ thread \in [Workers -> CallStates]
    /\ op \in OpStates
    /\ entries \in SUBSET Torrents /\ erred \in SUBSET Torrents
    /\ credited \in [Torrents -> Nat]
    /\ acked \in [Torrents -> SUBSET Bytes(0, Length)]

\* A record that restore takes back as it was written.
Proper(r) ==
    /\ Canonical(r.extents) /\ IsFiniteSet(r.extents)
    /\ \A s \in r.extents : s[2] <= Length
    /\ \A p \in r.completed : PieceBytes(p, PieceLength, Length) \subseteq Covered(r.extents)

RecordsProper ==
    /\ \A h \in Arcs : Proper(mem[h])
    /\ \A t \in Torrents :
         disk[t].manifest.state = "whole" => Proper(disk[t].manifest.record)
    /\ op.at = "create" => Proper(op.record)

\* An open torrent has a handle of its own, and a call has its torrent's.
OwnHandles ==
    /\ \A t \in Torrents : torrents[t] # Nothing => t \in entries /\ disk[t].dir
    /\ \A t, u \in Torrents : torrents[t] = torrents[u] => t = u \/ torrents[t] = Nothing
    /\ \A w \in Workers : thread[w].at # "idle" => torrents[thread[w].t] = thread[w].h
    /\ op.at \in {"clear", "create"} => torrents[op.t] = Nothing

\* Whoever writes a manifest holds the mutex, and nobody else does.
OneWriter ==
    /\ \A w \in Workers : thread[w].at \in Pended => mutex[thread[w].h] = w
    /\ \A h \in Arcs : mutex[h] # Nothing =>
         thread[mutex[h]].at \in Pended /\ thread[mutex[h]].h = h

\* A manifest says no more than extents do.
Within(file, extents) ==
    file.state = "whole" => Covered(file.record.extents) \subseteq Covered(extents)

\* The index of an open torrent speaks of bytes that are there.
Indexed ==
    \A t \in Torrents : torrents[t] # Nothing =>
      /\ Covered(mem[torrents[t]].extents) \subseteq disk[t].good
      /\ Within(disk[t].manifest, mem[torrents[t]].extents)

\* So does the manifest of a closed one, unless its data went first.
Resting ==
    \A t \in Torrents : torrents[t] = Nothing /\ disk[t].manifest.state = "whole" =>
      \/ disk[t].good = {}
      \/ Covered(disk[t].manifest.record.extents) \subseteq disk[t].good

\* And so does what an open is about to start from.
Reopening ==
    op.at = "create" => /\ Covered(op.record.extents) \subseteq disk[op.t].good
                        /\ Within(disk[op.t].manifest, op.record.extents)

\* What a call knows at each of its places.
Knows(w) ==
    LET c == thread[w]
    IN  /\ c.at \in {"index", "reading"} => Bytes(c.a, c.b) \subseteq disk[c.t].good
        /\ c.at \in Ranged => c.a < c.b
        /\ c.at = "mark" =>
             PieceBytes(c.p, PieceLength, Length) \subseteq Covered(mem[c.h].extents)
        /\ c.at \in Pended => Bytes(c.a, c.b) \subseteq Covered(mem[c.h].extents)
        /\ c.at = "rename" => disk[c.t].tmp = Whole(mem[c.h])

CallsKnow == \A w \in Workers : Knows(w)

\* Acknowledged bytes are in the manifest and on the disk.
Kept ==
    \A t \in Torrents : acked[t] # {} =>
      /\ disk[t].manifest.state = "whole"
      /\ acked[t] \subseteq Covered(disk[t].manifest.record.extents)
      /\ Covered(disk[t].manifest.record.extents) \subseteq disk[t].good

\* Nothing is open while the process starts.
Booting ==
    op.at \in {"boot", "discard"} \/ (op.at = "clear" /\ op.kind = "discard") => entries = {}

\* What is cleared was not acknowledged, or no longer counts.
Going ==
    /\ op.at = "clear" => acked[op.t] = {}
    /\ op.at = "discard" \/ (op.at = "clear" /\ op.kind = "discard") =>
         \A t \in Torrents \ op.keep : acked[t] = {}

\* What the cache was told and will be told when the mutex is given back.
Counted(t) ==
    credited[t] + (IF mutex[torrents[t]] = Nothing THEN 0
                   ELSE thread[mutex[torrents[t]]].added)

Credits ==
    \A t \in Torrents : torrents[t] # Nothing =>
      LET stored == Cardinality(Covered(mem[torrents[t]].extents))
      IN  Counted(t) <= stored /\ (t \notin erred => Counted(t) = stored)

Inv ==
    /\ Types /\ RecordsProper /\ OwnHandles /\ OneWriter /\ Indexed /\ Resting
    /\ Reopening /\ CallsKnow /\ Kept /\ Booting /\ Going /\ Credits

-----------------------------------------------------------------------------
(* What the definitions say of the states of the invariant. *)

\* The kinds of calls.
LEMMA CallIs ==
    ASSUME NEW c \in CallStates
    PROVE  /\ c = NoCall <=> c.at = "idle"
           /\ c.at \in {"idle", "mark"} \cup Ranged \cup Pended
           /\ c.at # "idle" => c.t \in Torrents /\ c.h \in Arcs
           /\ c.at \in Ranged \cup Pended => c.a \in 0 .. Length /\ c.b \in 0 .. Length
           /\ c.at = "mark" => c.p \in Pieces
           /\ c.at \in Pended => c.added \in Nat
BY DEF CallStates, NoCall, Ranged, Pended

\* The kinds of calls of the cache.
LEMMA OpIs ==
    ASSUME NEW o \in OpStates
    PROVE  /\ o = Free <=> o.at = "free"
           /\ o.at \in {"free", "boot", "discard", "clear", "create"}
           /\ o.at \in {"clear", "create"} => o.t \in Torrents
           /\ o.at = "clear" => /\ o \in Clears
                                /\ o.kind \in {"open", "remove", "discard"}
                                /\ o.kind = "remove" <=> o.h # Nothing
                                /\ o.kind = "remove" => o.h \in Arcs
                                /\ o.kind = "discard" => o.keep \in SUBSET Torrents
           /\ o.at = "create" => o.record \in Records
           /\ o.at = "discard" => o.keep \in SUBSET Torrents
BY DiskConstants DEF OpStates, Clears, Free

\* The kinds of files.
LEMMA FileIs ==
    ASSUME NEW f \in FileStates
    PROVE  /\ f.state = "whole" => f.record \in Records /\ f = Whole(f.record)
           /\ f.state \in {"none", "cut", "whole"}
BY DEF FileStates, NoFile, CutFile, Whole

\* The end of the file is beyond all of its data.
LEMMA FileLengthIs ==
    ASSUME NEW t \in Torrents, disk[t].good \subseteq Bytes(0, Length)
    PROVE  /\ FileLength(t) \in Nat
           /\ disk[t].good = {} => FileLength(t) = 0
           /\ \A i \in disk[t].good : i < FileLength(t)
<1> DEFINE G == disk[t].good
           B == {n \in Nat : \A j \in G : j <= n}
<1>1. \A i \in G : i \in Nat /\ i < Length
  BY DiskConstants DEF Bytes
<1>2. Length \in B
  BY <1>1, DiskConstants
<1>3. ASSUME G # {}
      PROVE  \E i \in G : \A j \in G : j <= i
  <2>1. PICK n \in B : \A m \in B : n <= m
    BY <1>2, Least
  <2>2. CASE n \in G  BY <2>1, <2>2
  <2>3. CASE n \notin G
    <3>1. \A j \in G : j <= n /\ j # n  BY <2>1, <2>3
    <3>2. n # 0  BY <3>1, <1>1, <1>3
    <3>3. n - 1 \in B  BY <3>1, <3>2, <1>1, <2>1
    <3> QED  BY <3>3, <2>1
  <2> QED  BY <2>2, <2>3
<1>4. CASE G = {}  BY <1>4 DEF FileLength
<1>5. CASE G # {}
  <2> DEFINE top == CHOOSE i \in G : \A j \in G : j <= i
  <2>1. top \in G /\ \A j \in G : j <= top  BY <1>3, <1>5
  <2>2. FileLength(t) = top + 1  BY <1>5 DEF FileLength
  <2> HIDE DEF top
  <2> QED  BY <2>1, <2>2, <1>1, <1>5
<1> QED  BY <1>4, <1>5

\* restore: a manifest of the invariant is taken back when the file reaches far enough.
LEMMA RestoredIs ==
    ASSUME Types, RecordsProper, NEW t \in Torrents
    PROVE  LET m == disk[t].manifest
           IN  /\ Restored(t).ok <=>
                    /\ m.state = "whole"
                    /\ \A s \in m.record.extents : s[2] <= FileLength(t)
               /\ Restored(t).ok => Restored(t) = [ok |-> TRUE, record |-> m.record]
<1> DEFINE m == disk[t].manifest
           read == FromSpans(m.record.extents)
           far == \A s \in read.spans : s[2] <= Length /\ s[2] <= FileLength(t)
<1>1. m \in FileStates  BY DEF Types, Dirs
<1>2. CASE m.state # "whole"
  BY <1>2 DEF Restored
<1>3. CASE m.state = "whole"
  <2>1. Proper(m.record)  BY <1>3 DEF RecordsProper
  <2>2. read = [ok |-> TRUE, spans |-> m.record.extents]
    BY <2>1, FromSpansReads DEF Proper
  <2>3. far <=> \A s \in m.record.extents : s[2] <= FileLength(t)
    BY <2>1, <2>2 DEF Proper
  <2>4. Record(read.spans, m.record.completed) = m.record
    <3>1. m.record \in Records  BY <1>1, <1>3, FileIs
    <3> QED  BY <2>2, <3>1 DEF Record, Records
  <2>5. read.ok = TRUE  BY <2>2
  <2> HIDE DEF read
  <2>6. Restored(t) = IF far THEN [ok |-> TRUE, record |-> m.record] ELSE [ok |-> FALSE]
    BY <1>3, <2>4, <2>5 DEF Restored, read
  <2> HIDE DEF far, m
  <2> QED  BY <2>3, <2>6, <1>3 DEF m
<1> QED  BY <1>2, <1>3

\* What is restored is there.
LEMMA RestoredIsThere ==
    ASSUME Inv, NEW t \in Torrents, Restored(t).ok
    PROVE  /\ disk[t].manifest.state = "whole"
           /\ Restored(t).record = disk[t].manifest.record
           /\ Proper(Restored(t).record)
           /\ Covered(Restored(t).record.extents) \subseteq disk[t].good
<1> USE DEF Inv
<1> DEFINE r == disk[t].manifest.record
<1>1. /\ disk[t].manifest.state = "whole" /\ Restored(t).record = r
      /\ \A s \in r.extents : s[2] <= FileLength(t)
  BY RestoredIs
<1>2. Proper(r)  BY <1>1 DEF RecordsProper
<1>3. Covered(r.extents) \subseteq disk[t].good
  <2>1. CASE torrents[t] # Nothing
    BY <1>1, <2>1 DEF Indexed, Within
  <2>2. CASE torrents[t] = Nothing /\ disk[t].good # {}
    BY <1>1, <2>2 DEF Resting
  <2>3. CASE torrents[t] = Nothing /\ disk[t].good = {}
    <3>1. FileLength(t) = 0  BY <2>3, FileLengthIs
    <3>2. r.extents = {}
      <4> SUFFICES ASSUME NEW s \in r.extents PROVE FALSE  OBVIOUS
      <4>1. s[2] <= 0  BY <1>1, <3>1
      <4>2. s[1] \in Nat /\ s[2] \in Nat /\ s[1] < s[2]
        BY <1>2 DEF Proper, Canonical, Span
      <4> QED  BY <4>1, <4>2
    <3> QED  BY <3>2 DEF Covered
  <2> QED  BY <2>1, <2>2, <2>3
<1> QED  BY <1>1, <1>2, <1>3

\* What was acknowledged is restored.
LEMMA AckedIsRestored ==
    ASSUME Inv, NEW t \in Torrents, acked[t] # {}
    PROVE  Restored(t).ok /\ acked[t] \subseteq Covered(Restored(t).record.extents)
<1> USE DEF Inv
<1> DEFINE r == disk[t].manifest.record
<1>1. /\ disk[t].manifest.state = "whole"
      /\ acked[t] \subseteq Covered(r.extents) /\ Covered(r.extents) \subseteq disk[t].good
  BY DEF Kept
<1>2. Proper(r)  BY <1>1 DEF RecordsProper
<1>3. disk[t].good \subseteq Bytes(0, Length)  BY DEF Types, Dirs
<1>4. ASSUME NEW s \in r.extents
      PROVE  s[2] <= FileLength(t)
  <2>1. s[1] \in Nat /\ s[2] \in Nat /\ s[1] < s[2]
    BY <1>2 DEF Proper, Canonical, Span
  <2>2. s[2] - 1 \in Bytes(s[1], s[2])  BY <2>1 DEF Bytes
  <2>3. s[2] - 1 \in disk[t].good  BY <2>2, <1>1 DEF Covered
  <2>4. s[2] - 1 < FileLength(t) /\ FileLength(t) \in Nat  BY <2>3, <1>3, FileLengthIs
  <2> QED  BY <2>1, <2>4
<1>5. Restored(t).ok  BY <1>1, <1>4, RestoredIs
<1>6. Restored(t) = [ok |-> TRUE, record |-> r]  BY <1>5, RestoredIs
<1> QED  BY <1>1, <1>5, <1>6

\* The mutex says whose call is pending.
LEMMA PendingIs ==
    ASSUME Inv, NEW h \in Arcs
    PROVE  Pending(h) = IF mutex[h] = Nothing THEN {} ELSE {mutex[h]}
<1>1. mutex[h] \in Workers \cup {Nothing} /\ Nothing \notin Workers
  BY DiskConstants DEF Inv, Types
<1>2. \A w \in Pending(h) : w \in Workers /\ mutex[h] = w
  BY DEF Inv, OneWriter, Pending, Pended
<1>3. mutex[h] # Nothing => mutex[h] \in Pending(h)
  BY <1>1 DEF Inv, OneWriter, Pending, Pended
<1> QED  BY <1>1, <1>2, <1>3

\* The invariant says what the store promises.
LEMMA InvImplies ==
    ASSUME Inv
    PROVE  DiskTypeOK /\ CrashSafe /\ StoreExact
<1> USE DEF Inv
<1>1. DiskTypeOK
  <2>1. \A t \in Torrents : disk[t] \in Dirs  BY DEF Types
  <2>2. Bytes(0, Length) = 0 .. Length - 1  BY DiskConstants DEF Bytes
  <2>3. \A h \in Arcs : mem[h] \in Records  BY DEF Types
  <2>4. DOMAIN mem = Arcs /\ DOMAIN thread = Workers  BY DEF Types
  <2>5. \A h \in Arcs : Canonical(mem[h].extents) /\ mem[h].completed \subseteq Pieces
    BY <2>3 DEF RecordsProper, Proper, Records
  <2>6. \A t \in Torrents : disk[t].dir \in BOOLEAN /\ disk[t].good \subseteq 0 .. Length - 1
    BY <2>1, <2>2 DEF Dirs
  <2>7. acked \in [Torrents -> SUBSET (0 .. Length - 1)]  BY <2>2 DEF Types
  <2> QED  BY <2>4, <2>5, <2>6, <2>7 DEF DiskTypeOK, Types
<1>2. RestoreSound
  BY RestoredIsThere DEF RestoreSound, Proper
<1>3. AckedSurvives
  BY AckedIsRestored DEF AckedSurvives
<1>4. ReadsData
  BY DEF ReadsData, CallsKnow, Knows
<1>5. CreditedOnce
  <2> SUFFICES ASSUME NEW t \in entries, torrents[t] # Nothing
               PROVE  LET h       == torrents[t]
                          counted == credited[t] + (IF \E w \in Pending(h) : TRUE
                                       THEN thread[CHOOSE w \in Pending(h) : TRUE].added
                                       ELSE 0)
                      IN  /\ counted <= Cardinality(Covered(mem[h].extents))
                          /\ t \notin erred => counted = Cardinality(Covered(mem[h].extents))
    BY DEF CreditedOnce
  <2>1. t \in Torrents /\ torrents[t] \in Arcs  BY DEF Types
  <2>2. Pending(torrents[t]) = IF mutex[torrents[t]] = Nothing THEN {} ELSE {mutex[torrents[t]]}
    BY <2>1, PendingIs
  <2>3. CASE mutex[torrents[t]] = Nothing
    BY <2>1, <2>2, <2>3 DEF Credits, Counted
  <2>4. CASE mutex[torrents[t]] # Nothing
    <3>1. (CHOOSE w \in Pending(torrents[t]) : TRUE) = mutex[torrents[t]]  BY <2>2, <2>4
    <3> QED  BY <2>1, <2>2, <2>4, <3>1 DEF Credits, Counted
  <2> QED  BY <2>3, <2>4
<1> QED  BY <1>1, <1>2, <1>3, <1>4, <1>5 DEF CrashSafe, StoreExact

-----------------------------------------------------------------------------
(* The steps. *)

\* A handle without extents.
LEMMA BlankIs ==
    Blank \in Records /\ Proper(Blank) /\ Covered(Blank.extents) = {}
<1>1. Blank = [extents |-> {}, completed |-> {}]  BY DEF Blank, Record
<1>2. Blank \in Records  BY <1>1 DEF Records
<1>3. Proper(Blank)  BY <1>1, FS_EmptySet DEF Proper, Canonical
<1> QED  BY <1>1, <1>2, <1>3 DEF Covered

\* A new data directory is empty, so nothing is promised yet.
LEMMA DiskInvInit == DiskInit => Inv
<1> SUFFICES ASSUME DiskInit PROVE Inv  OBVIOUS
<1> USE DEF DiskInit
<1>1. Types
  BY BlankIs DEF Types, Dirs, FileStates, NoDir, CallStates, OpStates
<1>2. RecordsProper
  BY BlankIs DEF RecordsProper, NoDir, NoFile
<1>3. OwnHandles /\ OneWriter
  BY DEF OwnHandles, OneWriter, NoCall, Pended
<1>4. Indexed /\ Resting /\ Reopening /\ Kept /\ Booting /\ Going /\ Credits
  BY DEF Indexed, Resting, Reopening, Kept, Booting, Going, Credits, NoDir, NoFile
<1>5. CallsKnow
  BY DEF CallsKnow, Knows, NoCall, Ranged, Pended
<1> QED  BY <1>1, <1>2, <1>3, <1>4, <1>5 DEF Inv

\* A step of a call that does not have the mutex; data may be added to the file
\* of an open torrent.
CallMoves(w, c) ==
    /\ thread[w].at \notin Pended /\ c.at \notin Pended
    /\ c \in CallStates
    /\ thread' = [thread EXCEPT ![w] = c]
    /\ c.at # "idle" => torrents[c.t] = c.h
    /\ UNCHANGED <<torrents, mem, mutex, op, entries, credited, acked, erred>>

DataGrows ==
    \/ UNCHANGED disk
    \/ \E t \in Torrents, more \in SUBSET Bytes(0, Length) :
         disk[t].dir /\ torrents[t] # Nothing
         /\ disk' = [disk EXCEPT ![t].good = @ \cup more]

\* What a step of an engine call owes when it leaves the files and records alone.
LEMMA CallKeepsInv ==
    ASSUME Inv, NEW w \in Workers, NEW c, CallMoves(w, c), DataGrows, Knows(w)'
    PROVE  Inv'
<1> USE DEF CallMoves
<1> DEFINE Grown(t) ==
             /\ disk'[t] \in Dirs
             /\ disk'[t].dir = disk[t].dir /\ disk'[t].manifest = disk[t].manifest
             /\ disk'[t].tmp = disk[t].tmp
             /\ disk[t].good \subseteq disk'[t].good
             /\ disk'[t] = disk[t] \/ (disk[t].dir /\ torrents[t] # Nothing)
<1>1. \A t \in Torrents : Grown(t)
  <2>1. CASE UNCHANGED disk  BY <2>1 DEF Inv, Types
  <2>2. ASSUME NEW u \in Torrents, NEW more \in SUBSET Bytes(0, Length),
               disk[u].dir, torrents[u] # Nothing,
               disk' = [disk EXCEPT ![u].good = @ \cup more]
        PROVE  \A t \in Torrents : Grown(t)
    <3> SUFFICES ASSUME NEW t \in Torrents PROVE Grown(t)  OBVIOUS
    <3>1. disk \in [Torrents -> Dirs]  BY DEF Inv, Types
    <3>2. disk[t] \in Dirs /\ disk[u] \in Dirs  BY <3>1
    <3>3. CASE t # u  BY <2>2, <3>1, <3>2, <3>3
    <3>4. CASE t = u
      <4>1. disk'[t] = [disk[u] EXCEPT !.good = @ \cup more]  BY <2>2, <3>1, <3>4
      <4> QED  BY <2>2, <3>2, <3>4, <4>1 DEF Dirs
    <3> QED  BY <3>3, <3>4
  <2> QED  BY <2>1, <2>2 DEF DataGrows
<1>2. disk' \in [Torrents -> Dirs]
  <2>1. DOMAIN disk' = Torrents /\ disk' = [t \in Torrents |-> disk'[t]]
    BY DEF DataGrows, Inv, Types
  <2> QED  BY <1>1, <2>1
<1>3. thread' \in [Workers -> CallStates] /\ thread'[w] = c
      /\ \A v \in Workers : v # w => thread'[v] = thread[v]
  BY DEF Inv, Types
<1>4. Types'
  BY <1>1, <1>2, <1>3 DEF Inv, Types
<1>5. RecordsProper'
  BY <1>1 DEF Inv, RecordsProper, Proper
<1>6. OwnHandles'
  BY <1>1, <1>3 DEF Inv, OwnHandles
<1>7. OneWriter'
  BY <1>3 DEF Inv, OneWriter, Types
<1>8. Indexed' /\ Resting' /\ Reopening'
  BY <1>1, OpIs DEF Inv, Indexed, Resting, Reopening, Within, Types
<1>9. CallsKnow'
  <2> SUFFICES ASSUME NEW v \in Workers, v # w PROVE Knows(v)'  BY DEF CallsKnow
  <2>1. Knows(v) /\ thread'[v] = thread[v]  BY <1>3 DEF Inv, CallsKnow
  <2>2. thread[v].at # "idle" => thread[v].t \in Torrents  BY CallIs DEF Inv, Types
  <2> QED  BY <1>1, <2>1, <2>2 DEF Knows, Ranged, Pended
<1>10. Kept' /\ Booting' /\ Going'
  BY <1>1 DEF Inv, Kept, Booting, Going
<1>11. Credits'
  <2> SUFFICES ASSUME NEW t \in Torrents, torrents[t] # Nothing
               PROVE  Counted(t)' = Counted(t)
    BY DEF Inv, Credits
  <2>1. torrents[t] \in Arcs  BY DEF Inv, Types
  <2>2. mutex[torrents[t]] # Nothing => mutex[torrents[t]] # w
    BY <2>1 DEF Inv, OneWriter
  <2>3. mutex[torrents[t]] # Nothing => mutex[torrents[t]] \in Workers
    BY <2>1 DEF Inv, Types
  <2> QED  BY <1>3, <2>2, <2>3 DEF Counted
<1> QED  BY <1>4, <1>5, <1>6, <1>7, <1>8, <1>9, <1>10, <1>11 DEF Inv

\* A call takes the mutex, and its handle's record becomes r.
LEMMA MutexTakenKeepsInv ==
    ASSUME Inv, NEW w \in Workers, NEW c \in CallStates, NEW r \in Records,
           thread[w].at \in {"index", "mark"}, c.at = "manifest",
           c.t = thread[w].t, c.h = thread[w].h, mutex[c.h] = Nothing,
           Proper(r), Covered(mem[c.h].extents) \subseteq Covered(r.extents),
           Covered(r.extents) \subseteq disk[c.t].good,
           Bytes(c.a, c.b) \subseteq Covered(r.extents),
           Cardinality(Covered(r.extents)) = Cardinality(Covered(mem[c.h].extents)) + c.added,
           thread' = [thread EXCEPT ![w] = c],
           mem' = [mem EXCEPT ![c.h] = r],
           mutex' = [mutex EXCEPT ![c.h] = w],
           UNCHANGED <<disk, torrents, op, entries, credited, acked, erred>>
    PROVE  Inv'
<1>1. c.t \in Torrents /\ c.h \in Arcs /\ c.added \in Nat
  BY CallIs DEF Pended
<1>2. torrents[c.t] = c.h /\ c.h # Nothing
  BY <1>1, DiskConstants DEF Inv, OwnHandles
<1>3. /\ thread' \in [Workers -> CallStates] /\ thread'[w] = c
      /\ \A v \in Workers : v # w => thread'[v] = thread[v]
  BY DEF Inv, Types
<1>4. /\ mem' \in [Arcs -> Records] /\ mem'[c.h] = r
      /\ \A h \in Arcs : h # c.h => mem'[h] = mem[h]
  BY <1>1 DEF Inv, Types
<1>5. /\ mutex' \in [Arcs -> Workers \cup {Nothing}] /\ mutex'[c.h] = w
      /\ \A h \in Arcs : h # c.h => mutex'[h] = mutex[h]
  BY <1>1 DEF Inv, Types
<1>6. \A h \in Arcs : mutex[h] # w
  BY DiskConstants DEF Inv, OneWriter, Pended
<1>7. \A v \in Workers : thread[v].at \in Pended => thread[v].h # c.h /\ thread[v].h \in Arcs
  <2> SUFFICES ASSUME NEW v \in Workers, thread[v].at \in Pended
               PROVE  thread[v].h # c.h /\ thread[v].h \in Arcs
    OBVIOUS
  <2>1. thread[v] \in CallStates  BY DEF Inv, Types
  <2>2. thread[v].h \in Arcs  BY <2>1, CallIs DEF Pended
  <2>3. mutex[thread[v].h] = v  BY DEF Inv, OneWriter
  <2> QED  BY <2>2, <2>3, DiskConstants
<1>8. \A t \in Torrents : t # c.t /\ torrents[t] # Nothing => torrents[t] \in Arcs \ {c.h}
  BY <1>1, <1>2 DEF Inv, OwnHandles, Types
<1>9. Types'
  BY <1>3, <1>4, <1>5 DEF Inv, Types
<1>10. RecordsProper'
  BY <1>4 DEF Inv, RecordsProper, Proper
<1>11. OwnHandles'
  BY <1>2, <1>3 DEF Inv, OwnHandles
<1>12. OneWriter'
  <2>1. \A v \in Workers : thread'[v].at \in Pended => mutex'[thread'[v].h] = v
    BY <1>3, <1>5, <1>7 DEF Inv, OneWriter
  <2>2. \A h \in Arcs : mutex'[h] # Nothing =>
          thread'[mutex'[h]].at \in Pended /\ thread'[mutex'[h]].h = h
    <3> SUFFICES ASSUME NEW h \in Arcs, mutex'[h] # Nothing
                 PROVE  thread'[mutex'[h]].at \in Pended /\ thread'[mutex'[h]].h = h
      OBVIOUS
    <3>1. CASE h = c.h  BY <3>1, <1>3, <1>5 DEF Pended
    <3>2. CASE h # c.h
      <4>1. mutex'[h] = mutex[h] /\ mutex[h] \in Workers \ {w}
        BY <3>2, <1>5, <1>6 DEF Inv, Types
      <4> QED  BY <4>1, <1>3 DEF Inv, OneWriter
    <3> QED  BY <3>1, <3>2
  <2> QED  BY <2>1, <2>2 DEF OneWriter
<1>13. Indexed'
  <2> SUFFICES ASSUME NEW t \in Torrents, torrents[t] # Nothing
               PROVE  /\ Covered(mem'[torrents[t]].extents) \subseteq disk[t].good
                      /\ Within(disk[t].manifest, mem'[torrents[t]].extents)
    BY DEF Indexed, Within
  <2>1. CASE t = c.t
    BY <2>1, <1>2, <1>4 DEF Inv, Indexed, Within
  <2>2. CASE t # c.t
    BY <2>2, <1>4, <1>8 DEF Inv, Indexed
  <2> QED  BY <2>1, <2>2
<1>14. Resting' /\ Reopening' /\ Kept' /\ Booting' /\ Going'
  BY DEF Inv, Resting, Reopening, Kept, Booting, Going, Within
<1>15. CallsKnow'
  <2> SUFFICES ASSUME NEW v \in Workers PROVE Knows(v)'  BY DEF CallsKnow
  <2>1. CASE v = w
    BY <2>1, <1>3, <1>4 DEF Knows, Ranged, Pended
  <2>2. CASE v # w
    <3>1. Knows(v) /\ thread'[v] = thread[v] /\ thread[v] \in CallStates
      BY <2>2, <1>3 DEF Inv, CallsKnow, Types
    <3>2. thread[v].at # "idle" => thread[v].h \in Arcs  BY <3>1, CallIs
    <3>3. thread[v].at \in Pended => mem'[thread[v].h] = mem[thread[v].h]
      BY <1>4, <1>7
    <3>4. thread[v].at = "mark" =>
            Covered(mem[thread[v].h].extents) \subseteq Covered(mem'[thread[v].h].extents)
      BY <1>4, <3>2
    <3> QED  BY <3>1, <3>3, <3>4 DEF Knows, Ranged, Pended
  <2> QED  BY <2>1, <2>2
<1>16. Credits'
  <2> SUFFICES ASSUME NEW t \in Torrents, torrents[t] # Nothing
               PROVE  LET stored == Cardinality(Covered(mem'[torrents[t]].extents))
                      IN  Counted(t)' <= stored /\ (t \notin erred => Counted(t)' = stored)
    BY DEF Credits
  <2> DEFINE stored == Cardinality(Covered(mem[torrents[t]].extents))
  <2>1. Counted(t) <= stored /\ (t \notin erred => Counted(t) = stored)
    BY DEF Inv, Credits
  <2>2. credited[t] \in Nat  BY DEF Inv, Types
  <2>3. CASE t = c.t
    <3>1. Counted(t) = credited[t]  BY <2>3, <2>2, <1>2 DEF Counted
    <3>2. Counted(t)' = credited[t] + c.added
      BY <2>3, <1>2, <1>3, <1>5, DiskConstants DEF Counted
    <3>3. Cardinality(Covered(mem'[torrents[t]].extents)) = stored + c.added
      BY <2>3, <1>2, <1>4
    <3>4. stored \in Nat
      BY <2>3, <1>1, <1>2, CoveredIsFinite DEF Inv, RecordsProper, Proper
    <3> QED  BY <2>1, <2>2, <3>1, <3>2, <3>3, <3>4, <1>1
  <2>4. CASE t # c.t
    <3>1. torrents[t] \in Arcs \ {c.h}  BY <2>4, <1>8
    <3>2. mutex[torrents[t]] \in Workers \cup {Nothing}  BY <3>1 DEF Inv, Types
    <3>3. Counted(t)' = Counted(t)
      BY <3>1, <3>2, <1>3, <1>5, <1>6 DEF Counted
    <3> QED  BY <2>1, <3>1, <3>3, <1>4
  <2> QED  BY <2>3, <2>4
<1> QED  BY <1>9, <1>10, <1>11, <1>12, <1>13, <1>14, <1>15, <1>16 DEF Inv

\* A step of the cache that moves its own call and perhaps forgets.
LEMMA OpKeepsInv ==
    ASSUME Inv, op' \in OpStates, Going', Booting',
           op'.at = "create" => Proper(op'.record) /\ Reopening',
           op'.at \in {"clear", "create"} => torrents[op'.t] = Nothing,
           entries' \in SUBSET entries, \A t \in entries \ entries' : torrents[t] = Nothing,
           acked' \in [Torrents -> SUBSET Bytes(0, Length)],
           \A t \in Torrents : acked'[t] \subseteq acked[t],
           UNCHANGED <<disk, torrents, mem, mutex, thread, credited, erred>>
    PROVE  Inv'
<1>1. Types'  BY DEF Inv, Types
<1>2. RecordsProper'  BY DEF Inv, RecordsProper, Proper
<1>3. OwnHandles'  BY DEF Inv, OwnHandles
<1>4. OneWriter' /\ Indexed' /\ Resting'
  BY DEF Inv, OneWriter, Indexed, Resting, Within
<1>5. Reopening'  BY DEF Reopening
<1>6. CallsKnow'  BY DEF Inv, CallsKnow, Knows
<1>7. Kept'  BY DEF Inv, Kept
<1>8. Credits'  BY DEF Inv, Credits, Counted
<1> QED  BY <1>1, <1>2, <1>3, <1>4, <1>5, <1>6, <1>7, <1>8 DEF Inv

\* write_at takes the handle's mutex (disk.rs:269-283).
LEMMA BeginWriteKeepsInv ==
    ASSUME Inv, NEW w \in Workers, NEW t \in Torrents,
           NEW a \in 0 .. Length + 1, NEW b \in 0 .. Length + 1, BeginWrite(w, t, a, b)
    PROVE  Inv'
<1> DEFINE c == [at |-> "data", t |-> t, h |-> torrents[t], a |-> a, b |-> b]
<1> USE DEF BeginWrite
<1>1. torrents[t] \in Arcs /\ a \in 0 .. Length /\ b \in 0 .. Length /\ a < b
  BY DiskConstants DEF Inv, Types, InFile
<1>2. c \in CallStates  BY <1>1 DEF CallStates, Ranged
<1>3. CallMoves(w, c)
  BY <1>2 DEF CallMoves, NoCall, Pended
<1>4. thread'[w] = c  BY DEF Inv, Types
<1>5. Knows(w)'
  BY <1>1, <1>4 DEF Knows, Ranged, Pended
<1> HIDE DEF c
<1> QED  BY <1>3, <1>5, CallKeepsInv DEF DataGrows

\* read_at takes it too, or refuses the range (disk.rs:301-320).
LEMMA BeginReadKeepsInv ==
    ASSUME Inv, NEW w \in Workers, NEW t \in Torrents,
           NEW a \in 0 .. Length + 1, NEW b \in 0 .. Length + 1, BeginRead(w, t, a, b)
    PROVE  Inv'
<1> DEFINE c == [at |-> "reading", t |-> t, h |-> torrents[t], a |-> a, b |-> b]
<1> USE DEF BeginRead
<1>1. torrents[t] \in Arcs /\ a \in 0 .. Length /\ b \in 0 .. Length /\ a < b
  BY DiskConstants DEF Inv, Types, InFile
<1>2. c \in CallStates  BY <1>1 DEF CallStates, Ranged
<1>3. CallMoves(w, c)
  BY <1>2 DEF CallMoves, NoCall, Pended
<1>4. thread'[w] = c  BY DEF Inv, Types
<1>5. Bytes(a, b) \subseteq disk[t].good
  <2>1. Bytes(a, b) \subseteq Covered(mem[torrents[t]].extents)
    BY <1>1, CoversMeans DEF Inv, RecordsProper, Proper
  <2> QED  BY <2>1, <1>1 DEF Inv, Indexed
<1>6. Knows(w)'
  BY <1>1, <1>4, <1>5 DEF Knows, Ranged, Pended
<1> HIDE DEF c
<1> QED  BY <1>3, <1>6, CallKeepsInv DEF DataGrows

\* The end of a read gives the mutex back and changes no byte.
LEMMA EndReadKeepsInv ==
    ASSUME Inv, NEW w \in Workers, EndRead(w)
    PROVE  Inv'
<1>1. NoCall \in CallStates /\ NoCall.at = "idle"  BY DEF CallStates, NoCall
<1>2. CallMoves(w, NoCall)
  BY <1>1 DEF EndRead, CallMoves, Pended
<1>3. thread'[w] = NoCall  BY DEF Inv, Types, EndRead
<1>4. Knows(w)'  BY <1>1, <1>3 DEF Knows, Ranged, Pended
<1> QED  BY <1>2, <1>4, CallKeepsInv DEF DataGrows, EndRead

\* complete_piece looks the torrent's handle up (disk.rs:285-299).
LEMMA BeginCompleteKeepsInv ==
    ASSUME Inv, NEW w \in Workers, NEW t \in Torrents, NEW p \in Pieces, BeginComplete(w, t, p)
    PROVE  Inv'
<1> DEFINE c == [at |-> "mark", t |-> t, h |-> torrents[t], p |-> p]
<1> USE DEF BeginComplete
<1>1. torrents[t] \in Arcs  BY DEF Inv, Types
<1>2. c \in CallStates  BY <1>1 DEF CallStates
<1>3. CallMoves(w, c)
  BY <1>2 DEF CallMoves, NoCall, Pended
<1>4. thread'[w] = c  BY DEF Inv, Types
<1>5. Knows(w)'
  BY <1>1, <1>4 DEF Knows, Ranged, Pended
<1> HIDE DEF c
<1> QED  BY <1>3, <1>5, CallKeepsInv DEF DataGrows

\* Bytes reach the file before any record names them.
LEMMA WriteDataKeepsInv ==
    ASSUME Inv, NEW w \in Workers, WriteData(w)
    PROVE  Inv'
<1> DEFINE t == thread[w].t
           a == thread[w].a
           b == thread[w].b
<1>1. /\ thread[w] \in CallStates /\ thread[w].at = "data"
      /\ t \in Torrents /\ thread[w].h \in Arcs
      /\ a \in 0 .. Length /\ b \in 0 .. Length /\ a < b
  <2>1. thread[w] \in CallStates /\ thread[w].at = "data"
    BY DEF Inv, Types, WriteData
  <2>2. a < b  BY <2>1 DEF Inv, CallsKnow, Knows, Ranged
  <2> QED  BY <2>1, <2>2, CallIs DEF Ranged
<1>2. torrents[t] = thread[w].h /\ torrents[t] # Nothing
  BY <1>1, DiskConstants DEF Inv, OwnHandles
<1>3. \A k \in a .. b : Bytes(a, k) \subseteq Bytes(0, Length)
  BY <1>1, DiskConstants DEF Bytes
<1>4. NoCall \in CallStates /\ NoCall.at = "idle"  BY DEF CallStates, NoCall
<1>5. ASSUME disk[t].dir, disk' = [disk EXCEPT ![t].good = @ \cup Bytes(a, b)],
             thread' = [thread EXCEPT ![w].at = "index"]
      PROVE  Inv'
  <2> DEFINE c == [thread[w] EXCEPT !.at = "index"]
  <2>1. thread[w] \in [at : Ranged, t : Torrents, h : Arcs, a : 0 .. Length, b : 0 .. Length]
    BY <1>1 DEF CallStates, Ranged, Pended, NoCall
  <2>2. /\ c \in CallStates /\ c.at = "index" /\ c.t = t /\ c.h = thread[w].h
        /\ c.a = a /\ c.b = b
    BY <2>1 DEF CallStates, Ranged
  <2>3. thread' = [thread EXCEPT ![w] = c] /\ thread'[w] = c
    BY <1>5 DEF Inv, Types
  <2>4. disk'[t].good = disk[t].good \cup Bytes(a, b)
    <3>1. disk \in [Torrents -> Dirs] /\ disk[t] \in Dirs  BY <1>1 DEF Inv, Types
    <3>2. disk'[t] = [disk[t] EXCEPT !.good = @ \cup Bytes(a, b)]  BY <1>1, <1>5, <3>1
    <3> QED  BY <3>1, <3>2 DEF Dirs
  <2> HIDE DEF c
  <2>5. CallMoves(w, c)
    BY <1>1, <1>2, <2>2, <2>3 DEF CallMoves, WriteData, Pended
  <2>6. Knows(w)'
    BY <1>1, <2>2, <2>3, <2>4 DEF Knows, Ranged, Pended
  <2>7. DataGrows
    <3>1. b \in a .. b  BY <1>1
    <3> QED  BY <1>1, <1>2, <1>3, <1>5, <3>1 DEF DataGrows
  <2> QED  BY <2>2, <2>5, <2>6, <2>7, CallKeepsInv
<1>6. ASSUME thread' = [thread EXCEPT ![w] = NoCall], DataGrows
      PROVE  Inv'
  <2>1. CallMoves(w, NoCall)
    BY <1>1, <1>4, <1>6 DEF CallMoves, WriteData, Pended
  <2>2. thread'[w] = NoCall  BY <1>6 DEF Inv, Types
  <2>3. Knows(w)'  BY <1>4, <2>2 DEF Knows, Ranged, Pended
  <2> QED  BY <1>6, <2>1, <2>3, CallKeepsInv
<1>7. ASSUME NEW k \in a .. b, disk[t].dir,
             disk' = [disk EXCEPT ![t].good = @ \cup Bytes(a, k)]
      PROVE  DataGrows
  BY <1>1, <1>2, <1>3, <1>7 DEF DataGrows
<1> QED  BY <1>5, <1>6, <1>7 DEF WriteData, DataGrows

\* Extents::insert of bytes that are in the file, with what it added.
LEMMA WriteIndexKeepsInv ==
    ASSUME Inv, NEW w \in Workers, WriteIndex(w)
    PROVE  Inv'
<1> DEFINE t == thread[w].t
           h == thread[w].h
           a == thread[w].a
           b == thread[w].b
           old == mem[h].extents
           new == Insert(old, a, b)
           r == [mem[h] EXCEPT !.extents = new]
           c == [at |-> "manifest", t |-> t, h |-> h, a |-> a, b |-> b, added |-> Added(old, a, b)]
<1>1. /\ thread[w] \in CallStates /\ thread[w].at = "index"
      /\ t \in Torrents /\ h \in Arcs
      /\ a \in 0 .. Length /\ b \in 0 .. Length /\ a < b
      /\ Bytes(a, b) \subseteq disk[t].good
  <2>1. thread[w] \in CallStates /\ thread[w].at = "index"
    BY DEF Inv, Types, WriteIndex
  <2>2. a < b /\ Bytes(a, b) \subseteq disk[t].good
    BY <2>1 DEF Inv, CallsKnow, Knows, Ranged
  <2> QED  BY <2>1, <2>2, CallIs DEF Ranged
<1>2. torrents[t] = h /\ h # Nothing
  BY <1>1, DiskConstants DEF Inv, OwnHandles
<1>3. mutex[h] = Nothing  BY DEF WriteIndex, MutexHeld
<1>4. /\ Canonical(old) /\ IsFiniteSet(old) /\ \A s \in old : s[2] <= Length
      /\ \A p \in mem[h].completed : PieceBytes(p, PieceLength, Length) \subseteq Covered(old)
      /\ mem[h] \in Records
      /\ Covered(old) \subseteq disk[t].good
  BY <1>1, <1>2 DEF Inv, Types, RecordsProper, Proper, Indexed
<1>5. a \in Nat /\ b \in Nat  BY <1>1
<1>6. /\ Canonical(new) /\ IsFiniteSet(new)
      /\ Covered(new) = Covered(old) \cup Bytes(a, b)
  BY <1>1, <1>4, <1>5, InsertAdds, InsertIsFinite
<1>7. \A s \in new : s[2] <= Length
  <2> SUFFICES ASSUME NEW s \in new PROVE s[2] <= Length  OBVIOUS
  <2>1. s[1] \in Nat /\ s[2] \in Nat /\ s[1] < s[2]  BY <1>6 DEF Canonical, Span
  <2>2. s[2] - 1 \in Bytes(s[1], s[2])  BY <2>1 DEF Bytes
  <2>3. s[2] - 1 \in Covered(new)  BY <2>2 DEF Covered
  <2>4. s[2] - 1 \in disk[t].good  BY <2>3, <1>1, <1>4, <1>6
  <2>5. s[2] - 1 \in Bytes(0, Length)  BY <2>4, <1>1 DEF Inv, Types, Dirs
  <2> QED  BY <2>1, <2>5, DiskConstants DEF Bytes
<1> HIDE DEF new
<1>8. /\ r \in Records /\ r.extents = new /\ r.completed = mem[h].completed
  BY <1>4, <1>6 DEF Records, Canonical
<1> HIDE DEF r
<1>9. Proper(r)
  BY <1>4, <1>6, <1>7, <1>8 DEF Proper
<1>10. /\ Added(old, a, b) \in Nat
       /\ Cardinality(Covered(new)) = Cardinality(Covered(old)) + Added(old, a, b)
  <2> DEFINE more == Bytes(a, b) \ Covered(old)
  <2>1. Added(old, a, b) = Cardinality(more)  BY <1>1, <1>4, <1>5, AddedIsNew
  <2>2. IsFiniteSet(more) /\ Cardinality(more) \in Nat
    <3>1. IsFiniteSet(Bytes(a, b))  BY <1>1, <1>5, BytesCount
    <3> QED  BY <3>1, FS_Subset, FS_CardinalityType
  <2>3. IsFiniteSet(Covered(old)) /\ Cardinality(Covered(old)) \in Nat
    BY <1>4, CoveredIsFinite
  <2>4. Covered(new) = Covered(old) \cup more /\ Covered(old) \cap more = {}  BY <1>6
  <2> HIDE DEF more
  <2>5. Cardinality(Covered(new))
          = Cardinality(Covered(old)) + Cardinality(more) - Cardinality({})
    BY <2>2, <2>3, <2>4, FS_Union
  <2> QED  BY <2>1, <2>2, <2>3, <2>5, FS_EmptySet
<1>11. /\ c \in CallStates /\ c.at = "manifest" /\ c.t = t /\ c.h = h
       /\ c.a = a /\ c.b = b /\ c.added = Added(old, a, b)
  BY <1>1, <1>10 DEF CallStates, Pended
<1>12. /\ mem' = [mem EXCEPT ![h] = r]
       /\ mutex' = [mutex EXCEPT ![h] = w]
       /\ thread' = [thread EXCEPT ![w] = c]
       /\ UNCHANGED <<disk, torrents, op, entries, credited, acked, erred>>
  BY <1>1 DEF WriteIndex, r, new
<1> HIDE DEF c
<1> QED
  <2>1. thread[w].at \in {"index", "mark"}  BY <1>1
  <2>2. Covered(mem[c.h].extents) \subseteq Covered(r.extents)  BY <1>6, <1>8, <1>11
  <2>3. Covered(r.extents) \subseteq disk[c.t].good  BY <1>1, <1>4, <1>6, <1>8, <1>11
  <2>4. Bytes(c.a, c.b) \subseteq Covered(r.extents)  BY <1>6, <1>8, <1>11
  <2>5. Cardinality(Covered(r.extents)) = Cardinality(Covered(mem[c.h].extents)) + c.added
    BY <1>8, <1>10, <1>11
  <2> QED
    BY <1>3, <1>8, <1>9, <1>11, <1>12, <2>1, <2>2, <2>3, <2>4, <2>5, MutexTakenKeepsInv

\* A piece is marked only when the extents hold all of it.
LEMMA MarkPieceKeepsInv ==
    ASSUME Inv, NEW w \in Workers, MarkPiece(w)
    PROVE  Inv'
<1> DEFINE t == thread[w].t
           h == thread[w].h
           r == [mem[h] EXCEPT !.completed = @ \cup {thread[w].p}]
           c == [at |-> "manifest", t |-> t, h |-> h, a |-> 0, b |-> 0, added |-> 0]
<1>1. /\ thread[w] \in CallStates /\ thread[w].at = "mark"
      /\ t \in Torrents /\ h \in Arcs /\ thread[w].p \in Pieces
      /\ PieceBytes(thread[w].p, PieceLength, Length) \subseteq Covered(mem[h].extents)
  <2>1. thread[w] \in CallStates /\ thread[w].at = "mark"
    BY DEF Inv, Types, MarkPiece
  <2> QED  BY <2>1, CallIs DEF Inv, CallsKnow, Knows
<1>2. torrents[t] = h /\ h # Nothing
  BY <1>1, DiskConstants DEF Inv, OwnHandles
<1>3. mutex[h] = Nothing  BY DEF MarkPiece, MutexHeld
<1>4. mem[h] \in Records /\ Proper(mem[h]) /\ Covered(mem[h].extents) \subseteq disk[t].good
  BY <1>1, <1>2 DEF Inv, Types, RecordsProper, Indexed
<1>5. /\ r \in Records /\ r.extents = mem[h].extents
      /\ r.completed = mem[h].completed \cup {thread[w].p}
  BY <1>1, <1>4 DEF Records
<1> HIDE DEF r
<1>6. Proper(r)  BY <1>1, <1>4, <1>5 DEF Proper
<1>7. /\ c \in CallStates /\ c.at = "manifest" /\ c.t = t /\ c.h = h
      /\ c.a = 0 /\ c.b = 0 /\ c.added = 0
  BY <1>1, DiskConstants DEF CallStates, Pended
<1>8. /\ mem' = [mem EXCEPT ![h] = r]
      /\ mutex' = [mutex EXCEPT ![h] = w]
      /\ thread' = [thread EXCEPT ![w] = c]
      /\ UNCHANGED <<disk, torrents, op, entries, credited, acked, erred>>
  BY <1>1 DEF MarkPiece, r
<1> HIDE DEF c
<1>9. Bytes(c.a, c.b) \subseteq Covered(r.extents)  BY <1>7 DEF Bytes
<1>10. Cardinality(Covered(r.extents)) = Cardinality(Covered(mem[c.h].extents)) + c.added
  <2>1. Cardinality(Covered(mem[h].extents)) \in Nat  BY <1>4, CoveredIsFinite DEF Proper
  <2> QED  BY <2>1, <1>5, <1>7
<1> QED
  BY <1>1, <1>3, <1>4, <1>5, <1>6, <1>7, <1>8, <1>9, <1>10, MutexTakenKeepsInv

\* While a call writes the manifest of a torrent no other call does.
LEMMA NotContended ==
    ASSUME Inv, NEW w \in Workers, thread[w].at \in Pended
    PROVE  /\ ~Contended(w)
           /\ thread[w] \in [at : Pended, t : Torrents, h : Arcs, a : 0 .. Length,
                             b : 0 .. Length, added : Nat]
           /\ torrents[thread[w].t] = thread[w].h /\ mutex[thread[w].h] = w
           /\ thread[w].h # Nothing
<1>1. thread[w] \in CallStates  BY DEF Inv, Types
<1>2. thread[w] \in [at : Pended, t : Torrents, h : Arcs, a : 0 .. Length,
                     b : 0 .. Length, added : Nat]
  BY <1>1 DEF CallStates, Pended, Ranged, NoCall
<1>3. torrents[thread[w].t] = thread[w].h /\ mutex[thread[w].h] = w
  BY DEF Inv, OwnHandles, OneWriter, Pended
<1>4. \A v \in Workers : thread[v].at \in Pended /\ thread[v].t = thread[w].t => v = w
  BY <1>3 DEF Inv, OwnHandles, OneWriter, Pended
<1>5. ~Contended(w)  BY <1>4 DEF Contended, Calls, Pended
<1> QED  BY <1>2, <1>3, <1>5, DiskConstants

\* The temporary manifest is no promise before its rename.
LEMMA WriteTemporaryKeepsInv ==
    ASSUME Inv, NEW w \in Workers, WriteTemporary(w)
    PROVE  Inv'
<1> DEFINE t == thread[w].t
           h == thread[w].h
           c == [thread[w] EXCEPT !.at = "rename"]
<1>1. /\ thread[w].at = "manifest" /\ ~Contended(w)
      /\ thread[w] \in [at : Pended, t : Torrents, h : Arcs, a : 0 .. Length,
                        b : 0 .. Length, added : Nat]
      /\ torrents[t] = h /\ mutex[h] = w /\ h # Nothing
  BY NotContended DEF WriteTemporary, Pended
<1>2. /\ t \in Torrents /\ h \in Arcs
      /\ c \in CallStates /\ c.at = "rename" /\ c.t = t /\ c.h = h
      /\ c.a = thread[w].a /\ c.b = thread[w].b /\ c.added = thread[w].added
  BY <1>1 DEF CallStates, Pended
<1>3. thread' = [thread EXCEPT ![w] = c]
  BY DEF WriteTemporary, Inv, Types
<1> HIDE DEF c
<1>4. /\ thread' \in [Workers -> CallStates] /\ thread'[w] = c
      /\ \A v \in Workers : v # w => thread'[v] = thread[v]
  BY <1>2, <1>3 DEF Inv, Types
<1>5. mem[h] \in Records /\ Whole(mem[h]) \in FileStates
  BY <1>2 DEF Inv, Types, FileStates, Whole
<1>6. disk[t].dir /\ disk' = [disk EXCEPT ![t].tmp = Whole(mem[h])]
  BY <1>1 DEF WriteTemporary
<1>7. /\ disk' \in [Torrents -> Dirs]
      /\ disk'[t].tmp = Whole(mem[h])
      /\ disk'[t].dir = disk[t].dir /\ disk'[t].manifest = disk[t].manifest
      /\ disk'[t].good = disk[t].good
      /\ \A u \in Torrents : u # t => disk'[u] = disk[u]
  <2>1. disk \in [Torrents -> Dirs] /\ disk[t] \in Dirs  BY <1>2 DEF Inv, Types
  <2>2. disk'[t] = [disk[t] EXCEPT !.tmp = Whole(mem[h])]  BY <1>2, <1>6, <2>1
  <2>3. /\ disk'[t] \in Dirs /\ disk'[t].tmp = Whole(mem[h])
        /\ disk'[t].dir = disk[t].dir /\ disk'[t].manifest = disk[t].manifest
        /\ disk'[t].good = disk[t].good
    BY <2>1, <2>2, <1>5 DEF Dirs
  <2>4. \A u \in Torrents : u # t => disk'[u] = disk[u]  BY <1>6, <2>1
  <2>5. disk' = [u \in Torrents |-> disk'[u]]  BY <1>6, <2>1
  <2> QED  BY <2>1, <2>3, <2>4, <2>5
<1>8. UNCHANGED <<torrents, mem, mutex, op, entries, credited, acked, erred>>
  BY DEF WriteTemporary
<1>9. Types'  BY <1>4, <1>6, <1>7, <1>8 DEF Inv, Types
<1>10. RecordsProper'  BY <1>7, <1>8 DEF Inv, RecordsProper, Proper
<1>11. OwnHandles'  BY <1>1, <1>2, <1>4, <1>7, <1>8 DEF Inv, OwnHandles
<1>12. OneWriter'
  <2>1. \A v \in Workers : thread'[v].at \in Pended => mutex'[thread'[v].h] = v
    BY <1>1, <1>2, <1>4, <1>8 DEF Inv, OneWriter
  <2>2. ASSUME NEW k \in Arcs, mutex'[k] # Nothing
        PROVE  thread'[mutex'[k]].at \in Pended /\ thread'[mutex'[k]].h = k
    <3>1. mutex[k] \in Workers /\ thread[mutex[k]].at \in Pended /\ thread[mutex[k]].h = k
      BY <2>2, <1>8 DEF Inv, OneWriter, Types
    <3>2. CASE mutex[k] = w  BY <3>1, <3>2, <1>2, <1>4, <1>8 DEF Pended
    <3>3. CASE mutex[k] # w  BY <3>1, <3>3, <1>4, <1>8
    <3> QED  BY <3>2, <3>3
  <2> QED  BY <2>1, <2>2 DEF OneWriter
<1>13. Indexed' /\ Resting' /\ Kept' /\ Booting' /\ Going'
  <2>1. \A u \in Torrents : /\ disk'[u].manifest = disk[u].manifest
                            /\ disk'[u].good = disk[u].good
    BY <1>7
  <2>2. Indexed'  BY <2>1, <1>8 DEF Inv, Indexed, Within
  <2>3. Resting'  BY <2>1, <1>8 DEF Inv, Resting
  <2>4. Kept'  BY <2>1, <1>8 DEF Inv, Kept
  <2>5. Booting' /\ Going'  BY <1>8 DEF Inv, Booting, Going
  <2> QED  BY <2>2, <2>3, <2>4, <2>5
<1>14. Reopening'
  <2>1. op.at = "create" => op.t \in Torrents  BY OpIs DEF Inv, Types
  <2> QED  BY <2>1, <1>7, <1>8 DEF Inv, Reopening, Within
<1>15. CallsKnow'
  <2> SUFFICES ASSUME NEW v \in Workers PROVE Knows(v)'  BY DEF CallsKnow
  <2>1. Knows(v) /\ Knows(w) /\ thread[v] \in CallStates  BY DEF Inv, CallsKnow, Types
  <2>2. CASE v = w
    BY <2>1, <2>2, <1>1, <1>2, <1>4, <1>7, <1>8 DEF Knows, Ranged, Pended
  <2>3. CASE v # w
    <3>1. thread[v].at = "rename" => thread[v].t # t
      BY <2>3, <1>1 DEF Contended, Calls
    <3>2. thread[v].at # "idle" => thread[v].t \in Torrents  BY <2>1, CallIs
    <3>3. thread'[v] = thread[v]  BY <2>3, <1>4
    <3>4. thread[v].at # "idle" => disk'[thread[v].t].good = disk[thread[v].t].good
      BY <3>2, <1>7
    <3>5. thread[v].at = "rename" => disk'[thread[v].t] = disk[thread[v].t]
      BY <3>1, <3>2, <1>7
    <3> QED  BY <2>1, <3>3, <3>4, <3>5, <1>8 DEF Knows, Ranged, Pended
  <2> QED  BY <2>2, <2>3
<1>16. Credits'
  <2> SUFFICES ASSUME NEW u \in Torrents, torrents[u] # Nothing
               PROVE  Counted(u)' = Counted(u)
    BY <1>8 DEF Inv, Credits
  <2>1. mutex[torrents[u]] \in Workers \cup {Nothing}  BY DEF Inv, Types
  <2> QED  BY <2>1, <1>2, <1>4, <1>8 DEF Counted
<1> QED
  BY <1>9, <1>10, <1>11, <1>12, <1>13, <1>14, <1>15, <1>16 DEF Inv

\* A call gives the mutex back, with a manifest or without.
MutexGiven(w) ==
    /\ thread[w].at \in Pended
    /\ thread' = [thread EXCEPT ![w] = NoCall]
    /\ mutex' = [mutex EXCEPT ![thread[w].h] = Nothing]
    /\ UNCHANGED <<torrents, mem, op, entries>>

\* What holds whatever becomes of the manifest.
LEMMA MutexGivenKeeps ==
    ASSUME Inv, NEW w \in Workers, MutexGiven(w),
           disk' \in [Torrents -> Dirs],
           \A t \in Torrents : disk'[t].good = disk[t].good /\ disk'[t].dir = disk[t].dir,
           \A t \in Torrents \ {thread[w].t} : disk'[t] = disk[t]
    PROVE  /\ thread' \in [Workers -> CallStates]
           /\ mutex' \in [Arcs -> Workers \cup {Nothing}]
           /\ OwnHandles' /\ OneWriter' /\ CallsKnow' /\ Reopening'
           /\ \A t \in Torrents : t # thread[w].t /\ torrents[t] # Nothing =>
                mutex'[torrents[t]] = mutex[torrents[t]]
           /\ \A v \in Workers : v # w => thread'[v] = thread[v]
           /\ mutex'[thread[w].h] = Nothing
<1> DEFINE t == thread[w].t
           h == thread[w].h
<1>1. /\ ~Contended(w)
      /\ thread[w] \in [at : Pended, t : Torrents, h : Arcs, a : 0 .. Length,
                        b : 0 .. Length, added : Nat]
      /\ torrents[t] = h /\ mutex[h] = w /\ h # Nothing
  BY NotContended DEF MutexGiven
<1>2. t \in Torrents /\ h \in Arcs  BY <1>1
<1>3. NoCall \in CallStates /\ NoCall.at = "idle"  BY DEF CallStates, NoCall
<1>4. /\ thread' \in [Workers -> CallStates] /\ thread'[w] = NoCall
      /\ \A v \in Workers : v # w => thread'[v] = thread[v]
  BY <1>3 DEF Inv, Types, MutexGiven
<1>5. /\ mutex' \in [Arcs -> Workers \cup {Nothing}] /\ mutex'[h] = Nothing
      /\ \A k \in Arcs : k # h => mutex'[k] = mutex[k]
  BY <1>2 DEF Inv, Types, MutexGiven
<1>6. UNCHANGED <<torrents, mem, op, entries>>  BY DEF MutexGiven
<1>7. \A u \in Torrents : u # t /\ torrents[u] # Nothing => mutex'[torrents[u]] = mutex[torrents[u]]
  BY <1>1, <1>2, <1>5 DEF Inv, OwnHandles, Types
<1>8. OwnHandles'
  BY <1>3, <1>4, <1>6 DEF Inv, OwnHandles
<1>9. OneWriter'
  <2>1. ASSUME NEW v \in Workers, thread'[v].at \in Pended
        PROVE  mutex'[thread'[v].h] = v
    <3>1. v # w /\ thread'[v] = thread[v]  BY <2>1, <1>3, <1>4 DEF Pended
    <3>2. mutex[thread[v].h] = v  BY <2>1, <3>1 DEF Inv, OneWriter
    <3>3. thread[v] \in CallStates  BY DEF Inv, Types
    <3>4. thread[v].h \in Arcs \ {h}  BY <2>1, <3>1, <3>2, <3>3, <1>1, CallIs DEF Pended
    <3> QED  BY <3>1, <3>2, <3>4, <1>5
  <2>2. ASSUME NEW k \in Arcs, mutex'[k] # Nothing
        PROVE  thread'[mutex'[k]].at \in Pended /\ thread'[mutex'[k]].h = k
    <3>1. k # h /\ mutex'[k] = mutex[k]  BY <2>2, <1>5
    <3>2. mutex[k] \in Workers /\ thread[mutex[k]].at \in Pended /\ thread[mutex[k]].h = k
      BY <2>2, <3>1 DEF Inv, OneWriter, Types
    <3>3. mutex[k] # w  BY <3>1, <3>2
    <3> QED  BY <3>1, <3>2, <3>3, <1>4
  <2> QED  BY <2>1, <2>2 DEF OneWriter
<1>10. CallsKnow'
  <2> SUFFICES ASSUME NEW v \in Workers PROVE Knows(v)'  BY DEF CallsKnow
  <2>1. Knows(v) /\ thread[v] \in CallStates  BY DEF Inv, CallsKnow, Types
  <2>2. CASE v = w  BY <2>2, <1>3, <1>4 DEF Knows, Ranged, Pended
  <2>3. CASE v # w
    <3>1. thread[v].at = "rename" => thread[v].t # t
      BY <2>3, <1>1 DEF Contended, Calls
    <3>2. thread[v].at # "idle" => thread[v].t \in Torrents  BY <2>1, CallIs
    <3>3. thread'[v] = thread[v]  BY <2>3, <1>4
    <3>4. thread[v].at = "rename" => disk'[thread[v].t] = disk[thread[v].t]
      BY <3>1, <3>2
    <3> QED  BY <2>1, <3>2, <3>3, <3>4, <1>6 DEF Knows, Ranged, Pended
  <2> QED  BY <2>2, <2>3
<1>11. Reopening'
  <2> SUFFICES ASSUME op.at = "create" PROVE Reopening'  BY <1>6 DEF Reopening
  <2>1. op.t \in Torrents /\ torrents[op.t] = Nothing
    BY OpIs DEF Inv, Types, OwnHandles
  <2>2. disk'[op.t] = disk[op.t]  BY <2>1, <1>1
  <2> QED  BY <2>2, <1>6 DEF Inv, Reopening, Within
<1> QED  BY <1>4, <1>5, <1>7, <1>8, <1>9, <1>10, <1>11

\* The rename makes the record the promise; it holds all that was acknowledged.
LEMMA RenameKeepsInv ==
    ASSUME Inv, NEW w \in Workers, Rename(w)
    PROVE  Inv'
<1> DEFINE t == thread[w].t
           h == thread[w].h
           a == thread[w].a
           b == thread[w].b
           added == thread[w].added
<1>1. /\ thread[w].at = "rename"
      /\ t \in Torrents /\ h \in Arcs /\ a \in 0 .. Length /\ b \in 0 .. Length /\ added \in Nat
      /\ torrents[t] = h /\ mutex[h] = w /\ h # Nothing
  BY NotContended DEF Rename, Pended
<1>2. /\ t \in entries /\ disk[t].dir
      /\ disk[t].tmp = Whole(mem[h])
      /\ Bytes(a, b) \subseteq Covered(mem[h].extents)
      /\ Covered(mem[h].extents) \subseteq disk[t].good
      /\ Within(disk[t].manifest, mem[h].extents)
      /\ mem[h] \in Records /\ Proper(mem[h])
  BY <1>1 DEF Inv, OwnHandles, CallsKnow, Knows, Indexed, Types, RecordsProper, Pended
<1>3. /\ disk' = [disk EXCEPT ![t].manifest = Whole(mem[h]), ![t].tmp = NoFile]
      /\ credited' = [credited EXCEPT ![t] = @ + added]
      /\ acked' = [acked EXCEPT ![t] = @ \cup Bytes(a, b)]
      /\ MutexGiven(w) /\ UNCHANGED erred
  BY <1>1, <1>2 DEF Rename, MutexGiven, Pended
<1>4. /\ disk' \in [Torrents -> Dirs]
      /\ disk'[t].manifest = Whole(mem[h])
      /\ disk'[t].dir = disk[t].dir /\ disk'[t].good = disk[t].good
      /\ \A u \in Torrents : u # t => disk'[u] = disk[u]
  <2>1. disk \in [Torrents -> Dirs] /\ disk[t] \in Dirs  BY <1>1 DEF Inv, Types
  <2>2. disk'[t] = [disk[t] EXCEPT !.manifest = Whole(mem[h]), !.tmp = NoFile]
    BY <1>1, <1>3, <2>1
  <2>3. Whole(mem[h]) \in FileStates /\ NoFile \in FileStates
    BY <1>2 DEF FileStates, Whole
  <2>4. /\ disk'[t] \in Dirs /\ disk'[t].manifest = Whole(mem[h])
        /\ disk'[t].dir = disk[t].dir /\ disk'[t].good = disk[t].good
    BY <2>1, <2>2, <2>3 DEF Dirs
  <2>5. \A u \in Torrents : u # t => disk'[u] = disk[u]  BY <1>3, <2>1
  <2>6. disk' = [u \in Torrents |-> disk'[u]]  BY <1>3, <2>1
  <2> QED  BY <2>1, <2>4, <2>5, <2>6
<1>5. /\ acked'[t] = acked[t] \cup Bytes(a, b)
      /\ \A u \in Torrents : u # t => acked'[u] = acked[u]
      /\ credited'[t] = credited[t] + added
      /\ \A u \in Torrents : u # t => credited'[u] = credited[u]
      /\ credited[t] \in Nat
  BY <1>1, <1>3 DEF Inv, Types
<1>6. Whole(mem[h]).state = "whole" /\ Whole(mem[h]).record = mem[h]  BY DEF Whole
<1>7. /\ thread' \in [Workers -> CallStates]
      /\ mutex' \in [Arcs -> Workers \cup {Nothing}]
      /\ OwnHandles' /\ OneWriter' /\ CallsKnow' /\ Reopening'
      /\ \A u \in Torrents : u # t /\ torrents[u] # Nothing =>
           mutex'[torrents[u]] = mutex[torrents[u]]
      /\ \A v \in Workers : v # w => thread'[v] = thread[v]
      /\ mutex'[h] = Nothing
  BY <1>3, <1>4, MutexGivenKeeps
<1>8. UNCHANGED <<torrents, mem, op, entries, erred>>  BY <1>3 DEF MutexGiven
<1>9. Types'
  <2>1. Bytes(a, b) \subseteq Bytes(0, Length)
    BY <1>1, <1>2 DEF Inv, Types, Dirs
  <2>2. acked' \in [Torrents -> SUBSET Bytes(0, Length)]
    BY <2>1, <1>1, <1>3 DEF Inv, Types
  <2>3. credited' \in [Torrents -> Nat]  BY <1>1, <1>3 DEF Inv, Types
  <2>4. \A u \in Torrents : disk'[u].dir \/ disk'[u] = NoDir
    BY <1>2, <1>4 DEF Inv, Types
  <2> QED  BY <2>2, <2>3, <2>4, <1>4, <1>7, <1>8 DEF Inv, Types
<1>10. RecordsProper'
  <2>1. ASSUME NEW u \in Torrents, disk'[u].manifest.state = "whole"
        PROVE  Proper(disk'[u].manifest.record)
    <3>1. CASE u = t  BY <3>1, <1>2, <1>4, <1>6
    <3>2. CASE u # t  BY <3>2, <2>1, <1>4 DEF Inv, RecordsProper
    <3> QED  BY <3>1, <3>2
  <2> QED  BY <2>1, <1>8 DEF Inv, RecordsProper, Proper
<1>11. Indexed'
  <2> SUFFICES ASSUME NEW u \in Torrents, torrents[u] # Nothing
               PROVE  /\ Covered(mem[torrents[u]].extents) \subseteq disk'[u].good
                      /\ Within(disk'[u].manifest, mem[torrents[u]].extents)
    BY <1>8 DEF Indexed, Within
  <2>1. CASE u = t  BY <2>1, <1>1, <1>2, <1>4, <1>6 DEF Within
  <2>2. CASE u # t  BY <2>2, <1>4 DEF Inv, Indexed
  <2> QED  BY <2>1, <2>2
<1>12. Resting'
  <2> SUFFICES ASSUME NEW u \in Torrents, torrents[u] = Nothing
               PROVE  disk'[u] = disk[u]
    BY <1>8 DEF Inv, Resting
  <2> QED  BY <1>1, <1>4
<1>13. Kept'
  <2> SUFFICES ASSUME NEW u \in Torrents, acked'[u] # {}
               PROVE  /\ disk'[u].manifest.state = "whole"
                      /\ acked'[u] \subseteq Covered(disk'[u].manifest.record.extents)
                      /\ Covered(disk'[u].manifest.record.extents) \subseteq disk'[u].good
    BY DEF Kept
  <2>1. CASE u = t
    <3>1. acked[t] \subseteq Covered(mem[h].extents)
      BY <1>1, <1>2 DEF Inv, Kept, Within
    <3> QED  BY <2>1, <3>1, <1>2, <1>4, <1>5, <1>6
  <2>2. CASE u # t  BY <2>2, <1>4, <1>5 DEF Inv, Kept
  <2> QED  BY <2>1, <2>2
<1>14. Booting' /\ Going'
  <2>1. op.at = "clear" => op.t # t  BY <1>1 DEF Inv, OwnHandles
  <2>2. op.at = "clear" => acked'[op.t] = {}
    BY <2>1, <1>5, OpIs DEF Inv, Going, Types
  <2>3. op.at = "discard" \/ (op.at = "clear" /\ op.kind = "discard") =>
          \A u \in Torrents \ op.keep : acked'[u] = {}
    <3> SUFFICES ASSUME op.at = "discard" \/ (op.at = "clear" /\ op.kind = "discard"),
                        NEW u \in Torrents \ op.keep
                 PROVE  acked'[u] = {}
      OBVIOUS
    <3>1. acked[u] = {}  BY DEF Inv, Going
    <3>2. CASE u # t  BY <3>1, <3>2, <1>5
    <3>3. CASE u = t  BY <3>3, <1>1, <1>2 DEF Inv, Booting
    <3> QED  BY <3>2, <3>3
  <2> QED  BY <2>2, <2>3, <1>8 DEF Inv, Going, Booting
<1>15. Credits'
  <2> SUFFICES ASSUME NEW u \in Torrents, torrents[u] # Nothing
               PROVE  Counted(u)' = Counted(u)
    BY <1>8 DEF Inv, Credits
  <2>1. CASE u = t
    <3>1. Counted(u)' = credited'[t] + 0  BY <2>1, <1>1, <1>7, <1>8 DEF Counted
    <3>2. Counted(u) = credited[t] + added  BY <2>1, <1>1, DiskConstants DEF Counted
    <3> QED  BY <2>1, <3>1, <3>2, <1>1, <1>5
  <2>2. CASE u # t
    <3>1. torrents[u] \in Arcs  BY DEF Inv, Types
    <3>2. mutex[torrents[u]] \in Workers \cup {Nothing}  BY <3>1 DEF Inv, Types
    <3>3. mutex[torrents[u]] # w
      BY <2>2, <3>1, <1>1, DiskConstants DEF Inv, OneWriter, OwnHandles
    <3> QED  BY <2>2, <3>2, <3>3, <1>5, <1>7, <1>8 DEF Counted
  <2> QED  BY <2>1, <2>2
<1> QED
  BY <1>7, <1>9, <1>10, <1>11, <1>12, <1>13, <1>14, <1>15 DEF Inv

\* A failed manifest leaves the earlier one, and an error for the caller.
LEMMA ManifestFailsKeepsInv ==
    ASSUME Inv, NEW w \in Workers, ManifestFails(w)
    PROVE  Inv'
<1> DEFINE t == thread[w].t
           h == thread[w].h
           added == thread[w].added
<1>1. /\ thread[w].at \in Pended
      /\ t \in Torrents /\ h \in Arcs /\ added \in Nat
      /\ torrents[t] = h /\ mutex[h] = w /\ h # Nothing
  BY NotContended DEF ManifestFails, Pended
<1>2. disk[t].dir  BY <1>1 DEF Inv, OwnHandles
<1>3. /\ disk' = [disk EXCEPT ![t].tmp = CutFile]
      /\ erred' = erred \cup {t}
      /\ MutexGiven(w) /\ UNCHANGED <<credited, acked>>
  BY <1>1, <1>2 DEF ManifestFails, MutexGiven
<1>4. /\ disk' \in [Torrents -> Dirs]
      /\ \A u \in Torrents : /\ disk'[u].manifest = disk[u].manifest
                             /\ disk'[u].dir = disk[u].dir /\ disk'[u].good = disk[u].good
      /\ \A u \in Torrents : u # t => disk'[u] = disk[u]
  <2>1. disk \in [Torrents -> Dirs] /\ disk[t] \in Dirs  BY <1>1 DEF Inv, Types
  <2>2. disk'[t] = [disk[t] EXCEPT !.tmp = CutFile]  BY <1>1, <1>3, <2>1
  <2>3. /\ disk'[t] \in Dirs /\ disk'[t].manifest = disk[t].manifest
        /\ disk'[t].dir = disk[t].dir /\ disk'[t].good = disk[t].good
    BY <2>1, <2>2 DEF Dirs, FileStates
  <2>4. \A u \in Torrents : u # t => disk'[u] = disk[u]  BY <1>3, <2>1
  <2>5. disk' = [u \in Torrents |-> disk'[u]]  BY <1>3, <2>1
  <2> QED  BY <2>1, <2>3, <2>4, <2>5
<1>5. /\ thread' \in [Workers -> CallStates]
      /\ mutex' \in [Arcs -> Workers \cup {Nothing}]
      /\ OwnHandles' /\ OneWriter' /\ CallsKnow' /\ Reopening'
      /\ \A u \in Torrents : u # t /\ torrents[u] # Nothing =>
           mutex'[torrents[u]] = mutex[torrents[u]]
      /\ \A v \in Workers : v # w => thread'[v] = thread[v]
      /\ mutex'[h] = Nothing
  BY <1>3, <1>4, MutexGivenKeeps
<1>6. UNCHANGED <<torrents, mem, op, entries, credited, acked>>  BY <1>3 DEF MutexGiven
<1>7. Types'
  <2>1. \A u \in Torrents : disk'[u].dir \/ disk'[u] = NoDir
    BY <1>2, <1>4 DEF Inv, Types
  <2> QED  BY <2>1, <1>1, <1>3, <1>4, <1>5, <1>6 DEF Inv, Types
<1>8. RecordsProper'
  BY <1>4, <1>6 DEF Inv, RecordsProper, Proper
<1>9. Indexed'
  BY <1>4, <1>6 DEF Inv, Indexed, Within
<1>10. Resting'
  BY <1>4, <1>6 DEF Inv, Resting
<1>11. Kept' /\ Booting' /\ Going'
  <2>1. Kept'  BY <1>4, <1>6 DEF Inv, Kept
  <2> QED  BY <2>1, <1>6 DEF Inv, Booting, Going
<1>12. Credits'
  <2> SUFFICES ASSUME NEW u \in Torrents, torrents[u] # Nothing
               PROVE  LET stored == Cardinality(Covered(mem[torrents[u]].extents))
                      IN  Counted(u)' <= stored /\ (u \notin erred' => Counted(u)' = stored)
    BY <1>6 DEF Credits
  <2> DEFINE stored == Cardinality(Covered(mem[torrents[u]].extents))
  <2>1. Counted(u) <= stored /\ (u \notin erred => Counted(u) = stored)
    BY DEF Inv, Credits
  <2>2. CASE u = t
    <3>1. Counted(u)' = credited[t] + 0  BY <2>2, <1>1, <1>5, <1>6 DEF Counted
    <3>2. Counted(u) = credited[t] + added  BY <2>2, <1>1, DiskConstants DEF Counted
    <3>3. credited[t] \in Nat  BY <1>1 DEF Inv, Types
    <3>4. stored \in Nat
      BY <2>2, <1>1, CoveredIsFinite DEF Inv, RecordsProper, Proper
    <3> QED  BY <2>1, <2>2, <3>1, <3>2, <3>3, <3>4, <1>1, <1>3
  <2>3. CASE u # t
    <3>1. torrents[u] \in Arcs  BY DEF Inv, Types
    <3>2. mutex[torrents[u]] \in Workers \cup {Nothing}  BY <3>1 DEF Inv, Types
    <3>3. mutex[torrents[u]] # w
      BY <2>3, <3>1, <1>1, DiskConstants DEF Inv, OneWriter, OwnHandles
    <3>4. Counted(u)' = Counted(u)  BY <2>3, <3>2, <3>3, <1>5, <1>6 DEF Counted
    <3> QED  BY <2>1, <2>3, <3>4, <1>3
  <2> QED  BY <2>2, <2>3
<1> QED
  BY <1>5, <1>7, <1>8, <1>9, <1>10, <1>11, <1>12 DEF Inv

-----------------------------------------------------------------------------
(* The steps of the cache's calls. *)

\* open starts with what the directory holds (disk.rs:138-168).
LEMMA OpenKeepsInv ==
    ASSUME Inv, NEW t \in Torrents, Open(t)
    PROVE  Inv'
<1>1. torrents[t] = Nothing /\ acked \in [Torrents -> SUBSET Bytes(0, Length)]
  BY DEF Open, Inv, OwnHandles, Types
<1>2. CASE Restored(t).ok
  <2> DEFINE o == [at |-> "create", t |-> t, record |-> Restored(t).record]
  <2>1. op' = o  BY <1>1, <1>2 DEF Open
  <2>2. /\ disk[t].manifest.state = "whole"
        /\ Restored(t).record = disk[t].manifest.record
        /\ Proper(Restored(t).record)
        /\ Covered(Restored(t).record.extents) \subseteq disk[t].good
    BY <1>2, RestoredIsThere
  <2>3. Restored(t).record \in Records
    <3>1. disk[t].manifest \in FileStates  BY DEF Inv, Types, Dirs
    <3> QED  BY <2>2, <3>1, FileIs
  <2>4. op' \in OpStates  BY <2>1, <2>3 DEF OpStates
  <2>5. op'.at = "create" /\ op'.t = t /\ op'.record = Restored(t).record  BY <2>1
  <2>6. Going' /\ Booting'  BY <2>5 DEF Going, Booting
  <2>7. Reopening'  BY <2>2, <2>5 DEF Reopening, Within, Open
  <2> QED  BY <1>1, <2>2, <2>4, <2>5, <2>6, <2>7, OpKeepsInv DEF Open
<1>3. CASE ~Restored(t).ok
  <2> DEFINE o == [at |-> "clear", kind |-> "open", t |-> t, h |-> Nothing]
  <2>1. op' = o  BY <1>3 DEF Open
  <2>2. op' \in OpStates  BY <2>1 DEF OpStates, Clears
  <2>3. op'.at = "clear" /\ op'.t = t /\ op'.kind = "open"  BY <2>1
  <2>4. acked[t] = {}  BY <1>3, AckedIsRestored
  <2>5. Going' /\ Booting'  BY <2>3, <2>4 DEF Going, Booting, Open
  <2> QED  BY <1>1, <2>2, <2>3, <2>5, OpKeepsInv DEF Open
<1> QED  BY <1>2, <1>3

\* An open or a removal that fails changes nothing more.
LEMMA EndKeepsInv ==
    ASSUME Inv, OpenFails \/ ClearFails
    PROVE  Inv'
<1>1. op' = Free /\ Free \in OpStates /\ Free.at = "free"
  BY DEF OpenFails, ClearFails, OpStates, Free
<1>2. Going' /\ Booting'  BY <1>1 DEF Going, Booting
<1>3. acked \in [Torrents -> SUBSET Bytes(0, Length)]  BY DEF Inv, Types
<1> QED  BY <1>1, <1>2, <1>3, OpKeepsInv DEF OpenFails, ClearFails

\* A removal that is through leaves no directory behind (disk.rs:170-205).
LEMMA ClearedKeepsInv ==
    ASSUME Inv, Cleared
    PROVE  Inv'
<1>1. /\ op \in OpStates /\ op.at = "clear" /\ op \in Clears
      /\ op.t \in Torrents /\ torrents[op.t] = Nothing
      /\ disk[op.t] = NoDir /\ acked[op.t] = {}
      /\ op.kind \in {"open", "remove", "discard"}
      /\ op.kind = "discard" => op.keep \in SUBSET Torrents
  <2>1. op \in OpStates /\ op.at = "clear"  BY DEF Cleared, Inv, Types
  <2>2. op.t \in Torrents  BY <2>1, OpIs
  <2>3. disk[op.t] = NoDir  BY <2>1, <2>2 DEF Cleared, Inv, Types
  <2> QED  BY <2>1, <2>2, <2>3, OpIs DEF Inv, OwnHandles, Going
<1>2. acked \in [Torrents -> SUBSET Bytes(0, Length)] /\ entries \in SUBSET Torrents
  BY DEF Inv, Types
<1>3. UNCHANGED <<disk, torrents, mem, mutex, thread, credited, acked, erred>>
  BY DEF Cleared
<1>4. entries' \in SUBSET entries /\ \A t \in entries \ entries' : torrents[t] = Nothing
  BY <1>1 DEF Cleared
<1>5. CASE op.kind = "open"
  <2>1. op' = [at |-> "create", t |-> op.t, record |-> Blank]  BY <1>5 DEF Cleared
  <2>2. op'.at = "create" /\ op'.t = op.t /\ op'.record = Blank  BY <2>1
  <2>3. op' \in OpStates  BY <2>1, <1>1, BlankIs DEF OpStates
  <2>4. Going' /\ Booting'  BY <2>2 DEF Going, Booting
  <2>5. Reopening'
    <3>1. disk[op.t].manifest.state # "whole"  BY <1>1 DEF NoDir, NoFile
    <3> QED  BY <2>2, <3>1, <1>3, BlankIs DEF Reopening, Within
  <2> QED  BY <1>1, <1>2, <1>3, <1>4, <2>2, <2>3, <2>4, <2>5, BlankIs, OpKeepsInv
<1>6. CASE op.kind = "remove"
  <2>1. op' = Free /\ Free \in OpStates /\ Free.at = "free"
    BY <1>6 DEF Cleared, OpStates, Free
  <2>2. Going' /\ Booting'  BY <2>1 DEF Going, Booting
  <2> QED  BY <1>2, <1>3, <1>4, <2>1, <2>2, OpKeepsInv
<1>7. CASE op.kind = "discard"
  <2>1. op' = [at |-> "discard", keep |-> op.keep]  BY <1>7 DEF Cleared
  <2>2. op'.at = "discard" /\ op'.keep = op.keep  BY <2>1
  <2>3. op' \in OpStates  BY <2>1, <1>1, <1>7 DEF OpStates
  <2>4. Going' /\ Booting'
    BY <2>2, <1>1, <1>3, <1>4, <1>7 DEF Inv, Going, Booting
  <2> QED  BY <1>2, <1>3, <1>4, <2>2, <2>3, <2>4, OpKeepsInv
<1> QED  BY <1>1, <1>5, <1>6, <1>7

\* At start nothing is open, and the manifests are what is left.
LEMMA BootKeepsInv ==
    ASSUME Inv, NEW keep \in SUBSET Torrents, Boot(keep)
    PROVE  Inv'
<1>1. op' = [at |-> "discard", keep |-> keep]  BY DEF Boot
<1>2. op'.at = "discard" /\ op'.keep = keep /\ op' \in OpStates  BY <1>1 DEF OpStates
<1>3. /\ acked' \in [Torrents -> SUBSET Bytes(0, Length)]
      /\ \A t \in Torrents : acked'[t] \subseteq acked[t]
      /\ \A t \in Torrents \ keep : acked'[t] = {}
  BY DEF Boot, Inv, Types
<1>4. Going' /\ Booting'  BY <1>2, <1>3 DEF Boot, Inv, Going, Booting
<1> QED  BY <1>2, <1>3, <1>4, OpKeepsInv DEF Boot

\* The clean-up at start removes directories the registry does not list.
LEMMA DiscardKeepsInv ==
    ASSUME Inv, Discard
    PROVE  Inv'
<1>1. op \in OpStates /\ op.at = "discard" /\ op.keep \in SUBSET Torrents
  BY OpIs DEF Inv, Types, Discard
<1>2. acked \in [Torrents -> SUBSET Bytes(0, Length)]  BY DEF Inv, Types
<1>3. CASE op' = Free
  <2>1. Free \in OpStates /\ Free.at = "free"  BY DEF OpStates, Free
  <2>2. Going' /\ Booting'  BY <1>3, <2>1 DEF Going, Booting
  <2> QED  BY <1>2, <1>3, <2>1, <2>2, OpKeepsInv DEF Discard
<1>4. ASSUME NEW t \in Torrents, t \notin op.keep, torrents[t] = Nothing,
             op' = [at |-> "clear", kind |-> "discard", t |-> t, h |-> Nothing, keep |-> op.keep]
      PROVE  Inv'
  <2>1. op' \in OpStates  BY <1>1, <1>4 DEF OpStates, Clears
  <2>2. op'.at = "clear" /\ op'.kind = "discard" /\ op'.t = t /\ op'.keep = op.keep  BY <1>4
  <2>3. Going' /\ Booting'
    BY <1>1, <1>4, <2>2 DEF Discard, Inv, Going, Booting
  <2> QED  BY <1>2, <1>4, <2>1, <2>2, <2>3, OpKeepsInv DEF Discard
<1> QED  BY <1>3, <1>4 DEF Discard

\* The handle of an opened torrent starts from the record restore took.
LEMMA OpenCreateKeepsInv ==
    ASSUME Inv, NEW h \in Arcs, OpenCreate(h)
    PROVE  Inv'
<1> DEFINE t == op.t
           r == op.record
<1>1. /\ t \in Torrents /\ r \in Records /\ torrents[t] = Nothing
      /\ Proper(r) /\ Covered(r.extents) \subseteq disk[t].good
      /\ Within(disk[t].manifest, r.extents)
  BY OpIs DEF OpenCreate, Inv, Types, OwnHandles, RecordsProper, Reopening
<1>2. h # Nothing  BY DiskConstants
<1>3. /\ \A u \in Torrents : torrents[u] # h
      /\ \A w \in Workers : thread[w].at # "idle" => thread[w].h # h
      /\ mutex[h] = Nothing
  <2>1. \A u \in Torrents : torrents[u] # h  BY DEF OpenCreate, InUse
  <2>2. \A w \in Workers : thread[w].at # "idle" => thread[w].h # h
    BY DEF OpenCreate, InUse
  <2>3. mutex[h] \in Workers \cup {Nothing}  BY DEF Inv, Types
  <2>4. mutex[h] = Nothing  BY <2>2, <2>3 DEF Inv, OneWriter, Pended
  <2> QED  BY <2>1, <2>2, <2>4
<1>4. \A w \in Workers : thread[w].at # "idle" => thread[w].t \in Torrents \ {t}
  BY <1>1, CallIs, DiskConstants DEF Inv, Types, OwnHandles
<1>5. /\ torrents' \in [Torrents -> Arcs \cup {Nothing}] /\ torrents'[t] = h
      /\ \A u \in Torrents : u # t => torrents'[u] = torrents[u]
  BY <1>1 DEF OpenCreate, Inv, Types
<1>6. /\ mem' \in [Arcs -> Records] /\ mem'[h] = r
      /\ \A k \in Arcs : k # h => mem'[k] = mem[k]
  BY <1>1 DEF OpenCreate, Inv, Types
<1>7. /\ disk' \in [Torrents -> Dirs] /\ disk'[t].dir
      /\ \A u \in Torrents : /\ disk'[u].manifest = disk[u].manifest
                             /\ disk'[u].good = disk[u].good /\ disk'[u].tmp = disk[u].tmp
      /\ \A u \in Torrents : u # t => disk'[u] = disk[u]
  <2>1. disk \in [Torrents -> Dirs] /\ disk[t] \in Dirs  BY <1>1 DEF Inv, Types
  <2>2. disk' = [disk EXCEPT ![t].dir = TRUE]  BY DEF OpenCreate
  <2>3. disk'[t] = [disk[t] EXCEPT !.dir = TRUE]  BY <1>1, <2>1, <2>2
  <2>4. /\ disk'[t] \in Dirs /\ disk'[t].dir = TRUE
        /\ disk'[t].manifest = disk[t].manifest
        /\ disk'[t].good = disk[t].good /\ disk'[t].tmp = disk[t].tmp
    BY <2>1, <2>3 DEF Dirs
  <2>5. \A u \in Torrents : u # t => disk'[u] = disk[u]  BY <2>1, <2>2
  <2>6. disk' = [u \in Torrents |-> disk'[u]]  BY <2>1, <2>2
  <2> QED  BY <2>1, <2>4, <2>5, <2>6
<1>8. Size(r.extents) = Cardinality(Covered(r.extents)) /\ Size(r.extents) \in Nat
  BY <1>1, SizeIsCount, CoveredIsFinite DEF Proper
<1>9. /\ credited' \in [Torrents -> Nat] /\ credited'[t] = Size(r.extents)
      /\ \A u \in Torrents : u # t => credited'[u] = credited[u]
  BY <1>1, <1>8 DEF OpenCreate, Inv, Types
<1>10. op' = Free /\ op'.at = "free" /\ op' \in OpStates
  BY DEF OpenCreate, Free, OpStates
<1>11. /\ entries' = entries \cup {t} /\ erred' = erred \ {t}
       /\ UNCHANGED <<mutex, thread, acked>>
  BY DEF OpenCreate
<1>12. Types'
  <2>1. \A u \in Torrents : disk'[u].dir \/ disk'[u] = NoDir
    BY <1>7 DEF Inv, Types
  <2> QED  BY <2>1, <1>1, <1>5, <1>6, <1>7, <1>9, <1>10, <1>11 DEF Inv, Types
<1>13. RecordsProper'
  <2>1. \A k \in Arcs : Proper(mem'[k])  BY <1>1, <1>6 DEF Inv, RecordsProper
  <2> QED  BY <2>1, <1>7, <1>10 DEF Inv, RecordsProper, Proper
<1>14. OwnHandles'
  <2>1. \A u \in Torrents : torrents'[u] # Nothing => u \in entries' /\ disk'[u].dir
    BY <1>5, <1>7, <1>11 DEF Inv, OwnHandles
  <2>2. \A u, v \in Torrents : torrents'[u] = torrents'[v] => u = v \/ torrents'[u] = Nothing
    BY <1>3, <1>5 DEF Inv, OwnHandles
  <2>3. \A w \in Workers : thread'[w].at # "idle" => torrents'[thread'[w].t] = thread'[w].h
    BY <1>4, <1>5, <1>11 DEF Inv, OwnHandles
  <2> QED  BY <2>1, <2>2, <2>3, <1>10 DEF OwnHandles
<1>15. OneWriter'  BY <1>11 DEF Inv, OneWriter
<1>16. Indexed'
  <2> SUFFICES ASSUME NEW u \in Torrents, torrents'[u] # Nothing
               PROVE  /\ Covered(mem'[torrents'[u]].extents) \subseteq disk'[u].good
                      /\ Within(disk'[u].manifest, mem'[torrents'[u]].extents)
    BY DEF Indexed, Within
  <2>1. CASE u = t  BY <2>1, <1>1, <1>5, <1>6, <1>7
  <2>2. CASE u # t
    <3>1. torrents'[u] = torrents[u] /\ torrents[u] \in Arcs \ {h}
      BY <2>2, <1>3, <1>5 DEF Inv, Types
    <3> QED  BY <2>2, <3>1, <1>6, <1>7 DEF Inv, Indexed
  <2> QED  BY <2>1, <2>2
<1>17. Resting'
  BY <1>2, <1>5, <1>7 DEF Inv, Resting
<1>18. Reopening' /\ Booting' /\ Going'
  BY <1>10 DEF Reopening, Booting, Going
<1>19. CallsKnow'
  <2> SUFFICES ASSUME NEW w \in Workers PROVE Knows(w)'  BY DEF CallsKnow
  <2>1. Knows(w) /\ thread[w] \in CallStates  BY DEF Inv, CallsKnow, Types
  <2>2. CASE thread[w].at = "idle"
    BY <2>2, <1>11 DEF Knows, Ranged, Pended
  <2>3. CASE thread[w].at # "idle"
    <3>1. thread[w].h \in Arcs \ {h} /\ thread[w].t \in Torrents \ {t}
      BY <2>1, <2>3, <1>3, <1>4, CallIs
    <3>2. mem'[thread[w].h] = mem[thread[w].h] /\ disk'[thread[w].t] = disk[thread[w].t]
      BY <3>1, <1>6, <1>7
    <3> QED  BY <2>1, <3>2, <1>11 DEF Knows
  <2> QED  BY <2>2, <2>3
<1>20. Kept'
  BY <1>7, <1>11 DEF Inv, Kept
<1>21. Credits'
  <2> SUFFICES ASSUME NEW u \in Torrents, torrents'[u] # Nothing
               PROVE  LET stored == Cardinality(Covered(mem'[torrents'[u]].extents))
                      IN  Counted(u)' <= stored /\ (u \notin erred' => Counted(u)' = stored)
    BY DEF Credits
  <2>1. CASE u = t
    <3>1. Counted(u)' = Size(r.extents) + 0
      BY <2>1, <1>3, <1>5, <1>9, <1>11 DEF Counted
    <3>2. mem'[torrents'[u]] = r  BY <2>1, <1>5, <1>6
    <3> QED  BY <3>1, <3>2, <1>8
  <2>2. CASE u # t
    <3>1. torrents'[u] = torrents[u] /\ torrents[u] \in Arcs \ {h}
      BY <2>2, <1>3, <1>5 DEF Inv, Types
    <3>2. Counted(u)' = Counted(u)  BY <2>2, <3>1, <1>9, <1>11 DEF Counted
    <3>3. mem'[torrents'[u]] = mem[torrents[u]]  BY <3>1, <1>6
    <3> QED  BY <2>2, <3>1, <3>2, <3>3, <1>11 DEF Inv, Credits
  <2> QED  BY <2>1, <2>2
<1> QED
  BY <1>12, <1>13, <1>14, <1>15, <1>16, <1>17, <1>18, <1>19, <1>20, <1>21 DEF Inv

\* remove forgets the handle before the directory goes.
LEMMA RemoveKeepsInv ==
    ASSUME Inv, Quiet, NEW t \in Torrents, Remove(t)
    PROVE  Inv'
<1>1. \A w \in Workers : thread[w].at # "idle" => thread[w].t \in Torrents \ {t}
  BY CallIs DEF Remove, Calls, Inv, Types
<1>2. /\ torrents' \in [Torrents -> Arcs \cup {Nothing}] /\ torrents'[t] = Nothing
      /\ \A u \in Torrents : u # t => torrents'[u] = torrents[u]
  BY DEF Remove, Inv, Types
<1>3. /\ acked' \in [Torrents -> SUBSET Bytes(0, Length)] /\ acked'[t] = {}
      /\ \A u \in Torrents : u # t => acked'[u] = acked[u]
  BY DEF Remove, Inv, Types
<1>4. UNCHANGED <<disk, mem, mutex, thread, credited, erred>>  BY DEF Remove
<1>5. /\ op' \in OpStates /\ op'.at \in {"free", "clear"}
      /\ op'.at = "clear" => op'.t = t /\ op'.kind = "remove"
      /\ entries' \in SUBSET Torrents /\ \A u \in entries : u # t => u \in entries'
  <2>1. CASE torrents[t] = Nothing
    <3>1. op' = Free /\ entries' = entries \ {t}  BY <2>1 DEF Remove
    <3> QED  BY <3>1 DEF OpStates, Free, Inv, Types
  <2>2. CASE torrents[t] # Nothing
    <3>1. /\ op' = [at |-> "clear", kind |-> "remove", t |-> t, h |-> torrents[t]]
          /\ entries' = entries
      BY <2>2 DEF Remove
    <3>2. torrents[t] \in Arcs  BY <2>2 DEF Inv, Types
    <3> QED  BY <3>1, <3>2 DEF OpStates, Clears, Inv, Types
  <2> QED  BY <2>1, <2>2
<1>6. Types'  BY <1>2, <1>3, <1>4, <1>5 DEF Inv, Types
<1>7. RecordsProper'  BY <1>4, <1>5 DEF Inv, RecordsProper, Proper
<1>8. OwnHandles'
  <2>1. \A u \in Torrents : torrents'[u] # Nothing => u \in entries' /\ disk'[u].dir
    BY <1>2, <1>4, <1>5 DEF Inv, OwnHandles
  <2>2. \A u, v \in Torrents : torrents'[u] = torrents'[v] => u = v \/ torrents'[u] = Nothing
    BY <1>2 DEF Inv, OwnHandles
  <2>3. \A w \in Workers : thread'[w].at # "idle" => torrents'[thread'[w].t] = thread'[w].h
    BY <1>1, <1>2, <1>4 DEF Inv, OwnHandles
  <2> QED  BY <2>1, <2>2, <2>3, <1>2, <1>5 DEF OwnHandles
<1>9. OneWriter' /\ CallsKnow'
  BY <1>4 DEF Inv, OneWriter, CallsKnow, Knows
<1>10. Indexed'
  BY <1>2, <1>4 DEF Inv, Indexed, Within
<1>11. Resting'
  <2> SUFFICES ASSUME disk[t].manifest.state = "whole"
               PROVE  \/ disk[t].good = {}
                      \/ Covered(disk[t].manifest.record.extents) \subseteq disk[t].good
    BY <1>2, <1>4 DEF Inv, Resting
  <2>1. CASE torrents[t] = Nothing  BY <2>1 DEF Inv, Resting
  <2>2. CASE torrents[t] # Nothing  BY <2>2 DEF Inv, Indexed, Within
  <2> QED  BY <2>1, <2>2
<1>12. Reopening' /\ Booting' /\ Going'
  BY <1>3, <1>5 DEF Reopening, Booting, Going
<1>13. Kept'
  BY <1>3, <1>4 DEF Inv, Kept
<1>14. Credits'
  BY <1>2, <1>4 DEF Inv, Credits, Counted
<1> QED
  BY <1>6, <1>7, <1>8, <1>9, <1>10, <1>11, <1>12, <1>13, <1>14 DEF Inv

\* The files of a removal go one at a time, the manifest's promise with the data.
LEMMA ClearKeepsInv ==
    ASSUME Inv, Clear
    PROVE  Inv'
<1> DEFINE t == op.t
<1>1. /\ op \in OpStates /\ op.at = "clear" /\ t \in Torrents
      /\ torrents[t] = Nothing /\ acked[t] = {} /\ disk[t].dir
  BY OpIs DEF Clear, Inv, Types, OwnHandles, Going
<1>2. \A w \in Workers : thread[w].at # "idle" => thread[w].t \in Torrents \ {t}
  BY <1>1, CallIs, DiskConstants DEF Inv, Types, OwnHandles
<1>3. UNCHANGED <<torrents, mem, mutex, thread, op, entries, credited, acked, erred>>
  BY DEF Clear
<1>4. /\ disk' \in [Torrents -> Dirs]
      /\ disk'[t].dir \/ disk'[t] = NoDir
      /\ \/ disk'[t].good = {}
         \/ disk'[t].manifest.state = "none"
         \/ disk'[t].good = disk[t].good /\ disk'[t].manifest = disk[t].manifest
      /\ disk'[t].manifest.state = "whole" => disk'[t].manifest = disk[t].manifest
      /\ \A u \in Torrents : u # t => disk'[u] = disk[u]
  <2> DEFINE d == disk[t]
  <2>1. disk \in [Torrents -> Dirs] /\ d \in Dirs /\ NoDir \in Dirs
    BY <1>1 DEF Inv, Types, Dirs, NoDir, FileStates
  <2>2. \E e \in {[d EXCEPT !.good = {}], [d EXCEPT !.manifest = NoFile],
                  [d EXCEPT !.tmp = NoFile], NoDir} : disk' = [disk EXCEPT ![t] = e]
    <3>1. \/ disk' = [disk EXCEPT ![t] = [d EXCEPT !.good = {}]]
          \/ disk' = [disk EXCEPT ![t] = [d EXCEPT !.manifest = NoFile]]
          \/ disk' = [disk EXCEPT ![t] = [d EXCEPT !.tmp = NoFile]]
          \/ disk' = [disk EXCEPT ![t] = NoDir]
      BY DEF Clear
    <3> QED  BY <3>1
  <2>3. PICK e \in {[d EXCEPT !.good = {}], [d EXCEPT !.manifest = NoFile],
                    [d EXCEPT !.tmp = NoFile], NoDir} : disk' = [disk EXCEPT ![t] = e]
    BY <2>2
  <2>4. /\ e \in Dirs
        /\ e.dir \/ e = NoDir
        /\ \/ e.good = {}
           \/ e.manifest.state = "none"
           \/ e.good = d.good /\ e.manifest = d.manifest
        /\ e.manifest.state = "whole" => e.manifest = d.manifest
    <3>1. CASE e = [d EXCEPT !.good = {}]
      BY <3>1, <2>1, <1>1 DEF Dirs
    <3>2. CASE e = [d EXCEPT !.manifest = NoFile]
      BY <3>2, <2>1, <1>1 DEF Dirs, FileStates, NoFile
    <3>3. CASE e = [d EXCEPT !.tmp = NoFile]
      BY <3>3, <2>1, <1>1 DEF Dirs, FileStates
    <3>4. CASE e = NoDir
      BY <3>4, <2>1 DEF NoDir, NoFile
    <3> QED  BY <3>1, <3>2, <3>3, <3>4
  <2>5. disk'[t] = e /\ \A u \in Torrents : u # t => disk'[u] = disk[u]
    BY <1>1, <2>1, <2>3
  <2>6. disk' \in [Torrents -> Dirs]  BY <2>1, <2>3, <2>4
  <2> QED  BY <2>4, <2>5, <2>6
<1>5. Types'  BY <1>3, <1>4 DEF Inv, Types
<1>6. RecordsProper'  BY <1>3, <1>4 DEF Inv, RecordsProper, Proper
<1>7. OwnHandles'  BY <1>1, <1>3, <1>4 DEF Inv, OwnHandles
<1>8. OneWriter'  BY <1>3 DEF Inv, OneWriter
<1>9. Indexed'  BY <1>1, <1>3, <1>4 DEF Inv, Indexed, Within
<1>10. Resting'  BY <1>3, <1>4 DEF Inv, Resting
<1>11. Reopening' /\ Booting' /\ Going'  BY <1>1, <1>3 DEF Inv, Reopening, Booting, Going
<1>12. CallsKnow'  BY <1>2, <1>3, <1>4 DEF Inv, CallsKnow, Knows, Ranged, Pended
<1>13. Kept'  BY <1>1, <1>3, <1>4 DEF Inv, Kept
<1>14. Credits'  BY <1>3 DEF Inv, Credits, Counted
<1> QED
  BY <1>5, <1>6, <1>7, <1>8, <1>9, <1>10, <1>11, <1>12, <1>13, <1>14 DEF Inv

\* A crash ends every call; the files stay.
LEMMA CrashKeepsInv ==
    ASSUME Inv, Crash
    PROVE  Inv'
<1> USE DEF Crash
<1>1. op' = [at |-> "boot"] /\ op'.at = "boot" /\ op' \in OpStates  BY DEF OpStates
<1>2. /\ torrents' = [t \in Torrents |-> Nothing] /\ entries' = {} /\ erred' = {}
      /\ UNCHANGED <<disk, acked>>
  OBVIOUS
<1>3. thread' \in [Workers -> CallStates] /\ \A w \in Workers : thread'[w] = NoCall
  BY DEF CallStates
<1>4. NoCall.at = "idle"  BY DEF NoCall
<1>5. mem' \in [Arcs -> Records] /\ \A h \in Arcs : Proper(mem'[h])
  BY BlankIs
<1>6. Types'  BY <1>1, <1>2, <1>3, <1>5 DEF Inv, Types
<1>7. RecordsProper'  BY <1>1, <1>2, <1>5 DEF Inv, RecordsProper, Proper
<1>8. OwnHandles' /\ OneWriter'
  BY <1>1, <1>2, <1>3, <1>4 DEF OwnHandles, OneWriter, Pended
<1>9. Indexed' /\ Credits'  BY <1>2 DEF Indexed, Credits
<1>10. Resting'
  <2> SUFFICES ASSUME NEW t \in Torrents, disk[t].manifest.state = "whole"
               PROVE  \/ disk[t].good = {}
                      \/ Covered(disk[t].manifest.record.extents) \subseteq disk[t].good
    BY <1>2 DEF Resting
  <2>1. CASE torrents[t] = Nothing  BY <2>1 DEF Inv, Resting
  <2>2. CASE torrents[t] # Nothing  BY <2>2 DEF Inv, Indexed, Within
  <2> QED  BY <2>1, <2>2
<1>11. CallsKnow'  BY <1>3, <1>4 DEF CallsKnow, Knows, Ranged, Pended
<1>12. Reopening' /\ Booting' /\ Going'  BY <1>1, <1>2 DEF Reopening, Booting, Going
<1>13. Kept'  BY <1>2 DEF Inv, Kept
<1> QED
  BY <1>6, <1>7, <1>8, <1>9, <1>10, <1>11, <1>12, <1>13 DEF Inv

-----------------------------------------------------------------------------
(* The results. *)

\* Every step keeps the invariant, when removals are quiet.
LEMMA DiskInvNext == Quiet /\ Inv /\ [DiskNext]_diskVars => Inv'
<1> SUFFICES ASSUME Quiet, Inv, [DiskNext]_diskVars PROVE Inv'  OBVIOUS
<1>1. CASE CacheCall
  <2>1. ASSUME NEW t \in Torrents, Open(t) \/ Remove(t) PROVE Inv'
    BY <2>1, OpenKeepsInv, RemoveKeepsInv
  <2>2. ASSUME NEW h \in Arcs, OpenCreate(h) PROVE Inv'
    BY <2>2, OpenCreateKeepsInv
  <2>3. ASSUME NEW keep \in SUBSET Torrents, Boot(keep) PROVE Inv'
    BY <2>3, BootKeepsInv
  <2>4. CASE OpenFails \/ ClearFails  BY <2>4, EndKeepsInv
  <2>5. CASE Clear  BY <2>5, ClearKeepsInv
  <2>6. CASE Cleared  BY <2>6, ClearedKeepsInv
  <2>7. CASE Discard  BY <2>7, DiscardKeepsInv
  <2> QED  BY <1>1, <2>1, <2>2, <2>3, <2>4, <2>5, <2>6, <2>7 DEF CacheCall
<1>2. ASSUME NEW w \in Workers, EngineCall(w) PROVE Inv'
  <2>1. ASSUME NEW t \in Torrents, NEW a \in 0 .. Length + 1, NEW b \in 0 .. Length + 1,
               BeginWrite(w, t, a, b) \/ BeginRead(w, t, a, b)
        PROVE  Inv'
    BY <2>1, BeginWriteKeepsInv, BeginReadKeepsInv
  <2>2. ASSUME NEW t \in Torrents, NEW p \in Pieces, BeginComplete(w, t, p) PROVE Inv'
    BY <2>2, BeginCompleteKeepsInv
  <2>3. CASE WriteData(w)  BY <2>3, WriteDataKeepsInv
  <2>4. CASE WriteIndex(w)  BY <2>4, WriteIndexKeepsInv
  <2>5. CASE MarkPiece(w)  BY <2>5, MarkPieceKeepsInv
  <2>6. CASE WriteTemporary(w)  BY <2>6, WriteTemporaryKeepsInv
  <2>7. CASE Rename(w)  BY <2>7, RenameKeepsInv
  <2>8. CASE ManifestFails(w)  BY <2>8, ManifestFailsKeepsInv
  <2>9. CASE EndRead(w)  BY <2>9, EndReadKeepsInv
  <2> QED
    BY <1>2, <2>1, <2>2, <2>3, <2>4, <2>5, <2>6, <2>7, <2>8, <2>9 DEF EngineCall
<1>3. CASE Crash  BY <1>3, CrashKeepsInv
<1>4. CASE UNCHANGED diskVars
  <2>1. UNCHANGED <<disk, torrents, mem, mutex, thread, op, entries, credited, acked, erred>>
    BY <1>4 DEF diskVars
  <2>2. Types' /\ RecordsProper' /\ OwnHandles' /\ OneWriter'
    BY <2>1 DEF Inv, Types, RecordsProper, Proper, OwnHandles, OneWriter
  <2>3. Indexed' /\ Resting' /\ Reopening' /\ CallsKnow'
    BY <2>1 DEF Inv, Indexed, Resting, Reopening, Within, CallsKnow, Knows
  <2>4. Kept' /\ Booting' /\ Going' /\ Credits'
    BY <2>1 DEF Inv, Kept, Booting, Going, Credits, Counted
  <2> QED  BY <2>2, <2>3, <2>4 DEF Inv
<1> QED  BY <1>1, <1>2, <1>3, <1>4 DEF DiskNext

\* As long as removals keep clear of the engine's calls, the store survives a
\* crash at any moment of any interleaving: what a manifest vouches for is
\* there, and what was acknowledged is in it (disk.rs:138-205, 269-305).
THEOREM SurvivesCrashes ==
    ASSUME Quiet
    PROVE  DiskSpec => []CrashSafe
<1>1. DiskInit => Inv  BY DiskInvInit
<1>2. Inv /\ [DiskNext]_diskVars => Inv'  BY DiskInvNext
<1>3. Inv => CrashSafe  BY InvImplies
<1> QED  BY <1>1, <1>2, <1>3, PTL DEF DiskSpec

\* And while it runs it hands out only stored bytes and reports each byte to the
\* cache once (disk.rs:301-335, extents.rs:42-85).
THEOREM StoreStaysExact ==
    ASSUME Quiet
    PROVE  DiskSpec => []StoreExact
<1>1. DiskInit => Inv  BY DiskInvInit
<1>2. Inv /\ [DiskNext]_diskVars => Inv'  BY DiskInvNext
<1>3. Inv => StoreExact  BY InvImplies
<1> QED  BY <1>1, <1>2, <1>3, PTL DEF DiskSpec

\* Type correctness: spans that are apart, pieces and files of the torrent.
THEOREM DiskTypeCorrect ==
    ASSUME Quiet
    PROVE  DiskSpec => []DiskTypeOK
<1>1. DiskInit => Inv  BY DiskInvInit
<1>2. Inv /\ [DiskNext]_diskVars => Inv'  BY DiskInvNext
<1>3. Inv => DiskTypeOK  BY InvImplies
<1> QED  BY <1>1, <1>2, <1>3, PTL DEF DiskSpec

-----------------------------------------------------------------------------
(* The memory store: what it calculates. *)

\* Bytes that are all stored lie in one span.
LEMMA StoredIsCovered ==
  ASSUME NEW S, Canonical(S), NEW a \in Nat, NEW b \in Nat, a <= b,
         Bytes(a, b) \subseteq Covered(S)
  PROVE  Covers(S, a, b)
<1> SUFFICES ASSUME a < b PROVE \E s \in LastUpTo(S, a) : s[2] >= b
  BY DEF Covers
<1> USE DEF Canonical, Span
<1>1. a \in Bytes(a, b)  BY DEF Bytes
<1>2. PICK s \in S : a \in Bytes(s[1], s[2])  BY <1>1 DEF Covered
<1>3. s[1] \in Nat /\ s[2] \in Nat /\ s[1] <= a /\ a < s[2]  BY <1>2 DEF Bytes
<1>4. s \in LastUpTo(S, a)
  <2> SUFFICES ASSUME NEW u \in S, u[1] <= a PROVE u[1] <= s[1]
    BY <1>3 DEF LastUpTo
  <2>1. u = s \/ s[2] < u[1] \/ u[2] < s[1]  OBVIOUS
  <2>2. u[1] \in Nat /\ u[2] \in Nat /\ u[1] < u[2]  OBVIOUS
  <2> QED  BY <2>1, <2>2, <1>3
<1>5. s[2] >= b
  <2> SUFFICES ASSUME s[2] < b PROVE FALSE  BY <1>3
  <2>1. s[2] \in Bytes(a, b)  BY <1>3 DEF Bytes
  <2>2. PICK u \in S : s[2] \in Bytes(u[1], u[2])  BY <2>1 DEF Covered
  <2>3. u[1] \in Nat /\ u[2] \in Nat /\ u[1] <= s[2] /\ s[2] < u[2]  BY <2>2, <1>3 DEF Bytes
  <2>4. u = s \/ s[2] < u[1] \/ u[2] < s[1]  OBVIOUS
  <2> QED  BY <2>3, <2>4, <1>3
<1> QED  BY <1>4, <1>5

\* A byte's place: its block, and where it lies in that.
LEMMA PlaceIs ==
  ASSUME NEW i \in Nat
  PROVE  /\ i \div BlockSize \in Nat /\ i % BlockSize \in 0 .. BlockSize - 1
         /\ i = BlockSize * (i \div BlockSize) + (i % BlockSize)
BY MemoryConstants

\* Blocks are in the order of their bytes.
LEMMA BlocksInOrder ==
  ASSUME NEW i \in Nat, NEW j \in Nat, i <= j
  PROVE  i \div BlockSize <= j \div BlockSize
<1> DEFINE p == i \div BlockSize
           q == j \div BlockSize
           r == i % BlockSize
           s == j % BlockSize
<1>1. p \in Nat /\ q \in Nat /\ r \in 0 .. BlockSize - 1 /\ s \in 0 .. BlockSize - 1
  BY PlaceIs
<1>2. BlockSize * p + r <= BlockSize * q + s
  BY PlaceIs
<1>3. BlockSize \in Nat \ {0}  BY MemoryConstants
<1> HIDE DEF p, q, r, s
<1>4. p <= q  BY <1>1, <1>2, <1>3
<1> QED  BY <1>4 DEF p, q

\* The blocks a set of bytes lies in.
BlocksOf(bytes) == {i \div BlockSize : i \in bytes}

\* A span lies in as many blocks as it fills, and one more.
LEMMA BlocksOfSpan ==
  ASSUME NEW a \in Nat, NEW b \in Nat, a < b
  PROVE  /\ IsFiniteSet(BlocksOf(Bytes(a, b)))
         /\ Cardinality(BlocksOf(Bytes(a, b))) \in Nat
         /\ BlockSize * Cardinality(BlocksOf(Bytes(a, b))) <= (b - a) + 2 * (BlockSize - 1)
<1> DEFINE p == a \div BlockSize
           q == (b - 1) \div BlockSize
           r == a % BlockSize
           s == (b - 1) % BlockSize
           n == Cardinality(BlocksOf(Bytes(a, b)))
<1>1. p \in Nat /\ q \in Nat /\ r \in 0 .. BlockSize - 1 /\ s \in 0 .. BlockSize - 1
      /\ a = BlockSize * p + r /\ b - 1 = BlockSize * q + s
  BY PlaceIs
<1>2. BlockSize \in Nat \ {0}  BY MemoryConstants
<1>3. p <= q  BY BlocksInOrder
<1>4. BlocksOf(Bytes(a, b)) \subseteq p .. q
  <2> SUFFICES ASSUME NEW i \in Bytes(a, b) PROVE i \div BlockSize \in p .. q
    BY DEF BlocksOf
  <2>1. i \in Nat /\ a <= i /\ i <= b - 1  BY DEF Bytes
  <2>2. i \div BlockSize \in Nat  BY <2>1, PlaceIs
  <2>3. p <= i \div BlockSize /\ i \div BlockSize <= q  BY <2>1, BlocksInOrder
  <2> QED  BY <2>2, <2>3, <1>1
<1>5. IsFiniteSet(p .. q) /\ Cardinality(p .. q) = q - p + 1
  BY <1>1, <1>3, FS_Interval
<1>6. IsFiniteSet(BlocksOf(Bytes(a, b))) /\ n \in Nat /\ n <= q - p + 1
  BY <1>4, <1>5, FS_Subset, FS_CardinalityType
<1> HIDE DEF n, p, q, r, s
<1>7. BlockSize * n <= BlockSize * (q - p + 1)
  BY <1>1, <1>2, <1>6
<1>8. BlockSize * (q - p + 1) = BlockSize * q - BlockSize * p + BlockSize
  BY <1>1, <1>2
<1>9. BlockSize * n <= (b - a) + 2 * (BlockSize - 1)
  BY <1>1, <1>2, <1>6, <1>7, <1>8
<1> QED  BY <1>6, <1>9 DEF n

\* So a file takes no more than its bytes and, for each span, two ends of blocks.
LEMMA BlocksAreBounded ==
  ASSUME NEW S, Canonical(S), IsFiniteSet(S)
  PROVE  BlockSize * Cardinality(BlocksOf(Covered(S)))
           <= Cardinality(Covered(S)) + 2 * (BlockSize - 1) * Cardinality(S)
<1> DEFINE blocks(T) == Cardinality(BlocksOf(Covered(T)))
           bytes(T) == Cardinality(Covered(T))
           spans(T) == Cardinality(T)
           G == {T \in SUBSET S : /\ IsFiniteSet(BlocksOf(Covered(T)))
                                  /\ BlockSize * blocks(T) <= bytes(T) + 2 * (BlockSize - 1) * spans(T)}
<1>0. BlockSize \in Nat \ {0}  BY MemoryConstants
<1>1. {} \in G
  <2>1. Covered({}) = {}  BY DEF Covered
  <2>2. BlocksOf({}) = {}  BY DEF BlocksOf
  <2>3. IsFiniteSet({}) /\ Cardinality({}) = 0  BY FS_EmptySet
  <2>4. BlockSize * 0 <= 0 + 2 * (BlockSize - 1) * 0  BY <1>0
  <2> QED  BY <2>1, <2>2, <2>3, <2>4
<1>2. ASSUME NEW T \in SUBSET S, T # {}, \A x \in T : T \ {x} \in G
      PROVE  T \in G
  <2>1. PICK s \in T : TRUE  BY <1>2
  <2> DEFINE R == T \ {s}
             new == BlocksOf(Bytes(s[1], s[2]))
             m == Cardinality(new)
             k == blocks(R)
             n == blocks(T)
             x == bytes(R)
             y == spans(R)
             d == s[2] - s[1]
  <2>2. R \in G  BY <1>2, <2>1
  <2>3. Canonical(T) /\ Canonical(R) /\ IsFiniteSet(T) /\ IsFiniteSet(R)
    BY PartOfCanonical, FS_Subset
  <2>4. s[1] \in Nat /\ s[2] \in Nat /\ s[1] < s[2]
    BY <2>3 DEF Canonical, Span
  <2>5. Covered(T) = Covered(R) \cup Bytes(s[1], s[2]) /\ Covered(R) \cap Bytes(s[1], s[2]) = {}
    BY <2>3, CoveredWithout
  <2>6. BlocksOf(Covered(T)) = BlocksOf(Covered(R)) \cup new
    BY <2>5 DEF BlocksOf
  <2>7. IsFiniteSet(new) /\ m \in Nat /\ BlockSize * m <= d + 2 * (BlockSize - 1)
    BY <2>4, BlocksOfSpan
  <2>8. IsFiniteSet(BlocksOf(Covered(R))) /\ k \in Nat
        /\ BlockSize * k <= x + 2 * (BlockSize - 1) * y
    BY <2>2, FS_CardinalityType
  <2>9. IsFiniteSet(BlocksOf(Covered(T))) /\ n \in Nat /\ n <= k + m
    <3>1. IsFiniteSet(BlocksOf(Covered(R)) \cup new)
          /\ Cardinality(BlocksOf(Covered(R)) \cup new)
               = k + m - Cardinality(BlocksOf(Covered(R)) \cap new)
      BY <2>7, <2>8, FS_Union
    <3>2. Cardinality(BlocksOf(Covered(R)) \cap new) \in Nat
      BY <2>7, <2>8, FS_Intersection, FS_CardinalityType
    <3> QED  BY <2>6, <2>7, <2>8, <3>1, <3>2, FS_CardinalityType
  <2>10. x \in Nat /\ bytes(T) = x + d
    <3>1. IsFiniteSet(Bytes(s[1], s[2])) /\ Cardinality(Bytes(s[1], s[2])) = d
      BY <2>4, BytesCount
    <3>2. IsFiniteSet(Covered(R)) /\ x \in Nat
      BY <2>3, CoveredIsFinite
    <3>3. Cardinality(Covered(R) \cup Bytes(s[1], s[2])) = x + d
      <4>1. Cardinality(Covered(R) \cup Bytes(s[1], s[2]))
              = x + d - Cardinality(Covered(R) \cap Bytes(s[1], s[2]))
        BY <3>1, <3>2, FS_Union
      <4>2. Cardinality(Covered(R) \cap Bytes(s[1], s[2])) = 0
        BY <2>5, FS_EmptySet
      <4> HIDE DEF x
      <4> QED  BY <4>1, <4>2, <3>2, <2>4
    <3> QED  BY <2>5, <3>2, <3>3
  <2>11. y \in Nat /\ spans(T) = y + 1
    BY <2>1, <2>3, FS_RemoveElement, FS_CardinalityType
  <2>12. d \in Nat  BY <2>4
  <2>13. BlockSize * n <= bytes(T) + 2 * (BlockSize - 1) * spans(T)
    <3> HIDE DEF n, k, m, x, y, d, bytes, spans
    <3>1. BlockSize * n <= BlockSize * (k + m)  BY <1>0, <2>7, <2>8, <2>9
    <3>2. BlockSize * (k + m) = BlockSize * k + BlockSize * m  BY <1>0, <2>7, <2>8
    <3> DEFINE pad == 2 * (BlockSize - 1)
    <3>3. pad \in Nat /\ pad * (y + 1) = pad * y + pad  BY <1>0, <2>11
    <3> DEFINE bn == BlockSize * n
               bk == BlockSize * k
               bm == BlockSize * m
               padded == pad * y
    <3>4. bk \in Int /\ bm \in Int /\ bn \in Int /\ padded \in Int
      BY <1>0, <2>7, <2>8, <2>9, <2>11, <3>3
    <3>5. bn <= bk + bm /\ bk <= x + padded /\ bm <= d + pad /\ pad * (y + 1) = padded + pad
      BY <3>1, <3>2, <3>3, <2>7, <2>8
    <3> HIDE DEF bn, bk, bm, padded, pad
    <3>6. bn <= (x + d) + pad * (y + 1)
      BY <3>3, <3>4, <3>5, <2>10, <2>12
    <3> QED  BY <3>6, <2>10, <2>11 DEF pad, bn
  <2> QED  BY <2>9, <2>13
<1> HIDE DEF G
<1>3. S \in G  BY <1>1, <1>2, SetInduction
<1> QED  BY <1>3 DEF G

-----------------------------------------------------------------------------
(* Its invariant. *)

\* What a file's extents, blocks, what was written to it and what its writes
\* returned say together.
FileHolds(stored, put, sum, length) ==
    LET bytes == Covered(stored.extents) IN
    /\ Canonical(stored.extents) /\ IsFiniteSet(stored.extents)
    /\ bytes \subseteq Bytes(0, length)
    /\ put \in [Bytes(0, length) -> Values \cup {0}]
    /\ \A i \in Bytes(0, length) : put[i] # 0 <=> i \in bytes
    /\ DOMAIN stored.blocks = BlocksOf(bytes)
    /\ \A k \in BlocksOf(bytes) :
         stored.blocks[k] \in [Bytes(0, BlockSize) -> Values \cup {0}]
    /\ \A i \in bytes : stored.blocks[i \div BlockSize][i % BlockSize] = put[i]
    /\ sum = Cardinality(bytes)

MemoryCalls ==
    [h : Memories, f : Files, a : Nat, b : Nat, v : Values]

MemoryInv ==
    /\ opened \in [InfoHashes -> Memories \cup {Void}]
    /\ DOMAIN call = Writers
    /\ \A w \in Writers : call[w] # Void => call[w] \in MemoryCalls /\ call[w].a <= call[w].b
    /\ DOMAIN content = Memories /\ DOMAIN written = Memories /\ DOMAIN told = Memories
    /\ \A h \in Memories :
         /\ DOMAIN content[h] = Files /\ DOMAIN written[h] = Files /\ DOMAIN told[h] = Files
         /\ \A f \in Files : FileHolds(content[h][f], written[h][f], told[h][f], Lengths[f])

\* A file has a length.
LEMMA LengthIs ==
  ASSUME NEW f \in Files
  PROVE  Lengths[f] \in Nat
BY MemoryConstants DEF Files

\* An empty handle.
LEMMA EmptyHolds ==
  ASSUME NEW f \in Files
  PROVE  FileHolds(NoBytes[f], Unwritten[f], Untold[f], Lengths[f])
<1>1. NoBytes[f] = [extents |-> {}, blocks |-> <<>>] /\ Untold[f] = 0
      /\ Unwritten[f] = [i \in Bytes(0, Lengths[f]) |-> 0]
  BY DEF NoBytes, Unwritten, Untold
<1>2. Covered({}) = {} /\ BlocksOf({}) = {}  BY DEF Covered, BlocksOf
<1>3. Canonical({})  BY DEF Canonical
<1>4. IsFiniteSet({}) /\ Cardinality({}) = 0  BY FS_EmptySet
<1>5. NoBytes[f].extents = {} /\ DOMAIN NoBytes[f].blocks = {}  BY <1>1
<1>6. Unwritten[f] \in [Bytes(0, Lengths[f]) -> Values \cup {0}]
      /\ \A i \in Bytes(0, Lengths[f]) : Unwritten[f][i] = 0
  BY <1>1
<1> QED  BY <1>1, <1>2, <1>3, <1>4, <1>5, <1>6 DEF FileHolds

\* A write that is inside its file.
LEMMA WriteHolds ==
  ASSUME NEW stored, NEW put, NEW sum, NEW length \in Nat,
         FileHolds(stored, put, sum, length),
         NEW a \in Nat, NEW b \in Nat, NEW v \in Values, InFile(a, b, length)
  PROVE  FileHolds([extents |-> Insert(stored.extents, a, b),
                    blocks  |-> Filled(stored.blocks, a, b, v)],
                   [i \in DOMAIN put |-> IF i \in Bytes(a, b) THEN v ELSE put[i]],
                   sum + Added(stored.extents, a, b), length)
<1> DEFINE S == stored.extents
           T == Insert(S, a, b)
           new == Filled(stored.blocks, a, b, v)
           data == [i \in DOMAIN put |-> IF i \in Bytes(a, b) THEN v ELSE put[i]]
<1>1. a <= b /\ b <= length  BY DEF InFile
<1>2. Canonical(S) /\ IsFiniteSet(S) /\ Covered(S) \subseteq Bytes(0, length)
      /\ put \in [Bytes(0, length) -> Values \cup {0}] /\ sum = Cardinality(Covered(S))
  BY DEF FileHolds
<1>3. Canonical(T) /\ IsFiniteSet(T) /\ Covered(T) = Covered(S) \cup Bytes(a, b)
  <2>1. CASE a = b
    <3>1. T = S /\ Bytes(a, b) = {}  BY <2>1 DEF Insert, Bytes
    <3> QED  BY <3>1, <1>2
  <2>2. CASE a < b
    BY <2>2, <1>2, InsertAdds, InsertIsFinite
  <2> QED  BY <2>1, <2>2, <1>1
<1>4. Bytes(a, b) \subseteq Bytes(0, length) /\ Bytes(0, length) \subseteq Nat
  BY <1>1 DEF Bytes
<1>5. sum + Added(S, a, b) = Cardinality(Covered(T))
  <2>1. IsFiniteSet(Covered(S)) /\ Cardinality(Covered(S)) \in Nat
    BY <1>2, CoveredIsFinite
  <2>2. CASE a = b
    <3>1. T = S /\ Added(S, a, b) = 0  BY <2>2 DEF Insert, Added
    <3> QED  BY <3>1, <1>2, <2>1
  <2>3. CASE a < b
    <3> DEFINE more == Bytes(a, b) \ Covered(S)
    <3>1. Added(S, a, b) = Cardinality(more)  BY <2>3, <1>2, AddedIsNew
    <3>2. IsFiniteSet(more)  BY <1>1, BytesCount, FS_Subset
    <3>3. Cardinality(Covered(S) \cup more)
            = Cardinality(Covered(S)) + Cardinality(more) - Cardinality(Covered(S) \cap more)
      BY <2>1, <3>2, FS_Union
    <3>4. Cardinality(Covered(S) \cap more) = 0
      <4>1. Covered(S) \cap more = {}  OBVIOUS
      <4> QED  BY <4>1, FS_EmptySet
    <3>5. Covered(S) \cup more = Covered(T)  BY <1>3
    <3>6. Cardinality(more) \in Nat  BY <3>2, FS_CardinalityType
    <3> DEFINE old == Cardinality(Covered(S))
               added == Cardinality(more)
    <3>7. Cardinality(Covered(T)) = old + added - 0  BY <3>3, <3>4, <3>5
    <3>8. sum = old /\ old \in Nat /\ added \in Nat  BY <1>2, <2>1, <3>6
    <3>9. sum + Added(S, a, b) = old + added  BY <3>1, <3>8
    <3> HIDE DEF more, old, added, T, S
    <3> QED  BY <3>7, <3>8, <3>9
  <2> QED  BY <2>2, <2>3, <1>1
<1>6. BlockSize \in Nat \ {0} /\ 0 \notin Values  BY MemoryConstants
<1>7. DOMAIN new = BlocksOf(Covered(T))
  <2>1. DOMAIN stored.blocks = BlocksOf(Covered(S))  BY DEF FileHolds
  <2>2. DOMAIN new = BlocksOf(Covered(S)) \cup BlocksOf(Bytes(a, b))
    BY <2>1 DEF Filled, BlocksOf
  <2> QED  BY <2>2, <1>3 DEF BlocksOf
<1>8. \A k \in BlocksOf(Covered(T)) : new[k] =
        [i \in Bytes(0, BlockSize) |->
              IF k * BlockSize + i \in Bytes(a, b) THEN v
              ELSE IF k \in DOMAIN stored.blocks THEN stored.blocks[k][i] ELSE 0]
  BY <1>7 DEF Filled
<1>9. \A k \in BlocksOf(Covered(T)) : new[k] \in [Bytes(0, BlockSize) -> Values \cup {0}]
  <2>1. \A k \in DOMAIN stored.blocks :
          stored.blocks[k] \in [Bytes(0, BlockSize) -> Values \cup {0}]
    BY DEF FileHolds
  <2> SUFFICES ASSUME NEW k \in BlocksOf(Covered(T))
               PROVE  new[k] \in [Bytes(0, BlockSize) -> Values \cup {0}]
    OBVIOUS
  <2> DEFINE byte(i) == IF k * BlockSize + i \in Bytes(a, b) THEN v
                        ELSE IF k \in DOMAIN stored.blocks THEN stored.blocks[k][i] ELSE 0
  <2>2. new[k] = [i \in Bytes(0, BlockSize) |-> byte(i)]  BY <1>8
  <2>3. ASSUME NEW i \in Bytes(0, BlockSize) PROVE byte(i) \in Values \cup {0}
    BY <2>1
  <2> HIDE DEF byte
  <2> QED  BY <2>2, <2>3
<1>10. \A i \in Bytes(0, length) : data[i] # 0 <=> i \in Covered(T)
  <2>1. \A i \in Bytes(0, length) : put[i] # 0 <=> i \in Covered(S)
    BY DEF FileHolds
  <2>2. \A i \in Bytes(0, length) : data[i] = IF i \in Bytes(a, b) THEN v ELSE put[i]
    BY <1>2
  <2> HIDE DEF data
  <2> QED  BY <2>1, <2>2, <1>3, <1>6
<1>11. data \in [Bytes(0, length) -> Values \cup {0}]
  BY <1>2
<1>12. \A i \in Covered(T) : new[i \div BlockSize][i % BlockSize] = data[i]
  <2> SUFFICES ASSUME NEW i \in Covered(T)
               PROVE  new[i \div BlockSize][i % BlockSize] = data[i]
    OBVIOUS
  <2> DEFINE k == i \div BlockSize
             j == i % BlockSize
  <2>1. i \in Nat /\ i \in Bytes(0, length)  BY <1>2, <1>3, <1>4
  <2>2. k \in Nat /\ j \in 0 .. BlockSize - 1 /\ i = BlockSize * k + j
    BY <2>1, PlaceIs
  <2>3. j \in Bytes(0, BlockSize)  BY <2>2 DEF Bytes
  <2>4. k \in BlocksOf(Covered(T))  BY DEF BlocksOf
  <2>5. k * BlockSize + j = i
    <3> HIDE DEF k, j
    <3> QED  BY <2>2, <1>6
  <2>6. new[k][j] = IF i \in Bytes(a, b) THEN v
                    ELSE IF k \in DOMAIN stored.blocks THEN stored.blocks[k][j] ELSE 0
    <3> DEFINE byte(n) == IF k * BlockSize + n \in Bytes(a, b) THEN v
                          ELSE IF k \in DOMAIN stored.blocks THEN stored.blocks[k][n] ELSE 0
    <3>1. new[k] = [n \in Bytes(0, BlockSize) |-> byte(n)]  BY <2>4, <1>8
    <3> HIDE DEF k, j, byte
    <3>2. new[k][j] = byte(j)  BY <3>1, <2>3
    <3> QED  BY <3>2, <2>5 DEF byte
  <2>7. data[i] = IF i \in Bytes(a, b) THEN v ELSE put[i]
    BY <2>1, <1>2
  <2>8. i \notin Bytes(a, b) => k \in DOMAIN stored.blocks /\ stored.blocks[k][j] = put[i]
    <3> SUFFICES ASSUME i \notin Bytes(a, b)
                 PROVE  k \in DOMAIN stored.blocks /\ stored.blocks[k][j] = put[i]
      OBVIOUS
    <3>1. i \in Covered(S)  BY <1>3
    <3> QED  BY <3>1 DEF FileHolds, BlocksOf
  <2> HIDE DEF new, data
  <2> QED  BY <2>6, <2>7, <2>8
<1>13. Covered(T) \subseteq Bytes(0, length)  BY <1>2, <1>3, <1>4
<1> HIDE DEF T, new, data
<1>14. FileHolds([extents |-> T, blocks |-> new], data, sum + Added(S, a, b), length)
  BY <1>3, <1>5, <1>7, <1>9, <1>10, <1>11, <1>12, <1>13 DEF FileHolds
<1> QED  BY <1>14 DEF T, new, data

\* The invariant says what the property asks for.
LEMMA HoldsReads ==
  ASSUME MemoryInv, NEW h \in Memories, NEW f \in Files,
         NEW b \in 0 .. Lengths[f], NEW a \in 0 .. b
  PROVE  LET got == MemoryRead(h, f, a, b)
             put == [i \in Bytes(a, b) |-> written[h][f][i]]
         IN  IF \E i \in Bytes(a, b) : put[i] = 0 THEN ~got.ok
             ELSE got.ok /\ got.bytes = put
<1> DEFINE stored == content[h][f]
           put == [i \in Bytes(a, b) |-> written[h][f][i]]
           got == MemoryRead(h, f, a, b)
           taken == [i \in Bytes(a, b) |-> stored.blocks[i \div BlockSize][i % BlockSize]]
<1>1. FileHolds(stored, written[h][f], told[h][f], Lengths[f])  BY DEF MemoryInv
<1>2. Lengths[f] \in Nat  BY LengthIs
<1>3. Valid(f, a, b) /\ a \in Nat /\ b \in Nat /\ a <= b  BY <1>2 DEF Valid, InFile
<1>4. Bytes(a, b) \subseteq Bytes(0, Lengths[f])  BY <1>2, <1>3 DEF Bytes
<1>5. \A i \in Bytes(a, b) : put[i] # 0 <=> i \in Covered(stored.extents)
  BY <1>1, <1>4 DEF FileHolds
<1>6. Canonical(stored.extents)  BY <1>1 DEF FileHolds
<1>7. CASE \E i \in Bytes(a, b) : put[i] = 0
  <2>1. ~(Bytes(a, b) \subseteq Covered(stored.extents))  BY <1>5, <1>7
  <2>2. ~ Covers(stored.extents, a, b)  BY <2>1, <1>3, <1>6, CoversMeans
  <2>3. got = [ok |-> FALSE]  BY <2>2 DEF MemoryRead
  <2> QED  BY <2>3, <1>7
<1>8. CASE ~ \E i \in Bytes(a, b) : put[i] = 0
  <2>1. Bytes(a, b) \subseteq Covered(stored.extents)  BY <1>5, <1>8
  <2>2. Covers(stored.extents, a, b)  BY <2>1, <1>3, <1>6, StoredIsCovered
  <2>3. \A i \in Bytes(a, b) : i \div BlockSize \in DOMAIN stored.blocks
    BY <2>1, <1>1 DEF FileHolds, BlocksOf
  <2>4. got = [ok |-> TRUE, bytes |-> taken]  BY <2>2, <2>3, <1>3 DEF MemoryRead
  <2>5. taken = put
    <3>1. \A i \in Bytes(a, b) : stored.blocks[i \div BlockSize][i % BlockSize] = written[h][f][i]
      BY <2>1, <1>1 DEF FileHolds
    <3> QED  BY <3>1
  <2> QED  BY <2>4, <2>5, <1>8
<1> QED  BY <1>7, <1>8

LEMMA MemoryInvRight == MemoryInv => MemoryRight
<1> SUFFICES ASSUME MemoryInv PROVE MemoryRight  OBVIOUS
<1>1. ReadsWritten
  <2>1. Referred(opened, call) \ {Void} \subseteq Memories
    BY DEF Referred, MemoryInv, MemoryCalls
  <2> QED  BY <2>1, HoldsReads DEF ReadsWritten
<1>2. ASSUME NEW h \in Memories, NEW f \in Files
      PROVE  FileHolds(content[h][f], written[h][f], told[h][f], Lengths[f])
  BY DEF MemoryInv
<1>3. ToldOnce
  <2> SUFFICES ASSUME NEW h \in Memories, NEW f \in Files
               PROVE  told[h][f] = Cardinality({i \in DOMAIN written[h][f] : written[h][f][i] # 0})
    BY DEF ToldOnce
  <2>1. {i \in DOMAIN written[h][f] : written[h][f][i] # 0} = Covered(content[h][f].extents)
    BY <1>2 DEF FileHolds
  <2> QED  BY <2>1, <1>2 DEF FileHolds
<1>4. MemoryBounded
  <2> SUFFICES ASSUME NEW h \in Memories, NEW f \in Files
               PROVE  BlockSize * Cardinality(DOMAIN content[h][f].blocks)
                        <= Size(content[h][f].extents)
                             + 2 * (BlockSize - 1) * Cardinality(content[h][f].extents)
    BY DEF MemoryBounded
  <2> DEFINE S == content[h][f].extents
  <2>1. Canonical(S) /\ IsFiniteSet(S) /\ DOMAIN content[h][f].blocks = BlocksOf(Covered(S))
    BY <1>2 DEF FileHolds
  <2>2. Size(S) = Cardinality(Covered(S))  BY <2>1, SizeIsCount
  <2> QED  BY <2>1, <2>2, BlocksAreBounded
<1> QED  BY <1>1, <1>3, <1>4 DEF MemoryRight

-----------------------------------------------------------------------------
(* Its steps. *)

LEMMA MemoryInvInit == MemoryInit => MemoryInv
<1> SUFFICES ASSUME MemoryInit PROVE MemoryInv  OBVIOUS
<1>1. \A h \in Memories : content[h] = NoBytes /\ written[h] = Unwritten /\ told[h] = Untold
  BY DEF MemoryInit
<1>2. DOMAIN NoBytes = Files /\ DOMAIN Unwritten = Files /\ DOMAIN Untold = Files
  BY DEF NoBytes, Unwritten, Untold
<1> QED  BY <1>1, <1>2, EmptyHolds DEF MemoryInit, MemoryInv

\* A step that drops what nobody refers to any more and else lets the files be.
LEMMA DroppedHolds ==
  ASSUME MemoryInv, NEW map, NEW calls,
         content' = Keeping(map, calls, content, NoBytes),
         written' = Keeping(map, calls, written, Unwritten),
         told' = Keeping(map, calls, told, Untold)
  PROVE  /\ DOMAIN content' = Memories /\ DOMAIN written' = Memories /\ DOMAIN told' = Memories
         /\ \A h \in Memories :
              /\ DOMAIN content'[h] = Files /\ DOMAIN written'[h] = Files /\ DOMAIN told'[h] = Files
              /\ \A f \in Files : FileHolds(content'[h][f], written'[h][f], told'[h][f], Lengths[f])
<1>1. DOMAIN content' = Memories /\ DOMAIN written' = Memories /\ DOMAIN told' = Memories
  BY DEF Keeping
<1>2. ASSUME NEW h \in Memories
      PROVE  \/ content'[h] = content[h] /\ written'[h] = written[h] /\ told'[h] = told[h]
             \/ content'[h] = NoBytes /\ written'[h] = Unwritten /\ told'[h] = Untold
  BY DEF Keeping
<1>3. DOMAIN NoBytes = Files /\ DOMAIN Unwritten = Files /\ DOMAIN Untold = Files
  BY DEF NoBytes, Unwritten, Untold
<1>4. ASSUME NEW h \in Memories
      PROVE  /\ DOMAIN content'[h] = Files /\ DOMAIN written'[h] = Files /\ DOMAIN told'[h] = Files
             /\ \A f \in Files : FileHolds(content'[h][f], written'[h][f], told'[h][f], Lengths[f])
  <2>1. CASE content'[h] = content[h] /\ written'[h] = written[h] /\ told'[h] = told[h]
    BY <2>1 DEF MemoryInv
  <2>2. CASE content'[h] = NoBytes /\ written'[h] = Unwritten /\ told'[h] = Untold
    BY <2>2, <1>3, EmptyHolds
  <2> QED  BY <1>2, <2>1, <2>2
<1> QED  BY <1>1, <1>4

\* The write itself.
LEMMA EndWriteKeepsInv ==
  ASSUME MemoryInv, NEW w \in Writers, MemoryEndWrite(w)
  PROVE  MemoryInv'
<1> DEFINE c == call[w]
           stored == content[c.h][c.f]
<1>1. c \in MemoryCalls /\ c.a <= c.b  BY DEF MemoryEndWrite, MemoryInv
<1>2. c.h \in Memories /\ c.f \in Files /\ c.a \in Nat /\ c.b \in Nat /\ c.v \in Values
  BY <1>1 DEF MemoryCalls
<1>3. opened' = opened /\ call' = [call EXCEPT ![w] = Void]  BY DEF MemoryEndWrite
<1>4. /\ opened' \in [InfoHashes -> Memories \cup {Void}]
      /\ DOMAIN call' = Writers
      /\ \A u \in Writers : call'[u] # Void => call'[u] \in MemoryCalls /\ call'[u].a <= call'[u].b
  BY <1>3 DEF MemoryInv
<1>5. CASE ~ Valid(c.f, c.a, c.b)
  <2>1. /\ content' = Keeping(opened, call', content, NoBytes)
        /\ written' = Keeping(opened, call', written, Unwritten)
        /\ told' = Keeping(opened, call', told, Untold)
    BY <1>5 DEF MemoryEndWrite
  <2>2. /\ DOMAIN content' = Memories /\ DOMAIN written' = Memories /\ DOMAIN told' = Memories
        /\ \A h \in Memories :
              /\ DOMAIN content'[h] = Files /\ DOMAIN written'[h] = Files /\ DOMAIN told'[h] = Files
              /\ \A f \in Files : FileHolds(content'[h][f], written'[h][f], told'[h][f], Lengths[f])
    BY <2>1, DroppedHolds
  <2> QED  BY <1>4, <2>2 DEF MemoryInv
<1>6. CASE Valid(c.f, c.a, c.b)
  <2> DEFINE data == [i \in DOMAIN written[c.h][c.f] |->
                        IF i \in Bytes(c.a, c.b) THEN c.v ELSE written[c.h][c.f][i]]
             more == [extents |-> Insert(stored.extents, c.a, c.b),
                      blocks  |-> Filled(stored.blocks, c.a, c.b, c.v)]
             sum == told[c.h][c.f] + Added(stored.extents, c.a, c.b)
             contents == [content EXCEPT ![c.h][c.f] = more]
             puts == [written EXCEPT ![c.h][c.f] = data]
             sums == [told EXCEPT ![c.h][c.f] = sum]
  <2>1. /\ content' = Keeping(opened, call', contents, NoBytes)
        /\ written' = Keeping(opened, call', puts, Unwritten)
        /\ told' = Keeping(opened, call', sums, Untold)
    BY <1>6 DEF MemoryEndWrite
  <2>2. FileHolds(more, data, sum, Lengths[c.f])
    <3>1. FileHolds(stored, written[c.h][c.f], told[c.h][c.f], Lengths[c.f])
      BY <1>2 DEF MemoryInv
    <3>2. InFile(c.a, c.b, Lengths[c.f])  BY <1>6 DEF Valid
    <3>3. Lengths[c.f] \in Nat  BY <1>2, LengthIs
    <3> QED  BY <3>1, <3>2, <3>3, <1>2, WriteHolds
  <2>3. ASSUME NEW h \in Memories
        PROVE  /\ DOMAIN contents[h] = Files /\ DOMAIN puts[h] = Files /\ DOMAIN sums[h] = Files
               /\ \A f \in Files : FileHolds(contents[h][f], puts[h][f], sums[h][f], Lengths[f])
    <3>1. /\ DOMAIN content = Memories /\ DOMAIN written = Memories /\ DOMAIN told = Memories
          /\ DOMAIN content[h] = Files /\ DOMAIN written[h] = Files /\ DOMAIN told[h] = Files
          /\ \A f \in Files : FileHolds(content[h][f], written[h][f], told[h][f], Lengths[f])
      BY DEF MemoryInv
    <3> HIDE DEF data, more, sum
    <3>2. DOMAIN contents[h] = Files /\ DOMAIN puts[h] = Files /\ DOMAIN sums[h] = Files
      BY <3>1
    <3>3. ASSUME NEW f \in Files, f # c.f \/ h # c.h
          PROVE  contents[h][f] = content[h][f] /\ puts[h][f] = written[h][f]
                 /\ sums[h][f] = told[h][f]
      BY <3>1, <3>3
    <3>4. h = c.h => contents[h][c.f] = more /\ puts[h][c.f] = data /\ sums[h][c.f] = sum
      BY <3>1, <1>2
    <3> HIDE DEF contents, puts, sums
    <3>5. ASSUME NEW f \in Files
          PROVE  FileHolds(contents[h][f], puts[h][f], sums[h][f], Lengths[f])
      <4>1. CASE f # c.f \/ h # c.h  BY <4>1, <3>1, <3>3
      <4>2. CASE f = c.f /\ h = c.h  BY <4>2, <3>4, <2>2
      <4> QED  BY <4>1, <4>2
    <3> QED  BY <3>2, <3>5
  <2> HIDE DEF contents, puts, sums
  <2>4. DOMAIN content' = Memories /\ DOMAIN written' = Memories /\ DOMAIN told' = Memories
    BY <2>1 DEF Keeping
  <2>5. DOMAIN NoBytes = Files /\ DOMAIN Unwritten = Files /\ DOMAIN Untold = Files
    BY DEF NoBytes, Unwritten, Untold
  <2>6. ASSUME NEW h \in Memories
        PROVE  /\ DOMAIN content'[h] = Files /\ DOMAIN written'[h] = Files /\ DOMAIN told'[h] = Files
               /\ \A f \in Files : FileHolds(content'[h][f], written'[h][f], told'[h][f], Lengths[f])
    <3>1. \/ content'[h] = contents[h] /\ written'[h] = puts[h] /\ told'[h] = sums[h]
          \/ content'[h] = NoBytes /\ written'[h] = Unwritten /\ told'[h] = Untold
      BY <2>1 DEF Keeping
    <3>2. CASE content'[h] = contents[h] /\ written'[h] = puts[h] /\ told'[h] = sums[h]
      BY <3>2, <2>3
    <3>3. CASE content'[h] = NoBytes /\ written'[h] = Unwritten /\ told'[h] = Untold
      BY <3>3, <2>5, EmptyHolds
    <3> QED  BY <3>1, <3>2, <3>3
  <2> QED  BY <1>4, <2>4, <2>6 DEF MemoryInv
<1> QED  BY <1>5, <1>6

LEMMA MemoryInvNext == MemoryInv /\ [MemoryNext]_memoryVars => MemoryInv'
<1> SUFFICES ASSUME MemoryInv, [MemoryNext]_memoryVars PROVE MemoryInv'  OBVIOUS
<1> DEFINE FilesHold ==
      /\ DOMAIN content' = Memories /\ DOMAIN written' = Memories /\ DOMAIN told' = Memories
      /\ \A h \in Memories :
            /\ DOMAIN content'[h] = Files /\ DOMAIN written'[h] = Files /\ DOMAIN told'[h] = Files
            /\ \A f \in Files : FileHolds(content'[h][f], written'[h][f], told'[h][f], Lengths[f])
<1>1. ASSUME NEW t \in InfoHashes, NEW h \in Memories, MemoryOpen(t, h) PROVE MemoryInv'
  <2>1. FilesHold  BY <1>1, DroppedHolds DEF MemoryOpen
  <2>2. call' = call /\ opened' \in [InfoHashes -> Memories \cup {Void}]
    BY <1>1 DEF MemoryOpen, MemoryInv
  <2> QED  BY <2>1, <2>2 DEF MemoryInv
<1>2. ASSUME NEW t \in InfoHashes, MemoryRemove(t) PROVE MemoryInv'
  <2>1. FilesHold  BY <1>2, DroppedHolds DEF MemoryRemove
  <2>2. call' = call /\ opened' \in [InfoHashes -> Memories \cup {Void}]
    BY <1>2 DEF MemoryRemove, MemoryInv
  <2> QED  BY <2>1, <2>2 DEF MemoryInv
<1>3. ASSUME NEW w \in Writers, NEW t \in InfoHashes, NEW f \in Files, NEW v \in Values,
             NEW b \in 0 .. Lengths[f] + 1, NEW a \in 0 .. b, MemoryBeginWrite(w, t, f, a, b, v)
      PROVE  MemoryInv'
  <2> DEFINE c == [h |-> opened[t], f |-> f, a |-> a, b |-> b, v |-> v]
  <2>1. Lengths[f] \in Nat  BY LengthIs
  <2>2. a \in Nat /\ b \in Nat /\ a <= b  BY <2>1
  <2>3. opened[t] \in Memories  BY <1>3 DEF MemoryBeginWrite, MemoryInv
  <2>4. c \in MemoryCalls /\ c.a <= c.b  BY <2>2, <2>3 DEF MemoryCalls
  <2>5. call' = [call EXCEPT ![w] = c] /\ UNCHANGED <<opened, content, written, told>>
    BY <1>3 DEF MemoryBeginWrite
  <2> HIDE DEF c
  <2>6. \A u \in Writers : call'[u] # Void => call'[u] \in MemoryCalls /\ call'[u].a <= call'[u].b
    BY <2>4, <2>5 DEF MemoryInv
  <2> QED  BY <2>5, <2>6 DEF MemoryInv
<1>4. CASE UNCHANGED memoryVars
  BY <1>4 DEF memoryVars, MemoryInv
<1> QED  BY <1>1, <1>2, <1>3, <1>4, EndWriteKeepsInv DEF MemoryNext

\* The memory store answers what was written and never the zeros that fill a
\* block, returns each byte once and takes no more memory than the ends of its
\* spans ask for, also through a handle that was removed or opened again under
\* a call (memory.rs:48-128).
THEOREM MemoryStaysRight == MemorySpec => []MemoryRight
BY MemoryInvInit, MemoryInvNext, MemoryInvRight, PTL DEF MemorySpec
=============================================================================
