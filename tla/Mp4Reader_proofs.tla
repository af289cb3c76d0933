--------------------------- MODULE Mp4Reader_proofs ---------------------------
(* The theorem about Mp4Reader: whatever two muxers make, in fragments and     *)
(* buffers of any size and for any segment length, the segments hold their     *)
(* samples in order and none twice.  The lemmas before it are about sequences  *)
(* that are joined, cut and added up, and about queues of fragments that       *)
(* follow each other.                                                          *)
EXTENDS Mp4Reader, FiniteInduction, SequenceTheorems

-----------------------------------------------------------------------------
(* How long samples last, and sequences joined. *)

\* What a record of samples lasts, sample by sample.
Sums(f, samples) ==
    /\ f \in [0 .. Len(samples) -> Int]
    /\ f[0] = 0
    /\ \A i \in 1 .. Len(samples) : f[i] = f[i - 1] + samples[i].dur

Timed(D) == \A d \in D : d.dur \in Int

\* The sums are the only ones.
LEMMA SumsAgree ==
    ASSUME NEW D, NEW s \in Seq(D), NEW f, Sums(f, s), NEW g, DOMAIN g = 0 .. Len(s), g[0] = 0,
           \A i \in 1 .. Len(s) : g[i] = g[i - 1] + s[i].dur
    PROVE  \A i \in 0 .. Len(s) : f[i] = g[i]
<1> DEFINE S == {i \in Nat : i <= Len(s) => f[i] = g[i]}
<1>0. Len(s) \in Nat OBVIOUS
<1>1. 0 \in S BY DEF Sums
<1>2. ASSUME NEW n \in Nat, n \in S PROVE n + 1 \in S
  <2> SUFFICES ASSUME n + 1 <= Len(s) PROVE f[n + 1] = g[n + 1] OBVIOUS
  <2>1. n + 1 \in 1 .. Len(s) /\ (n + 1) - 1 = n BY <1>0
  <2>2. f[n] = g[n] BY <1>0, <1>2
  <2> QED BY <2>1, <2>2 DEF Sums
<1> HIDE DEF S
<1>3. Nat \subseteq S BY <1>1, <1>2, Induction
<1> QED BY <1>0, <1>3 DEF S

\* There are such sums.
LEMMA SumsExist ==
    ASSUME NEW D, Timed(D), NEW s \in Seq(D)
    PROVE  \E f : Sums(f, s)
<1> DEFINE To(f, n) == f \in [0 .. n -> Int] /\ f[0] = 0 /\ \A i \in 1 .. n : f[i] = f[i - 1] + s[i].dur
           Has(n) == n <= Len(s) => \E f : To(f, n)
           S == {n \in Nat : Has(n)}
<1>0. Len(s) \in Nat /\ \A i \in 1 .. Len(s) : s[i].dur \in Int BY DEF Timed
<1>1. 0 \in S
  <2> DEFINE f == [i \in 0 .. 0 |-> 0]
  <2>1. To(f, 0) OBVIOUS
  <2> HIDE DEF To, f
  <2> QED BY <2>1
<1>2. ASSUME NEW n \in Nat, n \in S PROVE n + 1 \in S
  <2> SUFFICES ASSUME n + 1 <= Len(s) PROVE  \E f : To(f, n + 1)
    OBVIOUS
  <2>0. n <= Len(s) /\ Has(n) BY <1>0, <1>2
  <2>1. PICK f : To(f, n) BY <2>0
  <2> DEFINE g == [i \in 0 .. n + 1 |-> IF i = n + 1 THEN f[n] + s[n + 1].dur ELSE f[i]]
  <2>2. n + 1 \in 1 .. Len(s) BY <1>0
  <2>3. g \in [0 .. n + 1 -> Int] BY <1>0, <2>1, <2>2
  <2>4. g[0] = 0 BY <2>1
  <2>5. ASSUME NEW i \in 1 .. n + 1 PROVE g[i] = g[i - 1] + s[i].dur
    <3>1. CASE i = n + 1 BY <3>1
    <3>2. CASE i # n + 1
      <4>1. i \in 1 .. n /\ i - 1 \in 0 .. n BY <3>2
      <4> QED BY <2>1, <4>1
    <3> QED BY <3>1, <3>2
  <2> HIDE DEF g
  <2>6. To(g, n + 1) BY <2>3, <2>4, <2>5
  <2> HIDE DEF To
  <2> QED BY <2>6
<1> HIDE DEF S
<1>3. Len(s) \in S BY <1>0, <1>1, <1>2, Induction
<1>4. \E f : To(f, Len(s)) BY <1>0, <1>3 DEF S
<1> QED BY <1>4 DEF Sums

\* What a sequence of samples lasts is its last sum.
LEMMA DurationIs ==
    ASSUME NEW D, Timed(D), NEW s \in Seq(D), NEW f, Sums(f, s)
    PROVE  Duration(s) = f[Len(s)] /\ Duration(s) \in Int
<1>0. Len(s) \in Nat /\ \A i \in 1 .. Len(s) : s[i].dur \in Int BY DEF Timed
<1> DEFINE Upto(g) == g = [i \in 0 .. Len(s) |-> IF i = 0 THEN 0 ELSE g[i - 1] + s[i].dur]
           u == CHOOSE g : Upto(g)
<1>1. Upto(f)
  <2>1. ASSUME NEW i \in 0 .. Len(s) PROVE f[i] = IF i = 0 THEN 0 ELSE f[i - 1] + s[i].dur
    BY <1>0 DEF Sums
  <2>2. f = [i \in 0 .. Len(s) |-> f[i]] BY DEF Sums
  <2> QED BY <2>1, <2>2, Zenon
<1>2. Upto(u) BY <1>1
<1>3. Duration(s) = u[Len(s)] BY DEF Duration
<1> HIDE DEF u
<1>4. DOMAIN u = 0 .. Len(s) BY <1>2
<1>5. u[0] = 0 BY <1>0, <1>2
<1>6. ASSUME NEW i \in 1 .. Len(s) PROVE u[i] = u[i - 1] + s[i].dur
  <2>1. i \in 0 .. Len(s) /\ i # 0 BY <1>0
  <2>2. u = [k \in 0 .. Len(s) |-> IF k = 0 THEN 0 ELSE u[k - 1] + s[k].dur] BY <1>2
  <2> QED BY <2>1, <2>2
<1>7. \A i \in 0 .. Len(s) : f[i] = u[i] BY <1>4, <1>5, <1>6, SumsAgree
<1>8. Len(s) \in 0 .. Len(s) BY <1>0
<1> QED BY <1>3, <1>7, <1>8 DEF Sums

LEMMA DurationEmpty == Duration(<<>>) = 0
<1>1. <<>> \in Seq({}) /\ Timed({}) BY DEF Timed
<1>2. Sums([i \in 0 .. 0 |-> 0], <<>>) BY DEF Sums
<1> QED BY <1>1, <1>2, DurationIs

LEMMA DurationInt ==
    ASSUME NEW D, Timed(D), NEW s \in Seq(D)
    PROVE  Duration(s) \in Int
BY SumsExist, DurationIs

\* What two sequences last, one after the other.
LEMMA DurationOfBoth ==
    ASSUME NEW D, Timed(D), NEW s \in Seq(D), NEW t \in Seq(D)
    PROVE  Duration(s \o t) = Duration(s) + Duration(t)
<1>0. Len(s) \in Nat /\ Len(t) \in Nat OBVIOUS
<1>1. PICK f : Sums(f, s) BY SumsExist
<1>2. PICK g : Sums(g, t) BY SumsExist
<1> DEFINE h == [i \in 0 .. Len(s) + Len(t) |-> IF i <= Len(s) THEN f[i] ELSE f[Len(s)] + g[i - Len(s)]]
           st == s \o t
<1>3. st \in Seq(D) /\ Len(st) = Len(s) + Len(t) OBVIOUS
<1>4. \A i \in 1 .. Len(s) + Len(t) : st[i] = IF i <= Len(s) THEN s[i] ELSE t[i - Len(s)] OBVIOUS
<1>5. f \in [0 .. Len(s) -> Int] /\ g \in [0 .. Len(t) -> Int] /\ f[0] = 0 /\ g[0] = 0
  BY <1>1, <1>2 DEF Sums
<1>6. h \in [0 .. Len(s) + Len(t) -> Int]
  <2>1. ASSUME NEW i \in 0 .. Len(s) + Len(t), ~(i <= Len(s)) PROVE i - Len(s) \in 0 .. Len(t)
    BY <1>0, <2>1
  <2>2. ASSUME NEW i \in 0 .. Len(s) + Len(t)
        PROVE  (IF i <= Len(s) THEN f[i] ELSE f[Len(s)] + g[i - Len(s)]) \in Int
    <3>1. CASE i <= Len(s) BY <1>0, <1>5, <3>1
    <3>2. CASE ~(i <= Len(s))
      <4>1. g[i - Len(s)] \in Int BY <1>5, <2>1, <3>2
      <4>2. f[Len(s)] \in Int BY <1>0, <1>5
      <4> QED BY <3>2, <4>1, <4>2
    <3> QED BY <3>1, <3>2
  <2> QED BY <2>2
<1> HIDE DEF st
<1>7. Sums(h, st)
  <2>1. h[0] = 0 BY <1>0, <1>5
  <2>2. ASSUME NEW i \in 1 .. Len(s) + Len(t) PROVE h[i] = h[i - 1] + st[i].dur
    <3>1. CASE i <= Len(s)
      <4>1. i \in 1 .. Len(s) /\ i - 1 <= Len(s) /\ i \in 0 .. Len(s) + Len(t)
              /\ i - 1 \in 0 .. Len(s) + Len(t) BY <1>0, <3>1
      <4>2. f[i] = f[i - 1] + s[i].dur BY <1>1, <4>1 DEF Sums
      <4> QED BY <1>4, <4>1, <4>2
    <3>2. CASE i = Len(s) + 1
      <4>1. 1 \in 1 .. Len(t) /\ i - Len(s) = 1 /\ i - 1 = Len(s) /\ ~(i <= Len(s))
        BY <1>0, <3>2
      <4>1a. i \in 0 .. Len(s) + Len(t) /\ i - 1 \in 0 .. Len(s) + Len(t) BY <1>0
      <4>2. g[1] = g[0] + t[1].dur BY <1>2, <4>1 DEF Sums
      <4>2a. t[1].dur \in Int BY <4>1 DEF Timed
      <4>3. h[i] = f[Len(s)] + g[1] /\ h[i - 1] = f[Len(s)] BY <4>1, <4>1a
      <4>4. st[i] = t[1] BY <1>4, <4>1
      <4>5. f[Len(s)] \in Int BY <1>0, <1>5
      <4> QED BY <1>5, <4>2, <4>2a, <4>3, <4>4, <4>5
    <3>3. CASE i > Len(s) + 1
      <4> DEFINE k == i - Len(s)
      <4>1. k \in 1 .. Len(t) /\ k - 1 \in 0 .. Len(t) /\ (i - 1) - Len(s) = k - 1
              /\ ~(i <= Len(s)) /\ ~(i - 1 <= Len(s))
        BY <1>0, <3>3
      <4>1a. i \in 0 .. Len(s) + Len(t) /\ i - 1 \in 0 .. Len(s) + Len(t) BY <1>0
      <4>2. g[k] = g[k - 1] + t[k].dur BY <1>2, <4>1 DEF Sums
      <4>3. h[i] = f[Len(s)] + g[k] /\ h[i - 1] = f[Len(s)] + g[k - 1]
        BY <4>1, <4>1a
      <4>4. st[i] = t[k] BY <1>4, <4>1
      <4> HIDE DEF k, h
      <4>5. f[Len(s)] \in Int BY <1>0, <1>5
      <4>6. g[k - 1] \in Int BY <1>5, <4>1
      <4>7. t[k].dur \in Int BY <4>1 DEF Timed
      <4> QED BY <4>2, <4>3, <4>4, <4>5, <4>6, <4>7
    <3>4. i <= Len(s) \/ i = Len(s) + 1 \/ i > Len(s) + 1 BY <1>0
    <3> HIDE DEF h
    <3> QED BY <3>1, <3>2, <3>3, <3>4
  <2> QED BY <1>3, <1>6, <2>1, <2>2 DEF Sums
<1>8. Duration(st) = h[Len(s) + Len(t)] BY <1>3, <1>7, DurationIs
<1>9. h[Len(s) + Len(t)] = f[Len(s)] + g[Len(t)]
  <2>1. CASE Len(t) = 0
    <3>1. h[Len(s)] = f[Len(s)] BY <1>0
    <3>2. f[Len(s)] \in Int BY <1>0, <1>5
    <3> QED BY <1>0, <1>5, <2>1, <3>1, <3>2
  <2>2. CASE Len(t) # 0
    <3>1. ~(Len(s) + Len(t) <= Len(s)) /\ (Len(s) + Len(t)) - Len(s) = Len(t) BY <1>0, <2>2
    <3> QED BY <1>0, <3>1
  <2> QED BY <2>1, <2>2
<1>10. Duration(s) = f[Len(s)] /\ Duration(t) = g[Len(t)] BY <1>1, <1>2, DurationIs
<1> QED BY <1>8, <1>9, <1>10 DEF st

\* What parts come to in a row, part by part.
Joins(g, parts, D) ==
    /\ g \in [0 .. Len(parts) -> Seq(D)]
    /\ g[0] = <<>>
    /\ \A i \in 1 .. Len(parts) : g[i] = g[i - 1] \o parts[i]

\* The parts can be joined.
LEMMA JoinsExist ==
    ASSUME NEW D, NEW s \in Seq(Seq(D))
    PROVE  \E f : Joins(f, s, D)
<1> DEFINE To(f, n) == f \in [0 .. n -> Seq(D)] /\ f[0] = <<>> /\ \A i \in 1 .. n : f[i] = f[i - 1] \o s[i]
           Has(n) == n <= Len(s) => \E f : To(f, n)
           S == {n \in Nat : Has(n)}
<1> HIDE DEF To
<1>0. Len(s) \in Nat /\ \A i \in 1 .. Len(s) : s[i] \in Seq(D) OBVIOUS
<1>1. 0 \in S
  <2> DEFINE f == [i \in 0 .. 0 |-> <<>>]
  <2>1. To(f, 0) BY DEF To
  <2> HIDE DEF f
  <2> QED BY <2>1
<1>2. ASSUME NEW n \in Nat, n \in S PROVE n + 1 \in S
  <2> SUFFICES ASSUME n + 1 <= Len(s) PROVE  \E f : To(f, n + 1)
    OBVIOUS
  <2>0. n <= Len(s) /\ Has(n) BY <1>0, <1>2
  <2>1. PICK f : To(f, n) BY <2>0
  <2> DEFINE x == f[n] \o s[n + 1]
             g == [i \in 0 .. n + 1 |-> IF i = n + 1 THEN x ELSE f[i]]
  <2>2. n + 1 \in 1 .. Len(s) BY <1>0
  <2>2a. f[n] \in Seq(D) /\ s[n + 1] \in Seq(D) BY <1>0, <2>1, <2>2 DEF To
  <2>2b. x \in Seq(D) BY <2>2a, ConcatProperties
  <2>2c. f \in [0 .. n -> Seq(D)] BY <2>1 DEF To
  <2> HIDE DEF x
  <2>3. g \in [0 .. n + 1 -> Seq(D)] BY <2>2b, <2>2c
  <2>4. g[0] = <<>> BY <2>1 DEF To
  <2>5. ASSUME NEW i \in 1 .. n + 1 PROVE g[i] = g[i - 1] \o s[i]
    <3>1. CASE i = n + 1
      <4>1. g[i] = x /\ g[i - 1] = f[n] BY <3>1
      <4> QED BY <3>1, <4>1 DEF x
    <3>2. CASE i # n + 1
      <4>1. i \in 1 .. n /\ i - 1 \in 0 .. n BY <3>2
      <4>2. g[i] = f[i] /\ g[i - 1] = f[i - 1] BY <4>1
      <4>3. f[i] = f[i - 1] \o s[i] BY <2>1, <4>1 DEF To
      <4> QED BY <4>2, <4>3
    <3> QED BY <3>1, <3>2
  <2> HIDE DEF g
  <2>6. To(g, n + 1) BY <2>3, <2>4, <2>5 DEF To
  <2> QED BY <2>6
<1> HIDE DEF S
<1>3. Len(s) \in S BY <1>0, <1>1, <1>2, Induction
<1>4. \E f : To(f, Len(s)) BY <1>0, <1>3 DEF S
<1> QED BY <1>4 DEF Joins, To

\* All the parts joined are the last of them.
LEMMA FlattenIs ==
    ASSUME NEW D, NEW s \in Seq(Seq(D)), NEW f, Joins(f, s, D)
    PROVE  FlattenSeq(s) = f[Len(s)] /\ FlattenSeq(s) \in Seq(D)
<1>0. Len(s) \in Nat /\ \A i \in 1 .. Len(s) : s[i] \in Seq(D) OBVIOUS
<1>0a. f \in [0 .. Len(s) -> Seq(D)] BY DEF Joins
<1>0b. f[Len(s)] \in Seq(D) BY <1>0, <1>0a
<1> DEFINE Upto(g) == g = [i \in 1 .. Len(s) |-> IF i = 1 THEN s[i] ELSE g[i - 1] \o s[i]]
           u == CHOOSE g : Upto(g)
           h == [i \in 1 .. Len(s) |-> f[i]]
<1>1. CASE Len(s) = 0
  <2>1. s = <<>> BY <1>1
  <2>2. FlattenSeq(s) = <<>> BY <1>1, <2>1 DEF FlattenSeq
  <2> QED BY <1>1, <2>2 DEF Joins
<1>2. CASE Len(s) # 0
  <2>1. Upto(h)
    <3>1. ASSUME NEW i \in 1 .. Len(s)
          PROVE  f[i] = IF i = 1 THEN s[i] ELSE h[i - 1] \o s[i]
      <4>1. f[i] = f[i - 1] \o s[i] BY DEF Joins
      <4>2. CASE i = 1
        <5>1. s[i] \in Seq(D) BY <1>0
        <5>2. <<>> \o s[i] = s[i] BY <5>1, ConcatEmptySeq
        <5>3. f[i - 1] = <<>> BY <4>2 DEF Joins
        <5> QED BY <4>1, <4>2, <5>2, <5>3
      <4>3. CASE i # 1
        <5>1. i - 1 \in 1 .. Len(s) BY <1>0, <4>3
        <5>2. h[i - 1] = f[i - 1] BY <5>1
        <5> QED BY <4>1, <4>3, <5>2
      <4> QED BY <4>2, <4>3
    <3> QED BY <3>1, Zenon
  <2>2. Upto(u) BY <2>1
  <2>3. FlattenSeq(s) = u[Len(s)] BY <1>2 DEF FlattenSeq
  <2> HIDE DEF u, h
  <2> DEFINE Same(n) == n + 1 <= Len(s) => u[n + 1] = h[n + 1]
             S == {n \in Nat : Same(n)}
  <2>4. 0 \in S
    <3> SUFFICES ASSUME 1 <= Len(s) PROVE u[1] = h[1] OBVIOUS
    <3>1. 1 \in 1 .. Len(s) BY <1>0
    <3> QED BY <2>1, <2>2, <3>1
  <2>5. ASSUME NEW n \in Nat, n \in S PROVE n + 1 \in S
    <3> SUFFICES ASSUME (n + 1) + 1 <= Len(s) PROVE u[(n + 1) + 1] = h[(n + 1) + 1] OBVIOUS
    <3> DEFINE k == (n + 1) + 1
    <3>1. k \in 1 .. Len(s) /\ k # 1 /\ k - 1 = n + 1 BY <1>0
    <3>2. Same(n) BY <2>5
    <3>3. u[n + 1] = h[n + 1] BY <1>0, <3>2
    <3> HIDE DEF k
    <3>4. u[k] = u[k - 1] \o s[k] BY <2>2, <3>1
    <3>5. h[k] = h[k - 1] \o s[k] BY <2>1, <3>1
    <3>6. u[k] = h[k] BY <3>1, <3>3, <3>4, <3>5
    <3> QED BY <3>6 DEF k
  <2> HIDE DEF S
  <2>6. Len(s) - 1 \in S BY <1>0, <1>2, <2>4, <2>5, Induction, SMTT(20)
  <2>7. Same(Len(s) - 1) BY <2>6 DEF S
  <2>8. u[Len(s)] = h[Len(s)] BY <1>0, <2>7
  <2>9. h[Len(s)] = f[Len(s)] BY <1>0, <1>2 DEF h
  <2> QED BY <1>0b, <2>3, <2>8, <2>9
<1> QED BY <1>1, <1>2

LEMMA FlattenType ==
    ASSUME NEW D, NEW s \in Seq(Seq(D))
    PROVE  FlattenSeq(s) \in Seq(D)
BY JoinsExist, FlattenIs

LEMMA FlattenEmpty == FlattenSeq(<<>>) = <<>>
BY DEF FlattenSeq

\* One part more.
LEMMA FlattenAppend ==
    ASSUME NEW D, NEW s \in Seq(Seq(D)), NEW x \in Seq(D)
    PROVE  FlattenSeq(Append(s, x)) = FlattenSeq(s) \o x
<1> DEFINE a == Append(s, x)
<1>0. Len(s) \in Nat OBVIOUS
<1>1. /\ a \in Seq(Seq(D)) /\ Len(a) = Len(s) + 1
      /\ \A i \in 1 .. Len(s) : a[i] = s[i]
      /\ a[Len(s) + 1] = x
  BY AppendProperties
<1> HIDE DEF a
<1>2. PICK f : Joins(f, s, D) BY JoinsExist
<1>3. FlattenSeq(s) = f[Len(s)] BY <1>2, FlattenIs
<1> DEFINE y == f[Len(s)] \o x
           g == [i \in 0 .. Len(s) + 1 |-> IF i = Len(s) + 1 THEN y ELSE f[i]]
<1>4. f \in [0 .. Len(s) -> Seq(D)] BY <1>2 DEF Joins
<1>5. y \in Seq(D)
  <2>1. f[Len(s)] \in Seq(D) BY <1>0, <1>4
  <2> QED BY <2>1, ConcatProperties
<1>6. Joins(g, a, D)
  <2> HIDE DEF y
  <2>1. g \in [0 .. Len(s) + 1 -> Seq(D)] BY <1>0, <1>4, <1>5
  <2>2. g[0] = <<>> BY <1>0, <1>2 DEF Joins
  <2>3. ASSUME NEW i \in 1 .. Len(s) + 1 PROVE g[i] = g[i - 1] \o a[i]
    <3>1. CASE i = Len(s) + 1
      <4>1. g[i] = y /\ g[i - 1] = f[Len(s)] BY <1>0, <3>1
      <4> QED BY <1>1, <3>1, <4>1 DEF y
    <3>2. CASE i # Len(s) + 1
      <4>1. i \in 1 .. Len(s) /\ i - 1 \in 0 .. Len(s) BY <1>0, <3>2
      <4>2. g[i] = f[i] /\ g[i - 1] = f[i - 1] BY <1>0, <4>1
      <4>3. f[i] = f[i - 1] \o s[i] BY <1>2, <4>1 DEF Joins
      <4>4. a[i] = s[i] BY <1>1, <4>1
      <4> QED BY <4>2, <4>3, <4>4
    <3> QED BY <3>1, <3>2
  <2> HIDE DEF g
  <2> QED BY <1>1, <2>1, <2>2, <2>3 DEF Joins
<1>7. FlattenSeq(a) = g[Len(s) + 1] BY <1>1, <1>6, FlattenIs
<1>8. g[Len(s) + 1] = y BY <1>0
<1> QED BY <1>3, <1>7, <1>8 DEF a

\* Where each part begins when they are in a row.
Offsets(c, parts) ==
    /\ c \in [0 .. Len(parts) -> Int]
    /\ \A i \in 1 .. Len(parts) : c[i] = c[i - 1] + Len(parts[i])

\* At each place of the row is an element of a part.
InRow(all, parts, c) ==
    /\ Len(all) = c[Len(parts)] - c[0]
    /\ \A x \in 1 .. Len(all) :
         \E i \in 1 .. Len(parts) : \E j \in 1 .. Len(parts[i]) :
           x = (c[i - 1] - c[0]) + j /\ all[x] = parts[i][j]

\* What is at each place of the parts in a row.
LEMMA FlattenAt ==
    ASSUME NEW D, NEW parts \in Seq(Seq(D)), NEW c, Offsets(c, parts)
    PROVE  FlattenSeq(parts) \in Seq(D) /\ InRow(FlattenSeq(parts), parts, c)
<1>0. Len(parts) \in Nat /\ \A i \in 1 .. Len(parts) : parts[i] \in Seq(D) /\ Len(parts[i]) \in Nat
  OBVIOUS
<1>1. PICK g : Joins(g, parts, D) BY JoinsExist
<1>1a. g \in [0 .. Len(parts) -> Seq(D)] /\ g[0] = <<>> BY <1>1 DEF Joins
<1>1b. \A i \in 0 .. Len(parts) : c[i] \in Int BY DEF Offsets
<1> DEFINE Placed(n, x) == \E i \in 1 .. n : \E j \in 1 .. Len(parts[i]) :
                              x = (c[i - 1] - c[0]) + j /\ g[n][x] = parts[i][j]
           At(n) == Len(g[n]) = c[n] - c[0] /\ \A x \in 1 .. Len(g[n]) : Placed(n, x)
           S == {n \in Nat : n <= Len(parts) => At(n)}
<1> HIDE DEF Placed
<1>2. 0 \in S
  <2>1. Len(g[0]) = 0 BY <1>1a
  <2>2. c[0] \in Int BY <1>0, <1>1b
  <2> QED BY <2>1, <2>2
<1>3. ASSUME NEW n \in Nat, n \in S PROVE n + 1 \in S
  <2> SUFFICES ASSUME n + 1 <= Len(parts) PROVE At(n + 1) OBVIOUS
  <2>1. n + 1 \in 1 .. Len(parts) /\ n \in 0 .. Len(parts) /\ (n + 1) - 1 = n /\ n <= Len(parts)
          /\ 0 \in 0 .. Len(parts) /\ n + 1 \in 0 .. Len(parts)
    BY <1>0
  <2>2. At(n) BY <1>3, <2>1
  <2> DEFINE a == g[n]
             b == parts[n + 1]
  <2>3. g[n + 1] = a \o b BY <1>1, <2>1 DEF Joins
  <2>4. a \in Seq(D) /\ b \in Seq(D) BY <1>0, <1>1a, <2>1
  <2>5. Len(a) \in Nat /\ Len(b) \in Nat BY <2>4
  <2>6. c[n + 1] = c[n] + Len(b) BY <2>1 DEF Offsets
  <2>7. c[0] \in Int /\ c[n] \in Int BY <1>1b, <2>1
  <2>8. Len(a) = c[n] - c[0] BY <2>2
  <2>9. /\ Len(a \o b) = Len(a) + Len(b)
        /\ \A x \in 1 .. Len(a) + Len(b) : (a \o b)[x] = IF x <= Len(a) THEN a[x] ELSE b[x - Len(a)]
    BY <2>4, ConcatProperties
  <2>10. ASSUME NEW x \in 1 .. Len(g[n + 1]) PROVE Placed(n + 1, x)
    <3>1. x \in 1 .. Len(a) + Len(b) BY <2>3, <2>9
    <3>2. CASE x <= Len(a)
      <4>1. x \in 1 .. Len(g[n]) BY <3>1, <3>2
      <4>2. PICK i \in 1 .. n : \E j \in 1 .. Len(parts[i]) :
              x = (c[i - 1] - c[0]) + j /\ g[n][x] = parts[i][j]
        BY <2>2, <4>1 DEF Placed
      <4>3. g[n + 1][x] = g[n][x] BY <2>3, <2>9, <3>1, <3>2
      <4>4. i \in 1 .. n + 1 OBVIOUS
      <4> QED BY <4>2, <4>3, <4>4 DEF Placed
    <3>3. CASE ~(x <= Len(a))
      <4> DEFINE j == x - Len(a)
      <4>1. j \in 1 .. Len(b)
        <5> DEFINE la == Len(a)
                   lb == Len(b)
        <5>1. la \in Nat /\ lb \in Nat /\ x \in 1 .. la + lb /\ ~(x <= la) BY <2>5, <3>1, <3>3
        <5> HIDE DEF la, lb
        <5>2. x - la \in 1 .. lb BY <5>1
        <5> QED BY <5>2 DEF la, lb
      <4>2. g[n + 1][x] = b[j] BY <2>3, <2>9, <3>1, <3>3
      <4>3. x = (c[n] - c[0]) + j BY <2>5, <2>7, <2>8, <3>1
      <4>4. n + 1 \in 1 .. n + 1 OBVIOUS
      <4> HIDE DEF j
      <4> QED BY <2>1, <4>1, <4>2, <4>3, <4>4 DEF Placed
    <3> QED BY <3>2, <3>3
  <2>11. Len(g[n + 1]) = c[n + 1] - c[0]
    <3> DEFINE la == Len(a)
               lb == Len(b)
               lg == Len(g[n + 1])
    <3>1. lg = la + lb BY <2>3, <2>9
    <3>2. la \in Nat /\ lb \in Nat /\ la = c[n] - c[0] /\ c[n + 1] = c[n] + lb BY <2>5, <2>6, <2>8
    <3> HIDE DEF la, lb, lg
    <3>3. lg = c[n + 1] - c[0] BY <2>7, <3>1, <3>2
    <3> QED BY <3>3 DEF lg
  <2> QED BY <2>10, <2>11
<1> HIDE DEF S
<1>4. At(Len(parts))
  <2>1. Len(parts) \in S BY <1>0, <1>2, <1>3, Induction
  <2> QED BY <1>0, <2>1 DEF S
<1>5. FlattenSeq(parts) = g[Len(parts)] /\ FlattenSeq(parts) \in Seq(D) BY <1>1, FlattenIs
<1> HIDE DEF At
<1>6. Len(g[Len(parts)]) = c[Len(parts)] - c[0] BY <1>4 DEF At
<1>7. \A x \in 1 .. Len(g[Len(parts)]) : Placed(Len(parts), x) BY <1>4 DEF At
<1> QED BY <1>5, <1>6, <1>7 DEF Placed, InRow

\* A sequence lasts what its two parts last.
LEMMA DurationOfParts ==
    ASSUME NEW D, Timed(D), NEW s \in Seq(D), NEW n \in 0 .. Len(s)
    PROVE  /\ SubSeq(s, 1, n) \in Seq(D) /\ SubSeq(s, n + 1, Len(s)) \in Seq(D)
           /\ Duration(SubSeq(s, 1, n)) \in Int /\ Duration(SubSeq(s, n + 1, Len(s))) \in Int
           /\ Duration(SubSeq(s, 1, n)) + Duration(SubSeq(s, n + 1, Len(s))) = Duration(s)
<1>0. Len(s) \in Nat OBVIOUS
<1>1. SubSeq(s, 1, n) \in Seq(D) /\ SubSeq(s, n + 1, Len(s)) \in Seq(D)
  <2>1. \A i \in 1 .. n : s[i] \in D BY <1>0
  <2>2. \A i \in n + 1 .. Len(s) : s[i] \in D BY <1>0
  <2> QED BY <1>0, <2>1, <2>2, SubSeqProperties
<1>2. SubSeq(s, 1, n) \o SubSeq(s, n + 1, Len(s)) = SubSeq(s, 1, Len(s))
  <2>1. 1 \in 1 .. Len(s) + 1 /\ n \in 1 - 1 .. Len(s) /\ Len(s) \in n .. Len(s) BY <1>0
  <2> QED BY <2>1, ConcatAdjacentSubSeq
<1>3. SubSeq(s, 1, Len(s)) = s BY SubSeqFull
<1> QED BY <1>1, <1>2, <1>3, DurationOfBoth, DurationInt

LEMMA DurationOfOne ==
    ASSUME NEW D, Timed(D), NEW s \in Seq(D), Len(s) = 1
    PROVE  Duration(s) = s[1].dur /\ s[1].dur \in Int
<1>1. PICK f : Sums(f, s) BY SumsExist
<1>2. 1 \in 1 .. Len(s) /\ s[1] \in D OBVIOUS
<1>3. f[1] = f[0] + s[1].dur /\ f[0] = 0 BY <1>1, <1>2 DEF Sums
<1>4. s[1].dur \in Int BY <1>2 DEF Timed
<1>5. Duration(s) = f[1] BY <1>1, DurationIs
<1> QED BY <1>3, <1>4, <1>5

-----------------------------------------------------------------------------
(* Fragments that follow each other. *)

Sample == [n : Nat, sync : BOOLEAN, dur : Int]
QueuedFragment == [samples : Seq(Sample), time : Int, guess : BOOLEAN, start : Nat]
PushedFragment == [track : Tracks, time : Int, guess : BOOLEAN, samples : Seq(Sample)]

\* How far a track is: its samples and the time they last.
Place == [n : Nat, time : Int]

\* A fragment goes from one place of its track to another; when it is guessed how
\* long its sample lasts, the place says how long it really does.
Fits(f, a, b) ==
    /\ f.samples # <<>>
    /\ f.time = a.time
    /\ b.n = a.n + Len(f.samples)
    /\ \A j \in 1 .. Len(f.samples) : f.samples[j].n = a.n + j
    /\ IF f.guess THEN Len(f.samples) = 1 ELSE b.time = EndTime(f)

\* The places a queue goes through; only its last fragment may be guessed.
Path(queue, p) ==
    /\ p \in [0 .. Len(queue) -> Place]
    /\ \A i \in 1 .. Len(queue) : Fits(queue[i], p[i - 1], p[i])
    /\ \A i \in 1 .. Len(queue) : queue[i].guess => i = Len(queue)

Chain(queue, a, b) == \E p : Path(queue, p) /\ p[0] = a /\ p[Len(queue)] = b

\* The payload of a fragment, of each fragment of a queue, is in the store.
Holds(payload, f, t) ==
    /\ f.start + Len(f.samples) <= Len(payload)
    /\ \A j \in 1 .. Len(f.samples) : payload[f.start + j] = <<t, f.samples[j].n>>
Stored(payload, queue, t) == \A i \in 1 .. Len(queue) : Holds(payload, queue[i], t)

LEMMA SampleTimed == Timed(Sample)
BY DEF Timed, Sample

LEMMA EndTimeInt ==
    ASSUME NEW f \in QueuedFragment
    PROVE  EndTime(f) \in Int /\ f.time \in Int /\ f.samples \in Seq(Sample) /\ Len(f.samples) \in Nat
<1>1. f.samples \in Seq(Sample) /\ f.time \in Int BY DEF QueuedFragment
<1>2. Duration(f.samples) \in Int BY <1>1, SampleTimed, DurationInt
<1>3. Len(f.samples) \in Nat BY <1>1
<1> QED BY <1>1, <1>2, <1>3 DEF EndTime

\* The samples of a queue are the ones between its places.
LEMMA PathSamples ==
    ASSUME NEW queue \in Seq(QueuedFragment), NEW p, Path(queue, p)
    PROVE  /\ SamplesOf(queue) \in Seq(Sample)
           /\ Len(SamplesOf(queue)) = p[Len(queue)].n - p[0].n
           /\ \A x \in 1 .. Len(SamplesOf(queue)) : SamplesOf(queue)[x].n = p[0].n + x
<1> DEFINE parts == [i \in 1 .. Len(queue) |-> queue[i].samples]
           c == [i \in 0 .. Len(queue) |-> p[i].n]
<1>0. Len(queue) \in Nat /\ \A i \in 1 .. Len(queue) : queue[i] \in QueuedFragment OBVIOUS
<1>1. parts \in Seq(Seq(Sample)) /\ Len(parts) = Len(queue)
  <2>1. \A i \in 1 .. Len(queue) : queue[i].samples \in Seq(Sample) BY <1>0, EndTimeInt
  <2> QED BY <1>0, <2>1
<1>2. \A i \in 0 .. Len(queue) : p[i].n \in Nat BY DEF Path, Place
<1>3. Offsets(c, parts)
  <2>1. c \in [0 .. Len(queue) -> Int] BY <1>2
  <2>2. ASSUME NEW i \in 1 .. Len(queue) PROVE c[i] = c[i - 1] + Len(parts[i])
    <3>1. i \in 0 .. Len(queue) /\ i - 1 \in 0 .. Len(queue) BY <1>0
    <3>2. p[i].n = p[i - 1].n + Len(queue[i].samples) BY DEF Path, Fits
    <3> QED BY <3>1, <3>2
  <2> HIDE DEF parts, c
  <2> QED BY <1>1, <2>1, <2>2 DEF Offsets
<1>4. SamplesOf(queue) = FlattenSeq(parts) BY DEF SamplesOf
<1> HIDE DEF parts
<1>5. FlattenSeq(parts) \in Seq(Sample) /\ InRow(FlattenSeq(parts), parts, c)
  <2> HIDE DEF c
  <2> QED BY <1>1, <1>3, FlattenAt
<1>5a. Len(FlattenSeq(parts)) = c[Len(parts)] - c[0] BY <1>5 DEF InRow
<1>6. c[Len(parts)] = p[Len(queue)].n /\ c[0] = p[0].n BY <1>0, <1>1
<1>7. ASSUME NEW x \in 1 .. Len(FlattenSeq(parts)) PROVE FlattenSeq(parts)[x].n = p[0].n + x
  <2>1. PICK i \in 1 .. Len(parts) : \E j \in 1 .. Len(parts[i]) :
          x = (c[i - 1] - c[0]) + j /\ FlattenSeq(parts)[x] = parts[i][j]
    BY <1>5 DEF InRow
  <2>2. PICK j \in 1 .. Len(parts[i]) : x = (c[i - 1] - c[0]) + j /\ FlattenSeq(parts)[x] = parts[i][j]
    BY <2>1
  <2>3. parts[i] = queue[i].samples BY <1>1 DEF parts
  <2>4. queue[i].samples[j].n = p[i - 1].n + j BY <1>1, <2>3 DEF Path, Fits
  <2>5. i - 1 \in 0 .. Len(queue) /\ 0 \in 0 .. Len(queue) BY <1>0, <1>1
  <2>6. c[i - 1] = p[i - 1].n BY <2>5
  <2>7. p[i - 1].n \in Nat /\ p[0].n \in Nat /\ j \in Int BY <1>2, <2>5
  <2> HIDE DEF c
  <2>8. x = (p[i - 1].n - p[0].n) + j BY <1>6, <2>2, <2>6
  <2>9. p[i - 1].n + j = p[0].n + x BY <2>7, <2>8, SMTT(20)
  <2> QED BY <2>2, <2>3, <2>4, <2>9
<1> QED BY <1>4, <1>5, <1>5a, <1>6, <1>7

\* They can be merged.
LEMMA PathMergeable ==
    ASSUME NEW queue \in Seq(QueuedFragment), NEW p, Path(queue, p)
    PROVE  Mergeable(queue)
<1> SUFFICES ASSUME NEW i \in 1 .. Len(queue) - 1 PROVE queue[i + 1].time = EndTime(queue[i])
  BY DEF Mergeable
<1>0. Len(queue) \in Nat OBVIOUS
<1>1. i \in 1 .. Len(queue) /\ i + 1 \in 1 .. Len(queue) /\ (i + 1) - 1 = i /\ i # Len(queue) BY <1>0
<1>2. ~queue[i].guess BY <1>1 DEF Path
<1>3. p[i].time = EndTime(queue[i]) BY <1>1, <1>2 DEF Path, Fits
<1>4. queue[i + 1].time = p[i].time
  <2>1. Fits(queue[i + 1], p[(i + 1) - 1], p[i + 1]) BY <1>1 DEF Path
  <2> QED BY <1>1, <2>1 DEF Fits
<1> QED BY <1>3, <1>4

\* The first fragments of a queue, and the others.
LEMMA PathCut ==
    ASSUME NEW queue \in Seq(QueuedFragment), NEW p, Path(queue, p), NEW v \in 0 .. Len(queue)
    PROVE  /\ SubSeq(queue, 1, v) \in Seq(QueuedFragment)
           /\ SubSeq(queue, v + 1, Len(queue)) \in Seq(QueuedFragment)
           /\ Len(SubSeq(queue, 1, v)) = v /\ Len(SubSeq(queue, v + 1, Len(queue))) = Len(queue) - v
           /\ \A i \in 1 .. v : SubSeq(queue, 1, v)[i] = queue[i]
           /\ \A i \in 1 .. Len(queue) - v : SubSeq(queue, v + 1, Len(queue))[i] = queue[v + i]
           /\ Path(SubSeq(queue, 1, v), [i \in 0 .. v |-> p[i]])
           /\ Path(SubSeq(queue, v + 1, Len(queue)), [i \in 0 .. Len(queue) - v |-> p[v + i]])
           /\ p[v] \in Place
<1> DEFINE len == Len(queue)
           a == SubSeq(queue, 1, v)
           b == SubSeq(queue, v + 1, len)
           pa == [i \in 0 .. v |-> p[i]]
           pb == [i \in 0 .. len - v |-> p[v + i]]
<1>0. len \in Nat /\ \A i \in 1 .. len : queue[i] \in QueuedFragment OBVIOUS
<1>0a. p \in [0 .. len -> Place] BY DEF Path
<1>0b. /\ \A i \in 1 .. len : Fits(queue[i], p[i - 1], p[i])
       /\ \A i \in 1 .. len : queue[i].guess => i = len
  BY DEF Path
<1> HIDE DEF len
<1>1. a \in Seq(QueuedFragment) /\ Len(a) = v /\ \A i \in 1 .. v : a[i] = queue[i]
  <2>1. \A i \in 1 .. v : queue[i] \in QueuedFragment BY <1>0
  <2>2. /\ a \in Seq(QueuedFragment)
        /\ Len(a) = IF 1 <= v THEN v - 1 + 1 ELSE 0
        /\ \A i \in 1 .. v - 1 + 1 : a[i] = queue[1 + i - 1]
    BY <1>0, <2>1, SubSeqProperties
  <2>3. \A i \in 1 .. v : 1 + i - 1 = i OBVIOUS
  <2> HIDE DEF a
  <2>4. v \in Nat /\ v - 1 + 1 = v BY <1>0 DEF len
  <2> QED BY <2>2, <2>3, <2>4
<1>2. b \in Seq(QueuedFragment) /\ Len(b) = len - v /\ \A i \in 1 .. len - v : b[i] = queue[v + i]
  <2>1. \A i \in v + 1 .. len : queue[i] \in QueuedFragment BY <1>0 DEF len
  <2>2. /\ b \in Seq(QueuedFragment)
        /\ Len(b) = IF v + 1 <= len THEN len - (v + 1) + 1 ELSE 0
        /\ \A i \in 1 .. len - (v + 1) + 1 : b[i] = queue[v + 1 + i - 1]
    BY <1>0, <2>1, SubSeqProperties DEF len
  <2>3. v \in Nat /\ v <= len BY <1>0 DEF len
  <2>4. len - (v + 1) + 1 = len - v BY <1>0, <2>3
  <2>5. \A i \in 1 .. len - v : v + 1 + i - 1 = v + i BY <1>0, <2>3
  <2> HIDE DEF b
  <2> QED BY <1>0, <2>2, <2>3, <2>4, <2>5
<1> HIDE DEF a, b
<1>v. v \in Nat /\ v <= len BY <1>0 DEF len
<1>3. Path(a, pa)
  <2>1. pa \in [0 .. v -> Place] BY <1>0, <1>0a, <1>v
  <2>2. ASSUME NEW i \in 1 .. v PROVE Fits(a[i], pa[i - 1], pa[i])
    <3>1. i \in 1 .. len /\ i - 1 \in 0 .. v /\ i \in 0 .. v BY <1>0, <1>v
    <3> QED BY <1>0b, <1>1, <3>1
  <2>3. ASSUME NEW i \in 1 .. v, a[i].guess PROVE i = v
    <3>1. i \in 1 .. len BY <1>0, <1>v
    <3>2. i = len BY <1>0b, <1>1, <2>3, <3>1
    <3> QED BY <1>0, <1>v, <3>2
  <2> HIDE DEF pa
  <2> QED BY <1>1, <2>1, <2>2, <2>3 DEF Path
<1>4. Path(b, pb)
  <2>0. \A i \in 0 .. len - v : v + i \in 0 .. len BY <1>0, <1>v
  <2>1. pb \in [0 .. len - v -> Place] BY <1>0a, <2>0
  <2>2. ASSUME NEW i \in 1 .. len - v PROVE Fits(b[i], pb[i - 1], pb[i])
    <3>1. v + i \in 1 .. len /\ i - 1 \in 0 .. len - v /\ i \in 0 .. len - v
            /\ (v + i) - 1 = v + (i - 1) BY <1>0, <1>v
    <3>2. Fits(queue[v + i], p[(v + i) - 1], p[v + i]) BY <1>0b, <3>1
    <3>3. pb[i - 1] = p[v + (i - 1)] /\ pb[i] = p[v + i] BY <3>1
    <3> QED BY <1>2, <3>1, <3>2, <3>3
  <2>3. ASSUME NEW i \in 1 .. len - v, b[i].guess PROVE i = len - v
    <3>1. v + i \in 1 .. len BY <1>0, <1>v
    <3>2. v + i = len BY <1>0b, <1>2, <2>3, <3>1
    <3> QED BY <1>0, <1>v, <3>2
  <2> HIDE DEF pb
  <2> QED BY <1>2, <2>1, <2>2, <2>3 DEF Path
<1>5. p[v] \in Place BY <1>0, <1>0a, <1>v
<1> QED BY <1>1, <1>2, <1>3, <1>4, <1>5 DEF a, b, len

\* The start of a fragment's payload is of no concern to the places.
LEMMA PathLike ==
    ASSUME NEW queue, NEW p, Path(queue, p), NEW other, Len(other) = Len(queue),
           \A i \in 1 .. Len(queue) : /\ other[i].samples = queue[i].samples
                                      /\ other[i].time = queue[i].time
                                      /\ other[i].guess = queue[i].guess
    PROVE  Path(other, p)
<1>1. p \in [0 .. Len(other) -> Place] BY DEF Path
<1>2. ASSUME NEW i \in 1 .. Len(other) PROVE Fits(other[i], p[i - 1], p[i])
  <2>1. Fits(queue[i], p[i - 1], p[i]) BY DEF Path
  <2>2. /\ other[i].samples = queue[i].samples
        /\ other[i].time = queue[i].time
        /\ other[i].guess = queue[i].guess
    OBVIOUS
  <2> QED BY <2>1, <2>2 DEF Fits, EndTime
<1>3. ASSUME NEW i \in 1 .. Len(other), other[i].guess PROVE i = Len(other)
  BY <1>3 DEF Path
<1> QED BY <1>1, <1>2, <1>3 DEF Path

\* A guess put right.
Corrected(f, time) ==
    [f EXCEPT !.samples[Len(f.samples)].dur = time - (EndTime(f) - f.samples[Len(f.samples)].dur),
              !.guess = FALSE]

LEMMA FitsResolved ==
    ASSUME NEW f \in QueuedFragment, NEW a \in Place, NEW b \in Place, Fits(f, a, b), f.guess,
           NEW g, g = Corrected(f, b.time)
    PROVE  /\ g \in QueuedFragment /\ Fits(g, a, b) /\ ~g.guess
           /\ g.start = f.start /\ Len(g.samples) = Len(f.samples)
           /\ \A j \in 1 .. Len(f.samples) : g.samples[j].n = f.samples[j].n
<1>1. f.samples \in Seq(Sample) /\ Len(f.samples) = 1 /\ f.time = a.time BY DEF QueuedFragment, Fits
<1>2. Duration(f.samples) = f.samples[1].dur /\ f.samples[1].dur \in Int
  BY <1>1, SampleTimed, DurationOfOne
<1>3. f.time \in Int /\ b.time \in Int BY DEF QueuedFragment, Place
<1> DEFINE d == b.time - (EndTime(f) - f.samples[Len(f.samples)].dur)
<1>4. d = b.time - f.time /\ d \in Int BY <1>1, <1>2, <1>3 DEF EndTime
<1>5. 1 \in 1 .. Len(f.samples) /\ f.samples[1] \in Sample BY <1>1
<1> DEFINE x == [f.samples[1] EXCEPT !.dur = d]
           s == [f.samples EXCEPT ![1] = x]
<1> HIDE DEF d
<1>6. x \in Sample /\ x.n = f.samples[1].n /\ x.dur = d BY <1>4, <1>5 DEF Sample
<1> HIDE DEF x
<1>7. s \in Seq(Sample) /\ Len(s) = 1 /\ s[1] = x BY <1>1, <1>5, <1>6, ExceptSeq
<1>8. Duration(s) = d BY <1>6, <1>7, SampleTimed, DurationOfOne
<1>9. g = [f EXCEPT !.samples = s, !.guess = FALSE] BY <1>1 DEF d, x, Corrected
<1> HIDE DEF s
<1>10. /\ g \in QueuedFragment
       /\ g.samples = s /\ g.time = f.time /\ g.guess = FALSE /\ g.start = f.start
  BY <1>7, <1>9 DEF QueuedFragment
<1>11. EndTime(g) = b.time BY <1>3, <1>4, <1>8, <1>10 DEF EndTime
<1>12. \A j \in 1 .. Len(f.samples) : s[j].n = f.samples[j].n BY <1>1, <1>6, <1>7
<1>13. Fits(g, a, b)
  <2>1. g.samples # <<>> BY <1>7, <1>10, SMTT(20)
  <2>2. b.n = a.n + Len(g.samples) BY <1>1, <1>7, <1>10 DEF Fits
  <2>3. \A j \in 1 .. Len(g.samples) : g.samples[j].n = a.n + j BY <1>1, <1>7, <1>10, <1>12 DEF Fits
  <2> QED BY <1>1, <1>10, <1>11, <2>1, <2>2, <2>3 DEF Fits
<1> QED BY <1>1, <1>7, <1>10, <1>12, <1>13

\* What the arrival of the next fragment does to the ones before it.
LEMMA ResolvedPath ==
    ASSUME NEW queue \in Seq(QueuedFragment), NEW p, Path(queue, p),
           NEW r, r = Resolved(queue, p[Len(queue)].time)
    PROVE  /\ r \in Seq(QueuedFragment) /\ Len(r) = Len(queue) /\ Path(r, p)
           /\ \A i \in 1 .. Len(queue) :
                /\ ~r[i].guess /\ r[i].start = queue[i].start
                /\ Len(r[i].samples) = Len(queue[i].samples)
                /\ \A j \in 1 .. Len(queue[i].samples) : r[i].samples[j].n = queue[i].samples[j].n
<1>0. Len(queue) \in Nat /\ \A i \in 1 .. Len(queue) : queue[i] \in QueuedFragment OBVIOUS
<1>1. CASE queue = <<>> \/ ~Last(queue).guess
  <2>1. r = queue BY <1>1 DEF Resolved
  <2>2. \A i \in 1 .. Len(queue) : ~queue[i].guess BY <1>0, <1>1 DEF Path, Last
  <2> QED BY <2>1, <2>2
<1>2. CASE ~(queue = <<>> \/ ~Last(queue).guess)
  <2> DEFINE n == Len(queue)
             f == queue[n]
             g == Corrected(f, p[n].time)
  <2>1. n \in 1 .. n /\ n \in Nat /\ f \in QueuedFragment /\ f.guess BY <1>0, <1>2 DEF Last
  <2>2. r = [queue EXCEPT ![n] = g] BY <1>2 DEF Resolved, Last, Corrected
  <2>3. p[n - 1] \in Place /\ p[n] \in Place /\ Fits(f, p[n - 1], p[n]) BY <2>1 DEF Path
  <2>4. /\ g \in QueuedFragment /\ Fits(g, p[n - 1], p[n]) /\ ~g.guess
        /\ g.start = f.start /\ Len(g.samples) = Len(f.samples)
        /\ \A j \in 1 .. Len(f.samples) : g.samples[j].n = f.samples[j].n
    <3> HIDE DEF f, n
    <3> QED BY <2>1, <2>3, FitsResolved
  <2> HIDE DEF g
  <2>5. /\ r \in Seq(QueuedFragment) /\ Len(r) = n
        /\ \A j \in 1 .. n : r[j] = IF j = n THEN g ELSE queue[j]
    BY <2>1, <2>2, <2>4, ExceptSeq
  <2>6. \A i \in 1 .. n : queue[i].guess => i = n BY DEF Path
  <2>7. Path(r, p)
    <3>1. p \in [0 .. Len(r) -> Place] BY <2>5 DEF Path
    <3>2. ASSUME NEW i \in 1 .. n PROVE Fits(r[i], p[i - 1], p[i])
      <4>1. Fits(queue[i], p[i - 1], p[i]) BY DEF Path
      <4> QED BY <2>4, <2>5, <4>1
    <3>3. ASSUME NEW i \in 1 .. n PROVE r[i].guess => i = n BY <2>5, <2>6
    <3> QED BY <2>5, <3>1, <3>2, <3>3 DEF Path
  <2>8. ASSUME NEW i \in 1 .. n
        PROVE  /\ ~r[i].guess /\ r[i].start = queue[i].start
               /\ Len(r[i].samples) = Len(queue[i].samples)
               /\ \A j \in 1 .. Len(queue[i].samples) : r[i].samples[j].n = queue[i].samples[j].n
    <3>1. CASE i = n BY <2>4, <2>5, <3>1
    <3>2. CASE i # n BY <2>5, <2>6, <3>2
    <3> QED BY <3>1, <3>2
  <2> QED BY <2>5, <2>7, <2>8
<1> QED BY <1>1, <1>2

\* A fragment is queued behind the others.
LEMMA PathAppend ==
    ASSUME NEW queue \in Seq(QueuedFragment), NEW p, Path(queue, p),
           \A i \in 1 .. Len(queue) : ~queue[i].guess,
           NEW f \in QueuedFragment, NEW b \in Place, Fits(f, p[Len(queue)], b)
    PROVE  Path(Append(queue, f), [i \in 0 .. Len(queue) + 1 |-> IF i = Len(queue) + 1 THEN b ELSE p[i]])
<1> DEFINE q == Append(queue, f)
           n == Len(queue)
           t == [i \in 0 .. n + 1 |-> IF i = n + 1 THEN b ELSE p[i]]
<1>0. n \in Nat OBVIOUS
<1>1. Len(q) = n + 1 /\ q[n + 1] = f /\ \A i \in 1 .. n : q[i] = queue[i] BY AppendProperties
<1>2. p \in [0 .. n -> Place] BY DEF Path
<1>2a. \A i \in 1 .. n : Fits(queue[i], p[i - 1], p[i]) BY DEF Path
<1>2b. Fits(f, p[n], b) /\ \A i \in 1 .. n : ~queue[i].guess OBVIOUS
<1> HIDE DEF q, n
<1>3. t \in [0 .. n + 1 -> Place] BY <1>0, <1>2
<1>4. ASSUME NEW i \in 1 .. n + 1 PROVE Fits(q[i], t[i - 1], t[i])
  <2>1. CASE i = n + 1
    <3>1. t[i] = b /\ t[i - 1] = p[n] /\ q[i] = f BY <1>0, <1>1, <2>1
    <3> QED BY <1>2b, <3>1
  <2>2. CASE i # n + 1
    <3>1. i \in 1 .. n BY <1>0, <2>2
    <3>2. t[i] = p[i] /\ t[i - 1] = p[i - 1] /\ q[i] = queue[i] BY <1>0, <1>1, <3>1
    <3> QED BY <1>2a, <3>1, <3>2
  <2> QED BY <2>1, <2>2
<1>5. ASSUME NEW i \in 1 .. n + 1 PROVE q[i].guess => i = n + 1
  <2>1. i \in 1 .. n \/ i = n + 1 BY <1>0
  <2> QED BY <1>1, <1>2b, <2>1
<1> HIDE DEF t
<1>6. Path(q, t) BY <1>1, <1>3, <1>4, <1>5 DEF Path
<1> QED BY <1>6 DEF q, t, n

\* What holds of the payload of some fragments holds of the payload of fewer.
LEMMA StoredPart ==
    ASSUME NEW payload, NEW t, NEW queue, Stored(payload, queue, t), NEW part,
           \A i \in 1 .. Len(part) : \E k \in 1 .. Len(queue) : part[i] = queue[k]
    PROVE  Stored(payload, part, t)
BY DEF Stored

\* A fragment is split.
LEMMA SplitParts ==
    ASSUME NEW f \in QueuedFragment, NEW a \in Place, NEW b \in Place, Fits(f, a, b),
           NEW n \in 1 .. Len(f.samples) - 1
    PROVE  LET x == Split(f, n)[1]
               y == Split(f, n)[2]
               m == [n |-> a.n + n, time |-> y.time]
           IN  /\ Split(f, n) = <<x, y>>
               /\ x \in QueuedFragment /\ y \in QueuedFragment /\ m \in Place
               /\ ~x.guess /\ ~y.guess
               /\ Fits(x, a, m) /\ Fits(y, m, b)
               /\ x.start = f.start /\ y.start = f.start + n
               /\ Len(x.samples) = n /\ Len(y.samples) = Len(f.samples) - n
               /\ \A j \in 1 .. n : x.samples[j] = f.samples[j]
               /\ \A j \in 1 .. Len(f.samples) - n : y.samples[j] = f.samples[n + j]
<1> DEFINE s == f.samples
           len == Len(f.samples)
           s1 == SubSeq(s, 1, n)
           s2 == SubSeq(s, n + 1, Len(s))
           d1 == Duration(s1)
           x == [f EXCEPT !.samples = s1, !.guess = FALSE]
           y == [f EXCEPT !.samples = s2, !.guess = FALSE, !.time = @ + d1, !.start = @ + n]
           m == [n |-> a.n + n, time |-> f.time + d1]
<1>0. s \in Seq(Sample) /\ len \in Nat /\ f.time \in Int /\ f.start \in Nat /\ f.guess \in BOOLEAN
  BY DEF QueuedFragment
<1>0a. n \in Nat /\ n >= 1 /\ n < len /\ n \in 0 .. len BY <1>0
<1>1. Split(f, n) = <<x, y>> BY DEF Split
<1>2. /\ s1 \in Seq(Sample) /\ s2 \in Seq(Sample) /\ d1 \in Int /\ Duration(s2) \in Int
      /\ d1 + Duration(s2) = Duration(s)
  BY <1>0, <1>0a, SampleTimed, DurationOfParts
<1>3. Len(s1) = n /\ \A j \in 1 .. n : s1[j] = s[j]
  <2>1. \A i \in 1 .. n : s[i] \in Sample BY <1>0, <1>0a
  <2>2. Len(s1) = (IF 1 <= n THEN n - 1 + 1 ELSE 0) /\ \A i \in 1 .. n - 1 + 1 : s1[i] = s[1 + i - 1]
    BY <1>0a, <2>1, SubSeqProperties
  <2>3. n - 1 + 1 = n /\ \A i \in 1 .. n : 1 + i - 1 = i BY <1>0a
  <2> HIDE DEF s1, s
  <2> QED BY <1>0a, <2>2, <2>3
<1>4. Len(s2) = len - n /\ \A j \in 1 .. len - n : s2[j] = s[n + j]
  <2>1. \A i \in n + 1 .. len : s[i] \in Sample BY <1>0, <1>0a
  <2>2. /\ Len(s2) = IF n + 1 <= len THEN len - (n + 1) + 1 ELSE 0
        /\ \A i \in 1 .. len - (n + 1) + 1 : s2[i] = s[n + 1 + i - 1]
    BY <1>0, <1>0a, <2>1, SubSeqProperties, SMTT(20)
  <2> HIDE DEF s2, s, len
  <2>3. len - (n + 1) + 1 = len - n BY <1>0, <1>0a
  <2>4. \A i \in 1 .. len - n : n + 1 + i - 1 = n + i BY <1>0, <1>0a
  <2> QED BY <1>0, <1>0a, <2>2, <2>3, <2>4
<1> HIDE DEF s1, s2, d1
<1>5. x = [f EXCEPT !.samples = s1, !.guess = FALSE] OBVIOUS
<1>5a. y = [f EXCEPT !.samples = s2, !.guess = FALSE, !.time = f.time + d1, !.start = f.start + n] OBVIOUS
<1>8. Split(f, n)[1] = x /\ Split(f, n)[2] = y BY <1>1
<1> HIDE DEF x, y, s
<1>6. /\ x \in QueuedFragment
      /\ x.samples = s1 /\ x.time = f.time /\ x.guess = FALSE /\ x.start = f.start
  BY <1>2, <1>5 DEF QueuedFragment
<1>7. /\ y \in QueuedFragment
      /\ y.samples = s2 /\ y.time = f.time + d1 /\ y.guess = FALSE /\ y.start = f.start + n
  <2> DEFINE tm == f.time + d1
             st == f.start + n
  <2>1. tm \in Int /\ st \in Nat BY <1>0, <1>0a, <1>2, SMTT(20)
  <2>2. y = [f EXCEPT !.samples = s2, !.guess = FALSE, !.time = tm, !.start = st] BY <1>5a
  <2> HIDE DEF tm, st
  <2>3. y = [samples |-> s2, time |-> tm, guess |-> FALSE, start |-> st] BY <2>2 DEF QueuedFragment
  <2>4. y \in QueuedFragment BY <1>2, <2>1, <2>3 DEF QueuedFragment
  <2> QED BY <2>3, <2>4 DEF tm, st
<1>9. x \in QueuedFragment BY <1>6
<1>10. y \in QueuedFragment BY <1>7
<1> USE DEF s
<1>11. a.n \in Nat /\ a.time = f.time BY DEF Place, Fits
<1>12. m \in Place BY <1>0, <1>0a, <1>2, <1>11, SMTT(20) DEF Place
<1>13. \A j \in 1 .. len : s[j].n = a.n + j BY DEF Fits
<1>14. b.n = a.n + len BY DEF Fits
<1>15. ~f.guess
  <2>1. Len(f.samples) # 1 BY <1>0a, SMTT(20)
  <2> QED BY <2>1 DEF Fits
<1>16. b.time = f.time + Duration(s) BY <1>15 DEF Fits, EndTime
<1> HIDE DEF s, len
<1>17. Fits(x, a, m)
  <2>1. s1 # <<>> BY <1>0a, <1>3
  <2>2. \A j \in 1 .. n : s1[j].n = a.n + j
    <3>1. \A j \in 1 .. n : j \in 1 .. len BY <1>0, <1>0a
    <3> QED BY <1>3, <1>13, <3>1
  <2> QED BY <1>3, <1>6, <1>11, <2>1, <2>2 DEF Fits, EndTime, d1
<1>18. Fits(y, m, b)
  <2>1. s2 # <<>> BY <1>0, <1>0a, <1>4
  <2>2. \A j \in 1 .. len - n : s2[j].n = (a.n + n) + j
    <3> SUFFICES ASSUME NEW j \in 1 .. len - n PROVE s2[j].n = (a.n + n) + j OBVIOUS
    <3>1. n + j \in 1 .. len BY <1>0, <1>0a
    <3>2. s[n + j].n = a.n + (n + j) BY <1>13, <3>1
    <3>3. a.n + (n + j) = (a.n + n) + j BY <1>0a, <1>11
    <3> QED BY <1>4, <3>2, <3>3
  <2>3. b.n = (a.n + n) + (len - n) BY <1>0, <1>0a, <1>11, <1>14
  <2>4. b.time = (f.time + d1) + Duration(s2) BY <1>0, <1>2, <1>16
  <2>5. y.samples = s2 /\ y.time = f.time + d1 /\ y.guess = FALSE BY <1>7
  <2>6. m.n = a.n + n /\ m.time = f.time + d1 OBVIOUS
  <2> HIDE DEF m
  <2> QED BY <1>4, <2>1, <2>2, <2>3, <2>4, <2>5, <2>6 DEF Fits, EndTime
<1>19. Split(f, n)[2].time = f.time + d1 BY <1>7, <1>8
<1>20. /\ ~x.guess /\ ~y.guess /\ x.start = f.start /\ y.start = f.start + n
       /\ x.samples = s1 /\ y.samples = s2
  BY <1>6, <1>7
<1> HIDE DEF m
<1>21. m = [n |-> a.n + n, time |-> Split(f, n)[2].time] BY <1>19 DEF m
<1>22. Split(f, n) = <<x, y>> BY <1>1
<1> QED BY <1>3, <1>4, <1>8, <1>9, <1>10, <1>12, <1>17, <1>18, <1>20, <1>21, <1>22 DEF s, len

\* The queue with one of its fragments split.
SplitAt(queue, i, n) ==
    SubSeq(queue, 1, i - 1) \o Split(queue[i], n) \o SubSeq(queue, i + 1, Len(queue))

LEMMA PathSplit ==
    ASSUME NEW queue \in Seq(QueuedFragment), NEW p, Path(queue, p),
           NEW i \in 1 .. Len(queue), NEW n \in 1 .. Len(queue[i].samples) - 1,
           NEW s, s = SplitAt(queue, i, n)
    PROVE  /\ s \in Seq(QueuedFragment) /\ Len(s) = Len(queue) + 1
           /\ \E r : Path(s, r) /\ r[0] = p[0] /\ r[Len(s)] = p[Len(queue)]
           /\ \A payload, t : Stored(payload, queue, t) => Stored(payload, s, t)
<1> DEFINE len == Len(queue)
           f == queue[i]
           x == Split(f, n)[1]
           y == Split(f, n)[2]
           m == [n |-> p[i - 1].n + n, time |-> y.time]
           a == SubSeq(queue, 1, i - 1)
           c == SubSeq(queue, i + 1, len)
           at(k) == IF k < i THEN queue[k] ELSE IF k = i THEN x ELSE IF k = i + 1 THEN y ELSE queue[k - 1]
           r == [k \in 0 .. len + 1 |-> IF k < i THEN p[k] ELSE IF k = i THEN m ELSE p[k - 1]]
<1>0. len \in Nat /\ i \in Nat /\ 1 <= i /\ i <= len /\ \A k \in 1 .. len : queue[k] \in QueuedFragment
  OBVIOUS
<1>1. p \in [0 .. len -> Place] BY DEF Path
<1>2. \A k \in 1 .. len : Fits(queue[k], p[k - 1], p[k]) BY DEF Path
<1>3. \A k \in 1 .. len : queue[k].guess => k = len BY DEF Path
<1>4. p[i - 1] \in Place /\ p[i] \in Place BY <1>0, <1>1, SMTT(20)
<1>5. /\ Split(f, n) = <<x, y>>
      /\ x \in QueuedFragment /\ y \in QueuedFragment /\ m \in Place
      /\ ~x.guess /\ ~y.guess
      /\ Fits(x, p[i - 1], m) /\ Fits(y, m, p[i])
      /\ x.start = f.start /\ y.start = f.start + n
      /\ Len(x.samples) = n /\ Len(y.samples) = Len(f.samples) - n
      /\ \A j \in 1 .. n : x.samples[j] = f.samples[j]
      /\ \A j \in 1 .. Len(f.samples) - n : y.samples[j] = f.samples[n + j]
  <2>1. f \in QueuedFragment /\ Fits(f, p[i - 1], p[i]) BY <1>0, <1>2
  <2>2. n \in 1 .. Len(f.samples) - 1 OBVIOUS
  <2> HIDE DEF f
  <2> QED BY <1>4, <2>1, <2>2, SplitParts, SMTT(20)
<1>6. /\ a \in Seq(QueuedFragment) /\ Len(a) = i - 1 /\ \A k \in 1 .. i - 1 : a[k] = queue[k]
  <2>1. i - 1 \in 0 .. Len(queue) BY <1>0
  <2> QED BY <2>1, PathCut
<1>7. /\ c \in Seq(QueuedFragment) /\ Len(c) = len - i /\ \A k \in 1 .. len - i : c[k] = queue[i + k]
  <2>1. i \in 0 .. Len(queue) BY <1>0
  <2> QED BY <2>1, PathCut
<1>8. s = (a \o <<x, y>>) \o c BY <1>5 DEF SplitAt
<1> HIDE DEF len, f, x, y, m, a, c
<1>9. <<x, y>> \in Seq(QueuedFragment) /\ Len(<<x, y>>) = 2 /\ <<x, y>>[1] = x /\ <<x, y>>[2] = y
  BY <1>5
<1> DEFINE b == <<x, y>>
           ab == a \o b
<1> HIDE DEF b
<1>10. /\ ab \in Seq(QueuedFragment) /\ Len(ab) = i + 1
       /\ \A k \in 1 .. i + 1 : ab[k] = IF k <= i - 1 THEN a[k] ELSE b[k - (i - 1)]
  <2>1. b \in Seq(QueuedFragment) /\ Len(b) = 2 BY <1>9 DEF b
  <2>2. /\ ab \in Seq(QueuedFragment) /\ Len(ab) = Len(a) + Len(b)
        /\ \A k \in 1 .. Len(a) + Len(b) : ab[k] = IF k <= Len(a) THEN a[k] ELSE b[k - Len(a)]
    BY <1>6, <2>1, ConcatProperties
  <2> HIDE DEF ab
  <2>3. Len(a) + Len(b) = i + 1 BY <1>0, <1>6, <2>1
  <2> QED BY <1>6, <2>2, <2>3
<1> HIDE DEF ab
<1>11. /\ s \in Seq(QueuedFragment) /\ Len(s) = len + 1
       /\ \A k \in 1 .. len + 1 : s[k] = IF k <= i + 1 THEN ab[k] ELSE c[k - (i + 1)]
  <2>0. s = ab \o c BY <1>8 DEF ab, b
  <2>0a. ab \in Seq(QueuedFragment) /\ c \in Seq(QueuedFragment) BY <1>7, <1>10
  <2>0b. /\ (ab \o c) \in Seq(QueuedFragment) /\ Len(ab \o c) = Len(ab) + Len(c)
         /\ \A k \in 1 .. Len(ab) + Len(c) : (ab \o c)[k] = IF k <= Len(ab) THEN ab[k] ELSE c[k - Len(ab)]
    BY <2>0a, ConcatProperties
  <2>1. /\ s \in Seq(QueuedFragment) /\ Len(s) = Len(ab) + Len(c)
        /\ \A k \in 1 .. Len(ab) + Len(c) : s[k] = IF k <= Len(ab) THEN ab[k] ELSE c[k - Len(ab)]
    BY <2>0, <2>0b, Zenon
  <2>2. Len(ab) + Len(c) = len + 1 BY <1>0, <1>7, <1>10
  <2> QED BY <1>10, <2>1, <2>2
<1>12. ASSUME NEW k \in 1 .. len + 1 PROVE s[k] = at(k)
  <2>1. CASE k < i
    <3>1. k <= i + 1 /\ k \in 1 .. i + 1 /\ k <= i - 1 /\ k \in 1 .. i - 1 BY <1>0, <2>1
    <3> QED BY <1>6, <1>10, <1>11, <2>1, <3>1
  <2>2. CASE k = i
    <3>1. k <= i + 1 /\ k \in 1 .. i + 1 /\ ~(k <= i - 1) /\ k - (i - 1) = 1 /\ ~(k < i) BY <1>0, <2>2
    <3> QED BY <1>9, <1>10, <1>11, <2>2, <3>1 DEF b
  <2>3. CASE k = i + 1
    <3>1. k <= i + 1 /\ k \in 1 .. i + 1 /\ ~(k <= i - 1) /\ k - (i - 1) = 2 /\ ~(k < i) /\ k # i
      BY <1>0, <2>3
    <3> QED BY <1>9, <1>10, <1>11, <2>3, <3>1 DEF b
  <2>4. CASE k > i + 1
    <3>1. ~(k <= i + 1) /\ ~(k < i) /\ k # i /\ k # i + 1 /\ k - (i + 1) \in 1 .. len - i
            /\ i + (k - (i + 1)) = k - 1
      BY <1>0, <2>4
    <3> QED BY <1>7, <1>11, <3>1
  <2>5. k < i \/ k = i \/ k = i + 1 \/ k > i + 1 BY <1>0
  <2> HIDE DEF at, r
  <2> QED BY <2>1, <2>2, <2>3, <2>4, <2>5
<1>13. r \in [0 .. len + 1 -> Place]
  <2>1. ASSUME NEW k \in 0 .. len + 1 PROVE (IF k < i THEN p[k] ELSE IF k = i THEN m ELSE p[k - 1]) \in Place
    <3>1. CASE k < i BY <1>0, <1>1, <3>1
    <3>2. CASE k = i BY <1>5, <3>2
    <3>3. CASE ~(k < i) /\ k # i
      <4>1. k - 1 \in 0 .. len BY <1>0, <3>3
      <4> QED BY <1>1, <3>3, <4>1
    <3> QED BY <3>1, <3>2, <3>3
  <2> QED BY <2>1
<1>14. ASSUME NEW k \in 1 .. len + 1 PROVE Fits(s[k], r[k - 1], r[k]) /\ (s[k].guess => k = len + 1)
  <2>0. k \in 0 .. len + 1 /\ k - 1 \in 0 .. len + 1 BY <1>0
  <2>1. CASE k < i
    <3>1. k \in 1 .. len /\ k - 1 < i /\ k # len BY <1>0, <2>1
    <3>2. s[k] = queue[k] /\ r[k - 1] = p[k - 1] /\ r[k] = p[k] BY <1>12, <2>0, <2>1, <3>1
    <3> QED BY <1>2, <1>3, <3>1, <3>2
  <2>2. CASE k = i
    <3>1. k - 1 < i /\ ~(k < i) BY <1>0, <2>2
    <3>2. s[k] = x /\ r[k - 1] = p[i - 1] /\ r[k] = m BY <1>12, <2>0, <2>2, <3>1
    <3> QED BY <1>5, <3>2
  <2>3. CASE k = i + 1
    <3>1. k - 1 = i /\ ~(k - 1 < i) /\ ~(k < i) /\ k # i BY <1>0, <2>3
    <3>2. s[k] = y BY <1>12, <2>3, <3>1
    <3>3. r[k - 1] = m /\ r[k] = p[i] BY <2>0, <3>1
    <3> QED BY <1>5, <3>2, <3>3
  <2>4. CASE k > i + 1
    <3>1. ~(k - 1 < i) /\ k - 1 # i /\ ~(k < i) /\ k # i /\ k # i + 1 /\ k - 1 \in 1 .. len BY <1>0, <2>4
    <3>2. s[k] = queue[k - 1] BY <1>12, <3>1
    <3>3. r[k - 1] = p[(k - 1) - 1] /\ r[k] = p[k - 1] BY <2>0, <3>1
    <3>4. Fits(queue[k - 1], p[(k - 1) - 1], p[k - 1]) BY <1>2, <3>1
    <3>5. queue[k - 1].guess => k - 1 = len BY <1>3, <3>1
    <3>6. k - 1 = len => k = len + 1 BY <1>0
    <3> QED BY <3>2, <3>3, <3>4, <3>5, <3>6
  <2>5. k < i \/ k = i \/ k = i + 1 \/ k > i + 1 BY <1>0
  <2> HIDE DEF at, r
  <2> QED BY <2>1, <2>2, <2>3, <2>4, <2>5
<1>15. Path(s, r)
  <2> HIDE DEF r, at
  <2> QED BY <1>11, <1>13, <1>14 DEF Path
<1>16. r[0] = p[0] /\ r[len + 1] = p[len]
  <2>1. 0 < i /\ ~(len + 1 < i) /\ len + 1 # i /\ (len + 1) - 1 = len /\ 0 \in 0 .. len + 1
          /\ len + 1 \in 0 .. len + 1
    BY <1>0
  <2> QED BY <2>1
<1>17. ASSUME NEW payload, NEW t, Stored(payload, queue, t) PROVE Stored(payload, s, t)
  <2> SUFFICES ASSUME NEW k \in 1 .. len + 1 PROVE Holds(payload, s[k], t)
    BY <1>11 DEF Stored
  <2>0. \A l \in 1 .. len : Holds(payload, queue[l], t) BY <1>17 DEF Stored, len
  <2>f. Holds(payload, f, t) BY <1>0, <2>0 DEF f
  <2>1. CASE k < i
    <3>1. k \in 1 .. len BY <1>0, <2>1
    <3> QED BY <1>12, <2>0, <2>1, <3>1
  <2>n. /\ n \in Nat /\ n < Len(f.samples) /\ Len(f.samples) \in Nat /\ f.start \in Nat
    <3>1. f \in QueuedFragment BY <1>0 DEF f
    <3>2. Len(f.samples) \in Nat /\ f.start \in Nat BY <3>1 DEF QueuedFragment
    <3>3. n \in 1 .. Len(f.samples) - 1 BY DEF f
    <3> QED BY <3>2, <3>3
  <2>l. f.start + Len(f.samples) <= Len(payload) BY <2>f DEF Holds
  <2>p. \A j \in 1 .. Len(f.samples) : payload[f.start + j] = <<t, f.samples[j].n>> BY <2>f DEF Holds
  <2>2. CASE k = i
    <3>0. ~(k < i) BY <1>0, <2>2
    <3>1. s[k] = x BY <1>12, <2>2, <3>0
    <3>2. x.start + Len(x.samples) <= Len(payload)
      <4> DEFINE lp == Len(payload)
                 lf == Len(f.samples)
      <4>1. f.start + lf <= lp /\ f.start + n < f.start + lf BY <2>n, <2>l
      <4>2. f.start + n <= lp
        <5>1. payload = payload OBVIOUS
        <5> QED BY <2>n, <4>1
      <4> QED BY <1>5, <4>2
    <3>3. ASSUME NEW j \in 1 .. Len(x.samples) PROVE payload[x.start + j] = <<t, x.samples[j].n>>
      <4>1. j \in 1 .. n /\ j \in 1 .. Len(f.samples) BY <1>5, <2>n
      <4> QED BY <1>5, <2>p, <4>1
    <3> QED BY <3>1, <3>2, <3>3 DEF Holds
  <2>3. CASE k = i + 1
    <3>0. ~(k < i) /\ k # i BY <1>0, <2>3
    <3>1. s[k] = y BY <1>12, <2>3, <3>0
    <3>2. y.start + Len(y.samples) = f.start + Len(f.samples) BY <1>5, <2>n
    <3>3. ASSUME NEW j \in 1 .. Len(y.samples) PROVE payload[y.start + j] = <<t, y.samples[j].n>>
      <4>1. j \in 1 .. Len(f.samples) - n /\ n + j \in 1 .. Len(f.samples)
              /\ f.start + (n + j) = (f.start + n) + j BY <1>5, <2>n
      <4> QED BY <1>5, <2>p, <4>1
    <3> QED BY <2>l, <3>1, <3>2, <3>3 DEF Holds
  <2>4. CASE k > i + 1
    <3>1. ~(k < i) /\ k # i /\ k # i + 1 /\ k - 1 \in 1 .. len BY <1>0, <2>4
    <3> QED BY <1>12, <2>0, <3>1
  <2>5. k < i \/ k = i \/ k = i + 1 \/ k > i + 1 BY <1>0
  <2> HIDE DEF at, r
  <2> QED BY <2>1, <2>2, <2>3, <2>4, <2>5
<1> HIDE DEF r, at
<1> QED BY <1>11, <1>15, <1>16, <1>17 DEF len

-----------------------------------------------------------------------------
(* The payload store. *)

Units == Tracks \X Nat
SegmentType == [final : BOOLEAN, video : Seq(Sample), audio : Seq(Sample), media : Seq(Units)]
ReaderType ==
    [video : Seq(QueuedFragment), audio : Seq(QueuedFragment), payload : Seq(Units),
     deferred : Seq(PushedFragment), hint : [Tracks -> Int], completed : Nat, lastEnd : Int,
     failed : BOOLEAN, built : SegmentType]

\* The media of the fragments of a queue are its samples.
LEMMA MediaIs ==
    ASSUME NEW queue \in Seq(QueuedFragment), NEW p, Path(queue, p),
           NEW rd, rd.payload \in Seq(Units), NEW t \in Tracks, Stored(rd.payload, queue, t)
    PROVE  /\ Media(rd, queue) \in Seq(Units)
           /\ Media(rd, queue)
                = [x \in 1 .. Len(SamplesOf(queue)) |-> <<t, SamplesOf(queue)[x].n>>]
<1> DEFINE payload == rd.payload
           part(f) == SubSeq(payload, f.start + 1, f.start + Len(f.samples))
           parts == [i \in 1 .. Len(queue) |-> part(queue[i])]
           c == [i \in 0 .. Len(queue) |-> p[i].n]
           samples == SamplesOf(queue)
           media == FlattenSeq(parts)
<1>0. Len(queue) \in Nat /\ \A i \in 1 .. Len(queue) : queue[i] \in QueuedFragment OBVIOUS
<1>1. Media(rd, queue) = media BY DEF Media
<1>p. payload \in Seq(Units) OBVIOUS
<1> HIDE DEF payload
<1>2. ASSUME NEW i \in 1 .. Len(queue)
      PROVE  /\ part(queue[i]) \in Seq(Units)
             /\ Len(part(queue[i])) = Len(queue[i].samples)
             /\ \A j \in 1 .. Len(queue[i].samples) :
                  part(queue[i])[j] = <<t, queue[i].samples[j].n>>
  <2> DEFINE f == queue[i]
             len == Len(f.samples)
             lp == Len(payload)
  <2>1. f \in QueuedFragment BY <1>0
  <2>2. f.start \in Nat /\ len \in Nat BY <2>1 DEF QueuedFragment
  <2>3. Holds(payload, f, t) BY DEF Stored, payload
  <2>4. lp \in Nat BY <1>p
  <2>5. f.start + len <= lp /\ \A j \in 1 .. len : payload[f.start + j] = <<t, f.samples[j].n>>
    BY <2>3 DEF Holds
  <2>6. \A j \in f.start + 1 .. f.start + len : payload[j] \in Units
    <3>1. \A j \in f.start + 1 .. f.start + len : j \in 1 .. lp
      <4> HIDE DEF len, lp, f
      <4> QED BY <2>2, <2>4, <2>5
    <3> QED BY <1>p, <3>1
  <2> HIDE DEF f, len, lp
  <2> DEFINE a == f.start + 1
             b == f.start + len
             q == SubSeq(payload, a, b)
  <2>7. a \in Int /\ b \in Int BY <2>2
  <2>8. /\ q \in Seq(Units) /\ Len(q) = (IF a <= b THEN b - a + 1 ELSE 0)
        /\ \A j \in 1 .. b - a + 1 : q[j] = payload[a + j - 1]
    BY <2>6, <2>7, SubSeqProperties
  <2> HIDE DEF q
  <2>9. (IF a <= b THEN b - a + 1 ELSE 0) = len /\ b - a + 1 = len BY <2>2
  <2>10. \A j \in 1 .. len : a + j - 1 = f.start + j BY <2>2
  <2>11. q \in Seq(Units) /\ Len(q) = len /\ \A j \in 1 .. len : q[j] = <<t, f.samples[j].n>>
    <3> HIDE DEF a, b
    <3> QED BY <2>5, <2>8, <2>9, <2>10
  <2> QED BY <2>11 DEF q, f, len
<1> HIDE DEF part
<1>3. parts \in Seq(Seq(Units)) /\ Len(parts) = Len(queue) BY <1>0, <1>2
<1>4. \A i \in 0 .. Len(queue) : p[i].n \in Nat BY DEF Path, Place
<1>5. Offsets(c, parts)
  <2>1. c \in [0 .. Len(queue) -> Int] BY <1>4
  <2>2. ASSUME NEW i \in 1 .. Len(queue) PROVE c[i] = c[i - 1] + Len(parts[i])
    <3>1. i \in 0 .. Len(queue) /\ i - 1 \in 0 .. Len(queue) BY <1>0
    <3>2. p[i].n = p[i - 1].n + Len(queue[i].samples) BY DEF Path, Fits
    <3> QED BY <1>2, <3>1, <3>2
  <2> HIDE DEF parts, c
  <2> QED BY <1>3, <2>1, <2>2 DEF Offsets
<1> HIDE DEF parts
<1>6. media \in Seq(Units) /\ InRow(media, parts, c)
  <2> HIDE DEF c
  <2> QED BY <1>3, <1>5, FlattenAt
<1> HIDE DEF media
<1>7. /\ samples \in Seq(Sample)
      /\ Len(samples) = p[Len(queue)].n - p[0].n
      /\ \A x \in 1 .. Len(samples) : samples[x].n = p[0].n + x
  BY PathSamples
<1>8. Len(media) = p[Len(queue)].n - p[0].n
  <2>1. c[Len(parts)] = p[Len(queue)].n /\ c[0] = p[0].n BY <1>0, <1>3
  <2> QED BY <1>6, <2>1 DEF InRow
<1> HIDE DEF samples
<1>9. ASSUME NEW x \in 1 .. Len(media) PROVE media[x] = <<t, samples[x].n>>
  <2>1. PICK i \in 1 .. Len(parts) : \E j \in 1 .. Len(parts[i]) :
          x = (c[i - 1] - c[0]) + j /\ media[x] = parts[i][j]
    BY <1>6 DEF InRow
  <2>2. PICK j \in 1 .. Len(parts[i]) : x = (c[i - 1] - c[0]) + j /\ media[x] = parts[i][j]
    BY <2>1
  <2>3. i \in 1 .. Len(queue) /\ parts[i] = part(queue[i]) BY <1>3 DEF parts
  <2>3a. j \in 1 .. Len(queue[i].samples) BY <1>2, <2>3
  <2>4. queue[i].samples[j].n = p[i - 1].n + j BY <2>3, <2>3a DEF Path, Fits
  <2>5. i - 1 \in 0 .. Len(queue) /\ 0 \in 0 .. Len(queue) BY <1>0, <2>3
  <2>6. c[i - 1] = p[i - 1].n /\ c[0] = p[0].n BY <2>5
  <2>7. p[i - 1].n \in Nat /\ p[0].n \in Nat /\ j \in Int BY <1>4, <2>5
  <2> HIDE DEF c
  <2>8. x = (p[i - 1].n - p[0].n) + j BY <2>2, <2>6
  <2>9. p[i - 1].n + j = p[0].n + x BY <2>7, <2>8, SMTT(20)
  <2>10. samples[x].n = p[0].n + x BY <1>7, <1>8
  <2>11. media[x] = <<t, queue[i].samples[j].n>> BY <1>2, <2>2, <2>3, <2>3a
  <2> QED BY <2>4, <2>9, <2>10, <2>11
<1>10. media = [x \in 1 .. Len(samples) |-> <<t, samples[x].n>>]
  <2>1. Len(media) = Len(samples) BY <1>7, <1>8
  <2>2. media = [x \in 1 .. Len(media) |-> media[x]] BY <1>6
  <2> QED BY <1>9, <2>1, <2>2
<1> QED BY <1>1, <1>6, <1>10 DEF samples

\* The fragments that wait go from one place to another, and their payload is there.
Holding(rd, first, here) ==
    /\ Chain(rd.video, first["video"], here["video"]) /\ Stored(rd.payload, rd.video, "video")
    /\ Chain(rd.audio, first["audio"], here["audio"]) /\ Stored(rd.payload, rd.audio, "audio")

\* A queue after payload before it was dropped.
Moved(queue, d) == [i \in 1 .. Len(queue) |-> [queue[i] EXCEPT !.start = @ - d]]

LEMMA MovedQueue ==
    ASSUME NEW queue \in Seq(QueuedFragment), NEW payload \in Seq(Units), NEW t,
           Stored(payload, queue, t),
           NEW d \in Nat, d <= Len(payload), \A i \in 1 .. Len(queue) : d <= queue[i].start,
           NEW m, m = Moved(queue, d)
    PROVE  /\ m \in Seq(QueuedFragment)
           /\ \A p : Path(queue, p) => Path(m, p)
           /\ SubSeq(payload, d + 1, Len(payload)) \in Seq(Units)
           /\ Stored(SubSeq(payload, d + 1, Len(payload)), m, t)
<1> DEFINE len == Len(queue)
           lp == Len(payload)
           less == SubSeq(payload, d + 1, lp)
<1>0. /\ len \in Nat /\ lp \in Nat /\ d <= lp
      /\ \A i \in 1 .. len : queue[i] \in QueuedFragment /\ Holds(payload, queue[i], t) /\ d <= queue[i].start
  BY DEF Stored
<1>1. /\ less \in Seq(Units)
      /\ Len(less) = lp - d
      /\ \A i \in 1 .. lp - d : less[i] = payload[d + i]
  <2>1. \A i \in d + 1 .. lp : payload[i] \in Units
    <3>1. \A i \in d + 1 .. lp : i \in 1 .. lp BY <1>0
    <3> QED BY <3>1
  <2>2. /\ less \in Seq(Units)
        /\ Len(less) = IF d + 1 <= lp THEN lp - (d + 1) + 1 ELSE 0
        /\ \A i \in 1 .. lp - (d + 1) + 1 : less[i] = payload[d + 1 + i - 1]
    BY <1>0, <2>1, SubSeqProperties
  <2> HIDE DEF less, lp
  <2>3. lp - (d + 1) + 1 = lp - d BY <1>0
  <2>4. \A i \in 1 .. lp - d : d + 1 + i - 1 = d + i BY <1>0
  <2> QED BY <1>0, <2>2, <2>3, <2>4
<1> HIDE DEF less
<1>2. ASSUME NEW i \in 1 .. len
      PROVE  /\ m[i] \in QueuedFragment /\ m[i].samples = queue[i].samples
             /\ m[i].time = queue[i].time /\ m[i].guess = queue[i].guess
             /\ m[i].start = queue[i].start - d
  <2> DEFINE f == queue[i]
             s == f.start - d
             g == m[i]
  <2>1. f \in QueuedFragment /\ s \in Nat BY <1>0 DEF QueuedFragment
  <2>2. g = [f EXCEPT !.start = s] BY DEF Moved
  <2> HIDE DEF f, s, g
  <2>3. g = [samples |-> f.samples, time |-> f.time, guess |-> f.guess, start |-> s]
    BY <2>1, <2>2 DEF QueuedFragment
  <2>4. g \in QueuedFragment BY <2>1, <2>3 DEF QueuedFragment
  <2>5. g.samples = f.samples /\ g.time = f.time /\ g.guess = f.guess /\ g.start = s BY <2>3
  <2> QED BY <2>4, <2>5 DEF f, s, g
<1>3. m \in Seq(QueuedFragment) /\ Len(m) = len
  <2>1. Len(m) = len /\ DOMAIN m = 1 .. len BY <1>0 DEF Moved
  <2>2. m = [i \in 1 .. len |-> m[i]] BY DEF Moved
  <2>3. m \in [1 .. len -> QueuedFragment] BY <1>2, <2>2
  <2> QED BY <1>0, <2>1, <2>3
<1>4. ASSUME NEW p, Path(queue, p) PROVE Path(m, p)
  BY <1>2, <1>3, <1>4, PathLike
<1>5. Stored(less, m, t)
  <2> SUFFICES ASSUME NEW i \in 1 .. len PROVE Holds(less, m[i], t) BY <1>3 DEF Stored
  <2> DEFINE f == queue[i]
             ls == Len(f.samples)
  <2>1. f \in QueuedFragment /\ Holds(payload, f, t) /\ d <= f.start BY <1>0
  <2>2. f.start \in Nat /\ ls \in Nat BY <2>1 DEF QueuedFragment
  <2>3. f.start + ls <= lp /\ \A j \in 1 .. ls : payload[f.start + j] = <<t, f.samples[j].n>>
    BY <2>1 DEF Holds
  <2>4. m[i].samples = f.samples /\ m[i].start = f.start - d BY <1>2
  <2> HIDE DEF f, ls, lp, len
  <2>5. (f.start - d) + ls <= lp - d BY <1>0, <2>1, <2>2, <2>3
  <2>6. ASSUME NEW j \in 1 .. ls PROVE less[(f.start - d) + j] = <<t, f.samples[j].n>>
    <3> DEFINE st == f.start
    <3>0. st \in Nat /\ ls \in Nat /\ lp \in Nat /\ d <= st /\ st + ls <= lp BY <1>0, <2>1, <2>2, <2>3
    <3> HIDE DEF st
    <3>1. (st - d) + j \in 1 .. lp - d /\ d + ((st - d) + j) = st + j
      BY <3>0
    <3> USE DEF st
    <3> QED BY <1>1, <2>3, <3>1
  <2> QED BY <1>1, <2>4, <2>5, <2>6 DEF Holds, ls
<1> QED BY <1>1, <1>3, <1>4, <1>5 DEF less

\* reclaim_payloads keeps what is needed.
LEMMA ReclaimedKeeps ==
    ASSUME NEW rd \in ReaderType, NEW first, NEW here, Holding(rd, first, here)
    PROVE  LET r == Reclaimed(rd)
           IN  /\ r \in ReaderType /\ Holding(r, first, here)
               /\ r.deferred = rd.deferred /\ r.built = rd.built /\ r.failed = rd.failed
<1> DEFINE r == Reclaimed(rd)
           starts == {rd.video[i].start : i \in 1 .. Len(rd.video)}
                       \cup {rd.audio[i].start : i \in 1 .. Len(rd.audio)}
           d == Min(starts)
           v == Moved(rd.video, d)
           a == Moved(rd.audio, d)
           less == SubSeq(rd.payload, d + 1, Len(rd.payload))
<1>0. rd.video \in Seq(QueuedFragment) /\ rd.audio \in Seq(QueuedFragment) /\ rd.payload \in Seq(Units)
  BY DEF ReaderType
<1>0a. \A f \in QueuedFragment : f.start \in Nat /\ Len(f.samples) \in Nat BY DEF QueuedFragment
<1>0b. /\ \A i \in 1 .. Len(rd.video) : rd.video[i] \in QueuedFragment
       /\ \A i \in 1 .. Len(rd.audio) : rd.audio[i] \in QueuedFragment
  BY <1>0
<1>1. CASE starts = {}
  <2>1. r = [rd EXCEPT !.payload = <<>>] BY <1>1 DEF Reclaimed
  <2>2. <<>> \in Seq(Units) OBVIOUS
  <2> HIDE DEF r
  <2>3. r \in ReaderType BY <2>1, <2>2 DEF ReaderType
  <2>4. /\ r.video = rd.video /\ r.audio = rd.audio
        /\ r.deferred = rd.deferred /\ r.built = rd.built /\ r.failed = rd.failed
    BY <2>1 DEF ReaderType
  <2>5. Len(rd.video) = 0 /\ Len(rd.audio) = 0
    <3>1. Len(rd.video) \in Nat /\ Len(rd.audio) \in Nat BY <1>0
    <3>2. 1 .. Len(rd.video) = {} /\ 1 .. Len(rd.audio) = {} BY <1>1
    <3> QED BY <3>1, <3>2
  <2>6. Holding(r, first, here) BY <2>4, <2>5 DEF Holding, Stored
  <2> QED BY <2>3, <2>4, <2>6 DEF r
<1>2. CASE starts # {}
  <2>1. r = [rd EXCEPT !.payload = less, !.video = v, !.audio = a] BY <1>2 DEF Reclaimed, Moved
  <2>2. starts \subseteq Nat
    <3>1. \A i \in 1 .. Len(rd.video) : rd.video[i].start \in Nat BY <1>0a, <1>0b
    <3>2. \A i \in 1 .. Len(rd.audio) : rd.audio[i].start \in Nat BY <1>0a, <1>0b
    <3> QED BY <3>1, <3>2
  <2>3. d \in starts /\ \A n \in starts : d <= n
    <3> HIDE DEF starts
    <3>1. \E n \in starts : \A m \in starts : n <= m BY <1>2, <2>2, Least
    <3> QED BY <3>1 DEF Min
  <2> HIDE DEF d
  <2>4. d \in Nat BY <2>2, <2>3
  <2>5. /\ \A i \in 1 .. Len(rd.video) : d <= rd.video[i].start
        /\ \A i \in 1 .. Len(rd.audio) : d <= rd.audio[i].start
    BY <2>3
  <2>6. d <= Len(rd.payload)
    <3>0. Len(rd.payload) \in Nat BY <1>0
    <3>1. ASSUME NEW i \in 1 .. Len(rd.video), d = rd.video[i].start PROVE d <= Len(rd.payload)
      <4>1. Holds(rd.payload, rd.video[i], "video") BY DEF Holding, Stored
      <4>2. Len(rd.video[i].samples) \in Nat BY <1>0a, <1>0b
      <4> QED BY <2>4, <3>0, <3>1, <4>1, <4>2 DEF Holds
    <3>2. ASSUME NEW i \in 1 .. Len(rd.audio), d = rd.audio[i].start PROVE d <= Len(rd.payload)
      <4>1. Holds(rd.payload, rd.audio[i], "audio") BY DEF Holding, Stored
      <4>2. Len(rd.audio[i].samples) \in Nat BY <1>0a, <1>0b
      <4> QED BY <2>4, <3>0, <3>2, <4>1, <4>2 DEF Holds
    <3> QED BY <2>3, <3>1, <3>2
  <2>7. v \in Seq(QueuedFragment) /\ (\A p : Path(rd.video, p) => Path(v, p))
          /\ less \in Seq(Units) /\ Stored(less, v, "video")
    <3>1. Stored(rd.payload, rd.video, "video") BY DEF Holding
    <3> QED BY <1>0, <2>4, <2>5, <2>6, <3>1, MovedQueue
  <2>8. a \in Seq(QueuedFragment) /\ (\A p : Path(rd.audio, p) => Path(a, p))
          /\ Stored(less, a, "audio")
    <3>1. Stored(rd.payload, rd.audio, "audio") BY DEF Holding
    <3> QED BY <1>0, <2>4, <2>5, <2>6, <3>1, MovedQueue
  <2>8a. Len(v) = Len(rd.video) /\ Len(a) = Len(rd.audio) BY <1>0 DEF Moved
  <2> HIDE DEF r, v, a, less
  <2>9. r \in ReaderType BY <2>1, <2>7, <2>8 DEF ReaderType
  <2>10. /\ r.video = v /\ r.audio = a /\ r.payload = less
         /\ r.deferred = rd.deferred /\ r.built = rd.built /\ r.failed = rd.failed
    BY <2>1 DEF ReaderType
  <2>11. Chain(v, first["video"], here["video"])
    <3>1. PICK p : Path(rd.video, p) /\ p[0] = first["video"] /\ p[Len(rd.video)] = here["video"]
      BY DEF Holding, Chain
    <3> QED BY <2>7, <2>8a, <3>1 DEF Chain
  <2>12. Chain(a, first["audio"], here["audio"])
    <3>1. PICK p : Path(rd.audio, p) /\ p[0] = first["audio"] /\ p[Len(rd.audio)] = here["audio"]
      BY DEF Holding, Chain
    <3> QED BY <2>8, <2>8a, <3>1 DEF Chain
  <2> QED BY <2>7, <2>8, <2>9, <2>10, <2>11, <2>12 DEF Holding, r
<1> QED BY <1>1, <1>2

-----------------------------------------------------------------------------
(* A segment. *)

\* The media of a segment are the samples it lists.
Listed(segment) ==
    segment.media = [i \in 1 .. Len(segment.video) |-> <<"video", segment.video[i].n>>]
                      \o [i \in 1 .. Len(segment.audio) |-> <<"audio", segment.audio[i].n>>]

LEMMA NothingListed == NoSegment \in SegmentType /\ Listed(NoSegment)
<1>1. <<>> \in Seq(Sample) /\ <<>> \in Seq(Units) OBVIOUS
<1>2. NoSegment \in SegmentType BY <1>1 DEF NoSegment, SegmentType
<1>3. NoSegment.media = <<>> /\ NoSegment.video = <<>> /\ NoSegment.audio = <<>> BY DEF NoSegment
<1>4. Len(<<>>) = 0 OBVIOUS
<1>5. [i \in 1 .. 0 |-> <<"video", <<>>[i].n>>] = <<>> OBVIOUS
<1>6. [i \in 1 .. 0 |-> <<"audio", <<>>[i].n>>] = <<>> OBVIOUS
<1>7. <<>> \o <<>> = <<>> OBVIOUS
<1> QED BY <1>2, <1>3, <1>4, <1>5, <1>6, <1>7 DEF Listed

\* The first fragments of a queue become a part of a segment.
LEMMA QueueTaken ==
    ASSUME NEW rd, rd.payload \in Seq(Units), NEW queue \in Seq(QueuedFragment),
           NEW t \in Tracks, Stored(rd.payload, queue, t), NEW x, NEW y, Chain(queue, x, y),
           NEW v \in 0 .. Len(queue)
    PROVE  LET part == SubSeq(queue, 1, v)
               rest == SubSeq(queue, v + 1, Len(queue))
           IN  /\ Mergeable(part) /\ rest \in Seq(QueuedFragment)
               /\ SamplesOf(part) \in Seq(Sample) /\ Media(rd, part) \in Seq(Units)
               /\ Media(rd, part) = [i \in 1 .. Len(SamplesOf(part)) |-> <<t, SamplesOf(part)[i].n>>]
               /\ Stored(rd.payload, rest, t)
               /\ \E z \in Place : Chain(rest, z, y) /\ z.n = x.n + Len(SamplesOf(part))
               /\ v > 0 => EndTime(part[v]) \in Int
<1> DEFINE part == SubSeq(queue, 1, v)
           rest == SubSeq(queue, v + 1, Len(queue))
<1>0. Len(queue) \in Nat /\ v \in Nat /\ v <= Len(queue) /\ 0 \in 0 .. Len(queue)
        /\ Len(queue) \in 0 .. Len(queue) OBVIOUS
<1>1. PICK p : Path(queue, p) /\ p[0] = x /\ p[Len(queue)] = y BY DEF Chain
<1> DEFINE pa == [i \in 0 .. v |-> p[i]]
           pb == [i \in 0 .. Len(queue) - v |-> p[v + i]]
<1>2. /\ part \in Seq(QueuedFragment) /\ rest \in Seq(QueuedFragment)
      /\ Len(part) = v /\ Len(rest) = Len(queue) - v
      /\ \A i \in 1 .. v : part[i] = queue[i]
      /\ \A i \in 1 .. Len(queue) - v : rest[i] = queue[v + i]
      /\ Path(part, pa) /\ Path(rest, pb) /\ p[v] \in Place
  BY <1>1, PathCut
<1> HIDE DEF part, rest
<1>3. Mergeable(part)
  <2> HIDE DEF pa
  <2> QED BY <1>2, PathMergeable
<1>4. /\ SamplesOf(part) \in Seq(Sample)
      /\ Len(SamplesOf(part)) = pa[v].n - pa[0].n
  <2> HIDE DEF pa
  <2> QED BY <1>2, PathSamples
<1>5. Stored(rd.payload, part, t)
  <2>1. \A i \in 1 .. v : i \in 1 .. Len(queue) BY <1>0
  <2>2. \A i \in 1 .. Len(part) : \E k \in 1 .. Len(queue) : part[i] = queue[k] BY <1>2, <2>1
  <2> QED BY <2>2, StoredPart
<1>6. Stored(rd.payload, rest, t)
  <2>1. \A i \in 1 .. Len(queue) - v : v + i \in 1 .. Len(queue) BY <1>0
  <2>2. \A i \in 1 .. Len(rest) : \E k \in 1 .. Len(queue) : rest[i] = queue[k] BY <1>2, <2>1
  <2> QED BY <2>2, StoredPart
<1>7. /\ Media(rd, part) \in Seq(Units)
      /\ Media(rd, part) = [i \in 1 .. Len(SamplesOf(part)) |-> <<t, SamplesOf(part)[i].n>>]
  <2> HIDE DEF pa
  <2> QED BY <1>2, <1>5, MediaIs
<1>8. pa[v] = p[v] /\ pa[0] = x BY <1>0, <1>1
<1>9. pb[0] = p[v] /\ pb[Len(rest)] = y
  <2>1. 0 \in 0 .. Len(queue) - v /\ Len(queue) - v \in 0 .. Len(queue) - v
          /\ v + 0 = v /\ v + (Len(queue) - v) = Len(queue) BY <1>0
  <2> QED BY <1>1, <1>2, <2>1
<1>10. Chain(rest, p[v], y)
  <2> HIDE DEF pb
  <2> QED BY <1>2, <1>9 DEF Chain
<1>11. p[v].n = x.n + Len(SamplesOf(part))
  <2>1. p[v].n \in Nat BY <1>2 DEF Place
  <2>2. x \in Place BY <1>0, <1>1 DEF Path
  <2>3. x.n \in Nat BY <2>2 DEF Place
  <2> QED BY <1>4, <1>8, <2>1, <2>3
<1>12. v > 0 => EndTime(part[v]) \in Int
  <2>1. v > 0 => v \in 1 .. Len(part) BY <1>0, <1>2
  <2>2. v > 0 => part[v] \in QueuedFragment BY <1>2, <2>1
  <2> QED BY <2>2, EndTimeInt
<1> QED BY <1>2, <1>3, <1>4, <1>6, <1>7, <1>10, <1>11, <1>12 DEF part, rest

\* What of a film was cut, and what waits: the segment that was built begins where
\* those before it ended, and what is queued goes on from it.
Cut(rd, from, here) ==
    /\ rd \in ReaderType /\ Listed(rd.built)
    /\ \E first \in [Tracks -> Place] :
         /\ Holding(rd, first, here)
         /\ \A t \in Tracks : first[t].n = from[t] + Len(rd.built[t])

\* build_segment takes them from both tracks.
LEMMA BuildKeeps ==
    ASSUME NEW rd \in ReaderType, NEW first, NEW here, Holding(rd, first, here),
           NEW v \in 0 .. Len(rd.video), NEW a \in 0 .. Len(rd.audio), NEW final \in BOOLEAN,
           NEW r, r = BuildSegment(rd, v, a, final)
    PROVE  /\ Cut(r, [t \in Tracks |-> first[t].n], here)
           /\ r.deferred = rd.deferred /\ r.failed = rd.failed
<1> DEFINE video == SubSeq(rd.video, 1, v)
           audio == SubSeq(rd.audio, 1, a)
           vs == SamplesOf(video)
           as == SamplesOf(audio)
           vm == Media(rd, video)
           am == Media(rd, audio)
           vrest == SubSeq(rd.video, v + 1, Len(rd.video))
           arest == SubSeq(rd.audio, a + 1, Len(rd.audio))
           built == [final |-> final, video |-> vs, audio |-> as, media |-> vm \o am]
           end == IF v > 0 THEN EndTime(video[v]) ELSE rd.lastEnd
           count == IF v > 0 THEN rd.completed + 1 ELSE rd.completed
           m == [rd EXCEPT !.built = built, !.lastEnd = end, !.completed = count,
                           !.video = vrest, !.audio = arest]
<1>0. rd.video \in Seq(QueuedFragment) /\ rd.audio \in Seq(QueuedFragment) /\ rd.payload \in Seq(Units)
  BY DEF ReaderType
<1>0a. rd.lastEnd \in Int /\ rd.completed \in Nat BY DEF ReaderType
<1>1. /\ Mergeable(video) /\ vrest \in Seq(QueuedFragment)
      /\ vs \in Seq(Sample) /\ vm \in Seq(Units)
      /\ vm = [i \in 1 .. Len(vs) |-> <<"video", vs[i].n>>]
      /\ Stored(rd.payload, vrest, "video")
      /\ \E z \in Place : Chain(vrest, z, here["video"]) /\ z.n = first["video"].n + Len(vs)
      /\ v > 0 => EndTime(video[v]) \in Int
  <2>1. "video" \in Tracks BY DEF Tracks
  <2> QED BY <1>0, <2>1, QueueTaken DEF Holding
<1>2. /\ Mergeable(audio) /\ arest \in Seq(QueuedFragment)
      /\ as \in Seq(Sample) /\ am \in Seq(Units)
      /\ am = [i \in 1 .. Len(as) |-> <<"audio", as[i].n>>]
      /\ Stored(rd.payload, arest, "audio")
      /\ \E z \in Place : Chain(arest, z, here["audio"]) /\ z.n = first["audio"].n + Len(as)
      /\ a > 0 => EndTime(audio[a]) \in Int
  <2>1. "audio" \in Tracks BY DEF Tracks
  <2> QED BY <1>0, <2>1, QueueTaken DEF Holding
<1>3. r = Reclaimed(m) BY <1>1, <1>2 DEF BuildSegment
<1>4. end \in Int /\ count \in Nat BY <1>0a, <1>1
<1> HIDE DEF video, audio, vs, as, vm, am, vrest, arest, end, count
<1>5. built \in SegmentType
  <2>1. (vm \o am) \in Seq(Units) BY <1>1, <1>2, ConcatProperties
  <2> QED BY <1>1, <1>2, <2>1 DEF SegmentType
<1>6. Listed(built) BY <1>1, <1>2 DEF Listed
<1>7. Len(built["video"]) = Len(vs) /\ Len(built["audio"]) = Len(as) OBVIOUS
<1>8. m = [rd EXCEPT !.built = built, !.lastEnd = end, !.completed = count,
                     !.video = vrest, !.audio = arest] OBVIOUS
<1> HIDE DEF built, m
<1>9. m \in ReaderType BY <1>1, <1>2, <1>4, <1>5, <1>8 DEF ReaderType
<1>10. /\ m.video = vrest /\ m.audio = arest /\ m.payload = rd.payload /\ m.built = built
       /\ m.deferred = rd.deferred /\ m.failed = rd.failed
  BY <1>8 DEF ReaderType
<1>11. PICK x \in Place : Chain(vrest, x, here["video"]) /\ x.n = first["video"].n + Len(vs) BY <1>1
<1>12. PICK y \in Place : Chain(arest, y, here["audio"]) /\ y.n = first["audio"].n + Len(as) BY <1>2
<1> DEFINE next == [t \in Tracks |-> IF t = "video" THEN x ELSE y]
<1>13. next \in [Tracks -> Place] /\ next["video"] = x /\ next["audio"] = y BY DEF Tracks
<1> HIDE DEF next
<1>14. Holding(m, next, here) BY <1>1, <1>2, <1>10, <1>11, <1>12, <1>13 DEF Holding
<1>15. /\ r \in ReaderType /\ Holding(r, next, here)
       /\ r.deferred = m.deferred /\ r.built = m.built /\ r.failed = m.failed
  BY <1>3, <1>9, <1>14, ReclaimedKeeps
<1> DEFINE from == [t \in Tracks |-> first[t].n]
<1>16. \A t \in Tracks : next[t].n = from[t] + Len(r.built[t])
  <2>1. next["video"].n = first["video"].n + Len(r.built["video"]) BY <1>7, <1>10, <1>11, <1>13, <1>15
  <2>2. next["audio"].n = first["audio"].n + Len(r.built["audio"]) BY <1>7, <1>10, <1>12, <1>13, <1>15
  <2>3. from["video"] = first["video"].n /\ from["audio"] = first["audio"].n BY DEF Tracks
  <2> HIDE DEF from
  <2> QED BY <2>1, <2>2, <2>3 DEF Tracks
<1>17. Listed(r.built) BY <1>6, <1>10, <1>15
<1> HIDE DEF from
<1>18. Cut(r, from, here) BY <1>13, <1>15, <1>16, <1>17 DEF Cut
<1> QED BY <1>10, <1>15, <1>18 DEF from

LEMMA MinIs ==
    ASSUME NEW S \in SUBSET Nat, S # {}
    PROVE  Min(S) \in S /\ \A n \in S : Min(S) <= n
<1>1. \E n \in S : \A m \in S : n <= m BY Least
<1> QED BY <1>1 DEF Min

LEMMA MaxIs ==
    ASSUME NEW n \in Nat, NEW S \in SUBSET (0 .. n), S # {}
    PROVE  Max(S) \in S
<1> DEFINE T == {n - i : i \in S}
<1>1. T \in SUBSET Nat /\ T # {}
  <2>1. \A i \in S : n - i \in Nat OBVIOUS
  <2>2. PICK i \in S : TRUE OBVIOUS
  <2>3. n - i \in T OBVIOUS
  <2> QED BY <2>1, <2>3
<1> HIDE DEF T
<1>2. PICK m \in T : \A k \in T : m <= k BY <1>1, Least
<1>3. PICK x \in S : m = n - x BY <1>2 DEF T
<1>4. \A y \in S : x >= y
  <2> SUFFICES ASSUME NEW y \in S PROVE x >= y OBVIOUS
  <2>1. n - y \in T BY DEF T
  <2>2. n - x <= n - y BY <1>2, <1>3, <2>1
  <2>3. x \in Int /\ y \in Int OBVIOUS
  <2> QED BY <2>2, <2>3
<1>5. \E z \in S : \A y \in S : z >= y BY <1>4
<1> QED BY <1>5 DEF Max

\* select_video_count takes some of the fragments.
LEMMA SelectVideoIs ==
    ASSUME NEW rd \in ReaderType
    PROVE  SelectVideo(rd) \in 0 .. Len(rd.video)
<1> DEFINE length(i) == EndTime(rd.video[i]) - rd.video[1].time
           boundaries == {i \in 1 .. Len(rd.video) - 1 : rd.video[i + 1].samples[1].sync}
           long == {i \in boundaries : length(i) >= Seconds}
           short == {i \in boundaries : length(i) <= Seconds}
           overrun == \E i \in 1 .. Len(rd.video) - 1 : length(i) > Seconds
           c == CHOOSE i \in boundaries : length(i) = Seconds
<1>0. Len(rd.video) \in Nat
  <2>1. rd.video \in Seq(QueuedFragment) BY DEF ReaderType
  <2> QED BY <2>1
<1>1. SelectVideo(rd) = IF ~CatchingUp(rd) THEN IF long = {} THEN 0 ELSE Min(long)
                        ELSE IF \E i \in boundaries : length(i) = Seconds THEN c
                        ELSE IF ~overrun THEN 0
                        ELSE IF short # {} THEN Max(short)
                        ELSE IF long # {} THEN Min(long) ELSE 0
  BY DEF SelectVideo
<1>2. (\E i \in boundaries : length(i) = Seconds) => c \in boundaries OBVIOUS
<1>3. boundaries \subseteq 0 .. Len(rd.video) /\ boundaries \subseteq Nat BY <1>0
<1>4. long \subseteq boundaries /\ short \subseteq boundaries OBVIOUS
<1> HIDE DEF length, boundaries, long, short, overrun, c
<1>5. long # {} => Min(long) \in long BY <1>3, <1>4, MinIs
<1>6. short # {} => Max(short) \in short BY <1>0, <1>3, <1>4, MaxIs
<1>7. 0 \in 0 .. Len(rd.video) BY <1>0
<1> QED BY <1>1, <1>2, <1>3, <1>4, <1>5, <1>6, <1>7

\* select_audio_count takes some of them, and may split the last one.
LEMMA SelectAudioIs ==
    ASSUME NEW rd \in ReaderType, NEW end, NEW chosen, chosen = SelectAudio(rd, end)
    PROVE  \/ chosen = [audio |-> rd.audio, count |-> 0]
           \/ \E i \in 1 .. Len(rd.audio) :
                \/ chosen = [audio |-> rd.audio, count |-> i]
                \/ \E n \in 1 .. Len(rd.audio[i].samples) - 1 :
                     chosen = [audio |-> SplitAt(rd.audio, i, n), count |-> i]
<1> DEFINE cuts == AudioCut(rd, end)
           firsts == {c[1] : c \in cuts}
           i == Min(firsts)
           d == CHOOSE c \in cuts : c[1] = i
           n == d[2]
<1>0. rd.audio \in Seq(QueuedFragment) /\ Len(rd.audio) \in Nat
  <2>1. rd.audio \in Seq(QueuedFragment) BY DEF ReaderType
  <2> QED BY <2>1
<1>1. CASE cuts = {} BY <1>1 DEF SelectAudio
<1>2. CASE cuts # {}
  <2>1. ASSUME NEW c \in cuts PROVE c[1] \in 1 .. Len(rd.audio) /\ c[2] \in 1 .. Len(rd.audio[c[1]].samples)
    BY DEF AudioCut
  <2>2. chosen = [audio |-> IF n = Len(rd.audio[i].samples) THEN rd.audio
                            ELSE SplitAt(rd.audio, i, n),
                  count |-> i]
    BY <1>2 DEF SelectAudio, SplitAt
  <2> HIDE DEF cuts
  <2>3. firsts \in SUBSET Nat /\ firsts # {} BY <1>0, <1>2, <2>1
  <2>4. i \in firsts
    <3> HIDE DEF firsts
    <3> QED BY <2>3, MinIs
  <2> HIDE DEF i
  <2>5. \E c \in cuts : c[1] = i BY <2>4
  <2>6. d \in cuts /\ d[1] = i BY <2>5
  <2> HIDE DEF d
  <2>7. i \in 1 .. Len(rd.audio) /\ n \in 1 .. Len(rd.audio[i].samples) BY <2>1, <2>6
  <2> HIDE DEF n, firsts
  <2>8. CASE n = Len(rd.audio[i].samples) BY <2>2, <2>7, <2>8
  <2>9. CASE n # Len(rd.audio[i].samples)
    <3>1. Len(rd.audio[i].samples) \in Nat
      <4>1. rd.audio[i] \in QueuedFragment BY <1>0, <2>7
      <4> QED BY <4>1, EndTimeInt
    <3>2. n \in 1 .. Len(rd.audio[i].samples) - 1
      <4> DEFINE len == Len(rd.audio[i].samples)
      <4>1. len \in Nat /\ n \in 1 .. len /\ n # len BY <2>7, <2>9, <3>1
      <4> HIDE DEF len
      <4>2. n \in 1 .. len - 1 BY <4>1
      <4> QED BY <4>2 DEF len
    <3> QED BY <2>2, <2>7, <2>9, <3>2
  <2> QED BY <2>8, <2>9
<1> QED BY <1>1, <1>2

LEMMA SelectAudioKeeps ==
    ASSUME NEW rd \in ReaderType, NEW first, NEW here, Holding(rd, first, here),
           NEW end, NEW chosen, chosen = SelectAudio(rd, end),
           NEW m, m = [rd EXCEPT !.audio = chosen.audio]
    PROVE  /\ m \in ReaderType /\ Holding(m, first, here)
           /\ chosen.count \in 0 .. Len(m.audio) /\ m.audio = chosen.audio
           /\ m.video = rd.video /\ m.deferred = rd.deferred /\ m.built = rd.built
           /\ m.failed = rd.failed
<1>0. rd.audio \in Seq(QueuedFragment) /\ Len(rd.audio) \in Nat
  <2>1. rd.audio \in Seq(QueuedFragment) BY DEF ReaderType
  <2> QED BY <2>1
<1>1. PICK p : Path(rd.audio, p) /\ p[0] = first["audio"] /\ p[Len(rd.audio)] = here["audio"]
  BY DEF Holding, Chain
<1>2. Stored(rd.payload, rd.audio, "audio") BY DEF Holding
<1>3. /\ chosen.audio \in Seq(QueuedFragment) /\ chosen.count \in 0 .. Len(chosen.audio)
      /\ Chain(chosen.audio, first["audio"], here["audio"])
      /\ Stored(rd.payload, chosen.audio, "audio")
  <2>1. CASE chosen = [audio |-> rd.audio, count |-> 0]
    BY <1>0, <1>2, <2>1 DEF Holding
  <2>2. ASSUME NEW i \in 1 .. Len(rd.audio), chosen = [audio |-> rd.audio, count |-> i]
        PROVE  /\ chosen.audio \in Seq(QueuedFragment) /\ chosen.count \in 0 .. Len(chosen.audio)
               /\ Chain(chosen.audio, first["audio"], here["audio"])
               /\ Stored(rd.payload, chosen.audio, "audio")
    <3>1. i \in 0 .. Len(rd.audio) BY <1>0
    <3> QED BY <1>0, <1>2, <2>2, <3>1 DEF Holding
  <2>3. ASSUME NEW i \in 1 .. Len(rd.audio), NEW n \in 1 .. Len(rd.audio[i].samples) - 1,
               NEW s, s = SplitAt(rd.audio, i, n),
               chosen = [audio |-> s, count |-> i]
        PROVE  /\ chosen.audio \in Seq(QueuedFragment) /\ chosen.count \in 0 .. Len(chosen.audio)
               /\ Chain(chosen.audio, first["audio"], here["audio"])
               /\ Stored(rd.payload, chosen.audio, "audio")
    <3>0. s = SplitAt(rd.audio, i, n) BY <2>3
    <3>1. /\ s \in Seq(QueuedFragment) /\ Len(s) = Len(rd.audio) + 1
          /\ \E r : Path(s, r) /\ r[0] = p[0] /\ r[Len(s)] = p[Len(rd.audio)]
          /\ \A payload, t : Stored(payload, rd.audio, t) => Stored(payload, s, t)
      BY <1>0, <1>1, <3>0, PathSplit
    <3>2. chosen.audio = s /\ chosen.count = i BY <2>3
    <3>3. i \in 0 .. Len(s) BY <1>0, <3>1
    <3>4. Chain(s, first["audio"], here["audio"]) BY <1>1, <3>1 DEF Chain
    <3>5. Stored(rd.payload, s, "audio") BY <1>2, <3>1
    <3> QED BY <3>1, <3>2, <3>3, <3>4, <3>5
  <2> QED BY <2>1, <2>2, <2>3, SelectAudioIs
<1>4. m \in ReaderType BY <1>3 DEF ReaderType
<1>5. /\ m.audio = chosen.audio /\ m.payload = rd.payload
      /\ m.video = rd.video /\ m.deferred = rd.deferred /\ m.built = rd.built /\ m.failed = rd.failed
  BY DEF ReaderType
<1>6. Holding(m, first, here) BY <1>3, <1>5 DEF Holding
<1> QED BY <1>3, <1>4, <1>5, <1>6

\* try_build_segment.
LEMMA TryBuildKeeps ==
    ASSUME NEW rd, NEW from \in [Tracks -> Nat], NEW here, Cut(rd, from, here), rd.built = NoSegment
    PROVE  LET r == TryBuild(rd) IN Cut(r, from, here) /\ r.deferred = rd.deferred
<1> DEFINE r == TryBuild(rd)
           v == SelectVideo(rd)
           chosen == SelectAudio(rd, EndTime(rd.video[v]))
           m == [rd EXCEPT !.audio = chosen.audio]
<1>0. rd \in ReaderType /\ Listed(rd.built) BY DEF Cut
<1>1. PICK first \in [Tracks -> Place] :
        Holding(rd, first, here) /\ \A t \in Tracks : first[t].n = from[t] + Len(rd.built[t])
  BY DEF Cut
<1>2. Len(rd.built["video"]) = 0 /\ Len(rd.built["audio"]) = 0 BY DEF NoSegment
<1>f. from["video"] \in Nat /\ from["audio"] \in Nat BY DEF Tracks
<1>3. v \in 0 .. Len(rd.video) BY <1>0, SelectVideoIs
<1> HIDE DEF v, r
\* A failure changes nothing else.
<1>4. ASSUME r = [rd EXCEPT !.failed = TRUE] PROVE Cut(r, from, here) /\ r.deferred = rd.deferred
  <2>1. r \in ReaderType BY <1>0, <1>4 DEF ReaderType
  <2>2. /\ r.video = rd.video /\ r.audio = rd.audio /\ r.payload = rd.payload
        /\ r.deferred = rd.deferred /\ r.built = rd.built
    BY <1>0, <1>4 DEF ReaderType
  <2>3. Holding(r, first, here) BY <1>1, <2>2 DEF Holding
  <2> QED BY <1>0, <1>1, <2>1, <2>2, <2>3 DEF Cut
\* A segment is built of a reader with the same queues, or with audio split.
<1>5. ASSUME NEW b \in ReaderType, Holding(b, first, here), b.deferred = rd.deferred,
             NEW a \in 0 .. Len(b.audio), v \in 0 .. Len(b.video), r = BuildSegment(b, v, a, FALSE)
      PROVE  Cut(r, from, here) /\ r.deferred = rd.deferred
  <2>1. FALSE \in BOOLEAN OBVIOUS
  <2> DEFINE begin == [t \in Tracks |-> first[t].n]
  <2>2. Cut(r, begin, here) /\ r.deferred = b.deferred BY <1>5, <2>1, BuildKeeps, ZenonT(40)
  <2>3. begin["video"] = from["video"] /\ begin["audio"] = from["audio"]
    <3>1. "video" \in Tracks /\ "audio" \in Tracks BY DEF Tracks
    <3>2. first["video"] \in Place /\ first["audio"] \in Place BY <3>1
    <3>3. first["video"].n \in Nat /\ first["audio"].n \in Nat BY <3>2 DEF Place
    <3>4. first["video"].n = from["video"] + 0 /\ first["audio"].n = from["audio"] + 0
      BY <1>1, <1>2, <3>1
    <3>5. begin["video"] = first["video"].n /\ begin["audio"] = first["audio"].n BY <3>1
    <3> HIDE DEF begin
    <3> QED BY <1>f, <3>3, <3>4, <3>5
  <2> HIDE DEF begin
  <2>4. PICK next \in [Tracks -> Place] :
          Holding(r, next, here) /\ \A t \in Tracks : next[t].n = begin[t] + Len(r.built[t])
    BY <2>2 DEF Cut
  <2>5. \A t \in Tracks : next[t].n = from[t] + Len(r.built[t]) BY <2>3, <2>4 DEF Tracks
  <2>6. r \in ReaderType /\ Listed(r.built) BY <2>2 DEF Cut
  <2> QED BY <1>5, <2>2, <2>4, <2>5, <2>6 DEF Cut
<1>6. CASE rd.video # <<>> /\ ~rd.video[1].samples[1].sync
  <2>1. r = [rd EXCEPT !.failed = TRUE] BY <1>6 DEF TryBuild, r
  <2> QED BY <1>4, <2>1 DEF r
<1>7. CASE ~(rd.video # <<>> /\ ~rd.video[1].samples[1].sync)
  <2>1. CASE v = 0
    <3>1. r = rd BY <1>7, <2>1 DEF TryBuild, r, v
    <3> QED BY <3>1 DEF r
  <2>2. CASE v # 0 /\ Silent
    <3>1. r = BuildSegment(rd, v, 0, FALSE) BY <1>7, <2>2 DEF TryBuild, r, v
    <3>2. 0 \in 0 .. Len(rd.audio)
      <4>1. rd.audio \in Seq(QueuedFragment) BY <1>0 DEF ReaderType
      <4>2. Len(rd.audio) \in Nat BY <4>1
      <4> QED BY <4>2
    <3> QED BY <1>0, <1>1, <1>3, <1>5, <3>1, <3>2 DEF r
  <2>3. CASE v # 0 /\ ~Silent
    <3>1. r = IF chosen.count = 0 THEN rd ELSE BuildSegment(m, v, chosen.count, FALSE)
      BY <1>7, <2>3 DEF TryBuild, r, v
    <3> HIDE DEF chosen
    <3>2. /\ m \in ReaderType /\ Holding(m, first, here)
          /\ chosen.count \in 0 .. Len(m.audio) /\ m.audio = chosen.audio
          /\ m.video = rd.video /\ m.deferred = rd.deferred
      BY <1>0, <1>1, SelectAudioKeeps DEF chosen
    <3> HIDE DEF m
    <3>3. CASE chosen.count = 0
      <4>1. r = rd BY <3>1, <3>3
      <4> QED BY <4>1 DEF r
    <3>4. CASE chosen.count # 0
      <4>1. r = BuildSegment(m, v, chosen.count, FALSE) BY <3>1, <3>4
      <4> QED BY <1>3, <1>5, <3>2, <4>1 DEF r
    <3> QED BY <3>3, <3>4
  <2> QED BY <2>1, <2>2, <2>3
<1> QED BY <1>6, <1>7

\* A fragment that arrives where its track is.
Entry(f, start) == [samples |-> f.samples, time |-> f.time, guess |-> f.guess, start |-> start]
PayloadOf(f, t) == [i \in 1 .. Len(f.samples) |-> <<t, f.samples[i].n>>]

Grown(queue, q, x, b, payload, new, t) ==
    /\ q \in Seq(QueuedFragment) /\ Len(q) = Len(queue) + 1 /\ Chain(q, x, b)
    /\ new \in Seq(Units) /\ Len(new) >= Len(payload)
    /\ \A i \in 1 .. Len(payload) : new[i] = payload[i]
    /\ Stored(new, q, t)
    /\ \A i \in 1 .. Len(q) : q[i].samples \in Seq(Sample) /\ q[i].samples # <<>>

LEMMA QueueGrows ==
    ASSUME NEW queue \in Seq(QueuedFragment), NEW x, NEW y, Chain(queue, x, y),
           NEW payload \in Seq(Units), NEW t \in Tracks, Stored(payload, queue, t),
           NEW f \in PushedFragment, NEW b \in Place, Fits(f, y, b),
           NEW q, q = Append(Resolved(queue, f.time), Entry(f, Len(payload))),
           NEW new, new = payload \o PayloadOf(f, t)
    PROVE  Grown(queue, q, x, b, payload, new, t)
<1> DEFINE r == Resolved(queue, f.time)
           g == Entry(f, Len(payload))
           tail == PayloadOf(f, t)
           len == Len(queue)
           ls == Len(f.samples)
           lp == Len(payload)
<1>0. len \in Nat /\ lp \in Nat /\ \A i \in 1 .. len : queue[i] \in QueuedFragment OBVIOUS
<1>1. f.samples \in Seq(Sample) /\ f.time \in Int /\ f.guess \in BOOLEAN /\ ls \in Nat
  <2>1. f.samples \in Seq(Sample) /\ f.time \in Int /\ f.guess \in BOOLEAN BY DEF PushedFragment
  <2> QED BY <2>1
<1>2. PICK p : Path(queue, p) /\ p[0] = x /\ p[len] = y BY DEF Chain
<1>3. f.time = p[len].time BY <1>2 DEF Fits
<1>4. /\ r \in Seq(QueuedFragment) /\ Len(r) = len /\ Path(r, p)
      /\ \A i \in 1 .. len :
           /\ ~r[i].guess /\ r[i].start = queue[i].start
           /\ Len(r[i].samples) = Len(queue[i].samples)
           /\ \A j \in 1 .. Len(queue[i].samples) : r[i].samples[j].n = queue[i].samples[j].n
  <2>1. r = Resolved(queue, p[len].time) BY <1>3
  <2> HIDE DEF r
  <2> QED BY <1>2, <2>1, ResolvedPath, SMTT(20)
<1> HIDE DEF r
<1>5. g \in QueuedFragment BY <1>0, <1>1 DEF QueuedFragment, Entry
<1>6. Fits(g, y, b) BY DEF Fits, EndTime, Entry
<1>7. q = Append(r, g) BY DEF r
<1>8. /\ g.samples = f.samples /\ g.start = lp BY DEF Entry
<1> HIDE DEF g
<1>9. /\ q \in Seq(QueuedFragment) /\ Len(q) = len + 1
      /\ (\A i \in 1 .. len : q[i] = r[i]) /\ q[len + 1] = g
  <2> DEFINE z == Append(r, g)
  <2>1. /\ z \in Seq(QueuedFragment) /\ Len(z) = Len(r) + 1
        /\ (\A i \in 1 .. Len(r) : z[i] = r[i]) /\ z[Len(r) + 1] = g
    BY <1>4, <1>5, AppendProperties
  <2>2. q = z BY <1>7
  <2> HIDE DEF z
  <2> QED BY <1>4, <2>1, <2>2
<1> DEFINE pq == [i \in 0 .. len + 1 |-> IF i = len + 1 THEN b ELSE p[i]]
<1>10. Path(q, pq)
  <2>1. Path(Append(r, g), [i \in 0 .. Len(r) + 1 |-> IF i = Len(r) + 1 THEN b ELSE p[i]])
    <3>1. Fits(g, p[Len(r)], b) BY <1>2, <1>4, <1>6
    <3>2. \A i \in 1 .. Len(r) : ~r[i].guess BY <1>4
    <3> QED BY <1>4, <1>5, <3>1, <3>2, PathAppend
  <2> QED BY <1>4, <1>7, <2>1
<1>11. pq[0] = x /\ pq[len + 1] = b
  <2>1. 0 # len + 1 /\ 0 \in 0 .. len + 1 /\ len + 1 \in 0 .. len + 1 BY <1>0
  <2> QED BY <1>2, <2>1
<1>12. Chain(q, x, b)
  <2> HIDE DEF pq
  <2> QED BY <1>9, <1>10, <1>11 DEF Chain
<1>13. tail \in Seq(Units) /\ Len(tail) = ls
  <2>1. ASSUME NEW i \in 1 .. ls PROVE <<t, f.samples[i].n>> \in Units
    <3>1. f.samples[i] \in Sample BY <1>1
    <3>2. f.samples[i].n \in Nat BY <3>1 DEF Sample
    <3> QED BY <3>2 DEF Units
  <2> QED BY <1>1, <2>1 DEF PayloadOf
<1>14. /\ new \in Seq(Units) /\ Len(new) = lp + ls
       /\ \A i \in 1 .. lp + ls : new[i] = IF i <= lp THEN payload[i] ELSE tail[i - lp]
  <2> DEFINE z == payload \o tail
  <2>1. new = z BY DEF tail
  <2> HIDE DEF tail, ls
  <2>2. /\ z \in Seq(Units) /\ Len(z) = lp + Len(tail)
        /\ \A i \in 1 .. lp + Len(tail) : z[i] = IF i <= lp THEN payload[i] ELSE tail[i - lp]
    BY <1>13, ConcatProperties
  <2> HIDE DEF z
  <2> QED BY <1>13, <2>1, <2>2
<1>t. \A i \in 1 .. ls : tail[i] = <<t, f.samples[i].n>> BY DEF PayloadOf
<1>u. Fits(g, y, b) /\ \A i \in 1 .. len : Holds(payload, queue[i], t) BY <1>6 DEF Stored
<1> HIDE DEF tail, ls, lp, len, pq
<1>15. \A i \in 1 .. lp : new[i] = payload[i] BY <1>0, <1>1, <1>14
<1>16. ASSUME NEW i \in 1 .. len + 1 PROVE Holds(new, q[i], t)
  <2>1. CASE i = len + 1
    <3>1. q[i] = g BY <1>9, <2>1
    <3>2. ASSUME NEW j \in 1 .. ls PROVE new[lp + j] = <<t, f.samples[j].n>>
      <4>1. lp + j \in 1 .. lp + ls /\ ~(lp + j <= lp) /\ (lp + j) - lp = j BY <1>0, <1>1
      <4> QED BY <1>14, <1>t, <4>1
    <3>3. lp + ls <= Len(new) BY <1>0, <1>1, <1>14
    <3> QED BY <1>8, <3>1, <3>2, <3>3 DEF Holds, ls
  <2>2. CASE i # len + 1
    <3>1. i \in 1 .. len BY <1>0, <2>2
    <3>2. q[i] = r[i] BY <1>9, <3>1
    <3> DEFINE e == queue[i]
               le == Len(e.samples)
    <3>3. Holds(payload, e, t) BY <1>u, <3>1
    <3>4. e \in QueuedFragment BY <1>0, <3>1
    <3>5. e.start \in Nat /\ le \in Nat BY <3>4, SMTT(20) DEF QueuedFragment
    <3>6. e.start + le <= lp /\ \A j \in 1 .. le : payload[e.start + j] = <<t, e.samples[j].n>>
      BY <3>3 DEF Holds, lp
    <3>7. /\ r[i].start = e.start /\ Len(r[i].samples) = le
          /\ \A j \in 1 .. le : r[i].samples[j].n = e.samples[j].n
      BY <1>4, <3>1
    <3> DEFINE es == e.start
    <3> HIDE DEF e, le
    <3>8. es + le <= lp + ls /\ es \in Nat
      <4>1. es \in Nat /\ es + le <= lp BY <3>5, <3>6
      <4> HIDE DEF es
      <4> QED BY <1>0, <1>1, <3>5, <4>1
    <3>9. ASSUME NEW j \in 1 .. le PROVE new[es + j] = <<t, e.samples[j].n>>
      <4>0. es \in Nat /\ es + le <= lp BY <3>5, <3>6
      <4>1. es + j \in 1 .. lp
        <5> HIDE DEF es
        <5> QED BY <1>0, <3>5, <4>0
      <4> QED BY <1>15, <3>6, <4>1
    <3> QED BY <1>14, <3>2, <3>7, <3>8, <3>9, ZenonT(40) DEF Holds
  <2> QED BY <2>1, <2>2
<1>17. Stored(new, q, t) BY <1>9, <1>16 DEF Stored
<1>18. ASSUME NEW i \in 1 .. len + 1 PROVE q[i].samples \in Seq(Sample) /\ q[i].samples # <<>>
  <2>1. q[i] \in QueuedFragment BY <1>9
  <2>2. Fits(q[i], pq[i - 1], pq[i]) BY <1>9, <1>10 DEF Path
  <2> QED BY <2>1, <2>2 DEF QueuedFragment, Fits
<1>19. Len(new) >= lp BY <1>0, <1>1, <1>14
<1> QED BY <1>9, <1>12, <1>14, <1>15, <1>17, <1>18, <1>19 DEF len, lp, Grown

LEMMA LastDuration ==
    ASSUME NEW s \in Seq(Sample), s # <<>>
    PROVE  Last(s).dur \in Int
<1>1. Len(s) \in 1 .. Len(s) OBVIOUS
<1>2. s[Len(s)] \in Sample BY <1>1
<1> QED BY <1>2 DEF Last, Sample

\* complete_moof and complete_mdat.
LEMMA QueuedKeeps ==
    ASSUME NEW rd, NEW from, NEW here \in [Tracks -> Place], Cut(rd, from, here),
           NEW f \in PushedFragment, NEW b \in Place, Fits(f, here[f.track], b)
    PROVE  LET r == Queued(rd, f)
           IN  /\ Cut(r, from, [here EXCEPT ![f.track] = b])
               /\ r.deferred = rd.deferred /\ r.built = rd.built /\ r.failed = rd.failed
<1> DEFINE t == f.track
           r == Queued(rd, f)
           q == Append(Resolved(rd[t], f.time), Entry(f, Len(rd.payload)))
           new == rd.payload \o PayloadOf(f, t)
           before == IF Len(q) > 1 /\ rd[t] # <<>> /\ Last(rd[t]).guess
                     THEN Last(q[Len(q) - 1].samples).dur ELSE rd.hint[t]
           hint == [rd.hint EXCEPT ![t] = IF f.guess THEN before ELSE Last(f.samples).dur]
           there == [here EXCEPT ![t] = b]
<1>0. rd \in ReaderType /\ Listed(rd.built) BY DEF Cut
<1>0a. /\ rd.video \in Seq(QueuedFragment) /\ rd.audio \in Seq(QueuedFragment)
       /\ rd.payload \in Seq(Units) /\ rd.hint \in [Tracks -> Int]
  BY <1>0 DEF ReaderType
<1>0b. f.samples \in Seq(Sample) /\ t \in Tracks BY DEF PushedFragment
<1>0c. rd[t] \in Seq(QueuedFragment) /\ (t = "video" \/ t = "audio") BY <1>0a, <1>0b DEF Tracks
<1>1. PICK first \in [Tracks -> Place] :
        Holding(rd, first, here) /\ \A x \in Tracks : first[x].n = from[x] + Len(rd.built[x])
  BY DEF Cut
<1>2. Chain(rd[t], first[t], here[t]) /\ Stored(rd.payload, rd[t], t)
  BY <1>0c, <1>1 DEF Holding
<1>3. /\ q \in Seq(QueuedFragment) /\ Len(q) = Len(rd[t]) + 1 /\ Chain(q, first[t], b)
      /\ new \in Seq(Units) /\ Len(new) >= Len(rd.payload)
      /\ \A i \in 1 .. Len(rd.payload) : new[i] = rd.payload[i]
      /\ Stored(new, q, t)
      /\ \A i \in 1 .. Len(q) : q[i].samples \in Seq(Sample) /\ q[i].samples # <<>>
  <2>1. Grown(rd[t], q, first[t], b, rd.payload, new, t)
    <3> DEFINE queue == rd[t]
               x == first[t]
               y == here[t]
               payload == rd.payload
    <3>1. queue \in Seq(QueuedFragment) /\ payload \in Seq(Units) /\ t \in Tracks BY <1>0a, <1>0b, <1>0c
    <3>2. Chain(queue, x, y) /\ Stored(payload, queue, t) /\ Fits(f, y, b) BY <1>2
    <3>3. q = Append(Resolved(queue, f.time), Entry(f, Len(payload))) /\ new = payload \o PayloadOf(f, t)
      OBVIOUS
    <3> HIDE DEF q, new, queue, x, y, payload, t
    <3>4. Grown(queue, q, x, b, payload, new, t) BY <3>1, <3>2, <3>3, QueueGrows
    <3> QED BY <3>4 DEF queue, x, payload
  <2> HIDE DEF q, new, t
  <2> QED BY <2>1 DEF Grown
<1> HIDE DEF q, new
<1>4. hint \in [Tracks -> Int]
  <2>1. f.samples # <<>> BY DEF Fits
  <2>2. Last(f.samples).dur \in Int BY <1>0b, <2>1, LastDuration
  <2>3. before \in Int
    <3>1. CASE Len(q) > 1
      <4>1. Len(q) - 1 \in 1 .. Len(q)
        <5>1. Len(q) \in Nat BY <1>3
        <5> QED BY <3>1, <5>1
      <4>2. Last(q[Len(q) - 1].samples).dur \in Int BY <1>3, <4>1, LastDuration
      <4>3. rd.hint[t] \in Int BY <1>0a, <1>0b
      <4> QED BY <4>2, <4>3
    <3>2. CASE ~(Len(q) > 1)
      <4>1. before = rd.hint[t] BY <3>2
      <4> QED BY <1>0a, <1>0b, <4>1
    <3> QED BY <3>1, <3>2
  <2> HIDE DEF before
  <2> QED BY <1>0a, <2>2, <2>3
<1> DEFINE length == IF f.guess THEN before ELSE Last(f.samples).dur
<1>5. r = [rd EXCEPT ![t] = q, !.payload = new, !.hint[t] = length]
  BY DEF Queued, q, new, Entry, PayloadOf
<1>5a. hint = [rd.hint EXCEPT ![t] = length] OBVIOUS
<1> HIDE DEF r, hint, before, length
<1>6. there \in [Tracks -> Place] /\ there[t] = b /\ \A x \in Tracks \ {t} : there[x] = here[x]
  BY <1>0b
<1> HIDE DEF there
\* The payload of the other track is still there.
<1>7. ASSUME NEW x, NEW queue \in Seq(QueuedFragment), Stored(rd.payload, queue, x)
      PROVE  Stored(new, queue, x)
  <2> SUFFICES ASSUME NEW i \in 1 .. Len(queue) PROVE Holds(new, queue[i], x) BY DEF Stored
  <2> DEFINE e == queue[i]
             le == Len(e.samples)
             lp == Len(rd.payload)
             es == e.start
  <2>1. e \in QueuedFragment /\ Holds(rd.payload, e, x) BY <1>7 DEF Stored
  <2>2. es \in Nat /\ le \in Nat BY <2>1 DEF QueuedFragment
  <2>3. es + le <= lp /\ \A j \in 1 .. le : rd.payload[es + j] = <<x, e.samples[j].n>>
    BY <2>1 DEF Holds
  <2>4. lp \in Nat /\ Len(new) \in Nat /\ Len(new) >= lp BY <1>0a, <1>3
  <2>5. es + le <= Len(new)
    <3> HIDE DEF es, le, lp
    <3> QED BY <2>2, <2>3, <2>4
  <2>6. ASSUME NEW j \in 1 .. le PROVE new[es + j] = <<x, e.samples[j].n>>
    <3>1. es + j \in 1 .. lp
      <4> HIDE DEF es, le, lp
      <4> QED BY <2>2, <2>3, <2>4
    <3> QED BY <1>3, <2>3, <3>1
  <2> QED BY <2>5, <2>6 DEF Holds
<1>8. CASE t = "video"
  <2>1. r = [rd EXCEPT !.video = q, !.payload = new, !.hint = hint]
    <3>1. r = [rd EXCEPT !["video"] = q, !["payload"] = new, !["hint"]["video"] = length] BY <1>5, <1>8
    <3>2. hint = [rd.hint EXCEPT !["video"] = length] BY <1>5a, <1>8
    <3> HIDE DEF t
    <3> QED BY <1>0, <3>1, <3>2 DEF ReaderType
  <2>2. r \in ReaderType BY <1>0, <1>3, <1>4, <2>1 DEF ReaderType
  <2>3. /\ r.video = q /\ r.payload = new /\ r.audio = rd.audio
        /\ r.deferred = rd.deferred /\ r.built = rd.built /\ r.failed = rd.failed
    BY <1>0, <2>1 DEF ReaderType
  <2>4. there["video"] = b /\ there["audio"] = here["audio"] BY <1>6, <1>8 DEF Tracks
  <2>5. Chain(rd.audio, first["audio"], here["audio"]) /\ Stored(new, rd.audio, "audio")
    BY <1>0a, <1>1, <1>7 DEF Holding
  <2>6. Holding(r, first, there) BY <1>3, <1>8, <2>3, <2>4, <2>5 DEF Holding
  <2>7. Cut(r, from, there) BY <1>0, <1>1, <2>2, <2>3, <2>6 DEF Cut
  <2> QED BY <2>3, <2>7 DEF r, there
<1>9. CASE t = "audio"
  <2>1. r = [rd EXCEPT !.audio = q, !.payload = new, !.hint = hint]
    <3>1. r = [rd EXCEPT !["audio"] = q, !["payload"] = new, !["hint"]["audio"] = length] BY <1>5, <1>9
    <3>2. hint = [rd.hint EXCEPT !["audio"] = length] BY <1>5a, <1>9
    <3> HIDE DEF t
    <3> QED BY <1>0, <3>1, <3>2 DEF ReaderType
  <2>2. r \in ReaderType BY <1>0, <1>3, <1>4, <2>1 DEF ReaderType
  <2>3. /\ r.audio = q /\ r.payload = new /\ r.video = rd.video
        /\ r.deferred = rd.deferred /\ r.built = rd.built /\ r.failed = rd.failed
    BY <1>0, <2>1 DEF ReaderType
  <2>4. there["audio"] = b /\ there["video"] = here["video"] BY <1>6, <1>9 DEF Tracks
  <2>5. Chain(rd.video, first["video"], here["video"]) /\ Stored(new, rd.video, "video")
    BY <1>0a, <1>1, <1>7 DEF Holding
  <2>6. Holding(r, first, there) BY <1>3, <1>9, <2>3, <2>4, <2>5 DEF Holding
  <2>7. Cut(r, from, there) BY <1>0, <1>1, <2>2, <2>3, <2>6 DEF Cut
  <2> QED BY <2>3, <2>7 DEF r, there
<1> QED BY <1>0c, <1>8, <1>9

-----------------------------------------------------------------------------
(* Fragments on the way to the reader. *)

\* Each of them is a track's next one.
Feeding(list, p) ==
    /\ p \in [0 .. Len(list) -> [Tracks -> Place]]
    /\ \A i \in 1 .. Len(list) :
         /\ list[i] \in PushedFragment
         /\ Fits(list[i], p[i - 1][list[i].track], p[i][list[i].track])
         /\ p[i] = [p[i - 1] EXCEPT ![list[i].track] = p[i][list[i].track]]

Fed(list, a, b) == \E p : Feeding(list, p) /\ p[0] = a /\ p[Len(list)] = b

LEMMA FedEmpty ==
    ASSUME NEW a \in [Tracks -> Place]
    PROVE  Fed(<<>>, a, a)
<1> DEFINE p == [i \in 0 .. 0 |-> a]
<1>1. Len(<<>>) = 0 OBVIOUS
<1>2. p \in [0 .. 0 -> [Tracks -> Place]] /\ p[0] = a OBVIOUS
<1>3. 1 .. 0 = {} OBVIOUS
<1> HIDE DEF p
<1>4. Feeding(<<>>, p) BY <1>1, <1>2, <1>3 DEF Feeding
<1> QED BY <1>1, <1>2, <1>4 DEF Fed

LEMMA FedNothing ==
    ASSUME NEW a, NEW b, Fed(<<>>, a, b)
    PROVE  a = b
<1>1. Len(<<>>) = 0 OBVIOUS
<1> QED BY <1>1 DEF Fed

LEMMA FedBoth ==
    ASSUME NEW s \in Seq(PushedFragment), NEW u \in Seq(PushedFragment),
           NEW a, NEW b, NEW c, Fed(s, a, b), Fed(u, b, c)
    PROVE  Fed(s \o u, a, c)
<1> DEFINE z == s \o u
           m == Len(s)
           n == Len(u)
<1>0. m \in Nat /\ n \in Nat OBVIOUS
<1>1. PICK p : Feeding(s, p) /\ p[0] = a /\ p[m] = b BY DEF Fed
<1>2. PICK q : Feeding(u, q) /\ q[0] = b /\ q[n] = c BY DEF Fed
<1>3. /\ Len(z) = m + n
      /\ \A i \in 1 .. m + n : z[i] = IF i <= m THEN s[i] ELSE u[i - m]
  BY ConcatProperties
<1>4. p \in [0 .. m -> [Tracks -> Place]] /\ q \in [0 .. n -> [Tracks -> Place]]
  BY <1>1, <1>2 DEF Feeding
<1> DEFINE r == [i \in 0 .. m + n |-> IF i <= m THEN p[i] ELSE q[i - m]]
<1> HIDE DEF z
<1>s. \A i \in 1 .. m : s[i] \in PushedFragment OBVIOUS
<1>u. \A i \in 1 .. n : u[i] \in PushedFragment OBVIOUS
<1>p. \A i \in 1 .. m : Feeding(s, p) => 
        /\ Fits(s[i], p[i - 1][s[i].track], p[i][s[i].track])
        /\ p[i] = [p[i - 1] EXCEPT ![s[i].track] = p[i][s[i].track]]
  BY DEF Feeding
<1>q. \A i \in 1 .. n : Feeding(u, q) => 
        /\ Fits(u[i], q[i - 1][u[i].track], q[i][u[i].track])
        /\ q[i] = [q[i - 1] EXCEPT ![u[i].track] = q[i][u[i].track]]
  BY DEF Feeding
<1> HIDE DEF m, n
<1>5. r \in [0 .. m + n -> [Tracks -> Place]] BY <1>0, <1>4
<1>6. ASSUME NEW i \in 0 .. m PROVE r[i] = p[i] BY <1>0
<1>7. ASSUME NEW i \in 0 .. n PROVE r[m + i] = q[i]
  <2>1. CASE i = 0 BY <1>0, <1>1, <1>2, <2>1
  <2>2. CASE i # 0
    <3>1. m + i \in 0 .. m + n /\ ~(m + i <= m) /\ (m + i) - m = i BY <1>0, <2>2
    <3> QED BY <3>1
  <2> QED BY <2>1, <2>2
<1>8. r[0] = a BY <1>0, <1>1
<1> HIDE DEF r
<1>9. r[m + n] = c
  <2>1. n \in 0 .. n BY <1>0
  <2> QED BY <1>2, <1>7, <2>1
<1>10. ASSUME NEW i \in 1 .. m + n
       PROVE  /\ z[i] \in PushedFragment
              /\ Fits(z[i], r[i - 1][z[i].track], r[i][z[i].track])
              /\ r[i] = [r[i - 1] EXCEPT ![z[i].track] = r[i][z[i].track]]
  <2>1. CASE i <= m
    <3>1. i \in 1 .. m /\ i \in 0 .. m /\ i - 1 \in 0 .. m BY <1>0, <2>1
    <3>2. z[i] = s[i] /\ r[i] = p[i] /\ r[i - 1] = p[i - 1] BY <1>3, <1>6, <2>1, <3>1
    <3> QED BY <1>1, <1>s, <1>p, <3>1, <3>2
  <2>2. CASE ~(i <= m)
    <3> DEFINE j == i - m
    <3>1. j \in 1 .. n /\ j \in 0 .. n /\ j - 1 \in 0 .. n /\ m + j = i /\ m + (j - 1) = i - 1 BY <1>0, <2>2
    <3>2. z[i] = u[j] BY <1>3, <2>2
    <3> HIDE DEF j
    <3>3. r[i] = q[j] /\ r[i - 1] = q[j - 1] BY <1>7, <3>1
    <3> QED BY <1>2, <1>u, <1>q, <3>1, <3>2, <3>3
  <2> QED BY <2>1, <2>2
<1>11. Feeding(z, r) BY <1>3, <1>5, <1>10 DEF Feeding
<1> QED BY <1>3, <1>8, <1>9, <1>11 DEF Fed, z

\* One fragment more.
LEMMA FedOne ==
    ASSUME NEW f \in PushedFragment, NEW a \in [Tracks -> Place], NEW b \in Place,
           Fits(f, a[f.track], b)
    PROVE  Fed(<<f>>, a, [a EXCEPT ![f.track] = b]) /\ <<f>> \in Seq(PushedFragment)
<1> DEFINE c == [a EXCEPT ![f.track] = b]
           p == [i \in 0 .. 1 |-> IF i = 0 THEN a ELSE c]
           s == <<f>>
<1>1. f.track \in Tracks BY DEF PushedFragment
<1>2. c \in [Tracks -> Place] /\ c[f.track] = b BY <1>1
<1>3. s \in Seq(PushedFragment) /\ Len(s) = 1 /\ s[1] = f OBVIOUS
<1>c. c = [a EXCEPT ![f.track] = c[f.track]] BY <1>2
<1> HIDE DEF c, s
<1>4. p \in [0 .. 1 -> [Tracks -> Place]] BY <1>2
<1>5. p[0] = a /\ p[1] = c /\ 1 - 1 = 0 OBVIOUS
<1> HIDE DEF p
<1>6. ASSUME NEW i \in 1 .. 1
      PROVE  /\ s[i] \in PushedFragment
             /\ Fits(s[i], p[i - 1][s[i].track], p[i][s[i].track])
             /\ p[i] = [p[i - 1] EXCEPT ![s[i].track] = p[i][s[i].track]]
  <2>1. i = 1 OBVIOUS
  <2> QED BY <1>2, <1>3, <1>5, <1>c, <2>1
<1>7. Feeding(s, p) BY <1>3, <1>4, <1>6 DEF Feeding
<1> QED BY <1>3, <1>5, <1>7 DEF Fed, s, c

\* What the reader was given is cut as far as it was read; the rest is deferred,
\* and nothing is deferred while it is still reading.
Reading(rd, from, here) ==
    /\ (~Stopped(rd) => rd.deferred = <<>>)
    /\ \E mid \in [Tracks -> Place] : Cut(rd, from, mid) /\ Fed(rd.deferred, mid, here)

LEMMA CutDeferred ==
    ASSUME NEW rd, NEW from, NEW here, Cut(rd, from, here), NEW d \in Seq(PushedFragment)
    PROVE  LET r == [rd EXCEPT !.deferred = d]
           IN  /\ Cut(r, from, here) /\ r.deferred = d
               /\ r.built = rd.built /\ r.failed = rd.failed
<1> DEFINE r == [rd EXCEPT !.deferred = d]
<1>1. rd \in ReaderType BY DEF Cut
<1>2. r \in ReaderType BY <1>1 DEF ReaderType
<1>3. /\ r.deferred = d /\ r.built = rd.built /\ r.failed = rd.failed
      /\ r.video = rd.video /\ r.audio = rd.audio /\ r.payload = rd.payload
  BY <1>1 DEF ReaderType
<1> HIDE DEF r
<1>4. Cut(r, from, here) BY <1>2, <1>3 DEF Cut, Holding
<1> QED BY <1>3, <1>4 DEF r

\* process_bytes takes a fragment.
LEMMA ArrivedKeeps ==
    ASSUME NEW rd, NEW from \in [Tracks -> Nat], NEW here \in [Tracks -> Place], Reading(rd, from, here),
           NEW f \in PushedFragment, NEW b \in Place, Fits(f, here[f.track], b)
    PROVE  Reading(Arrived(rd, f), from, [here EXCEPT ![f.track] = b])
<1> DEFINE there == [here EXCEPT ![f.track] = b]
           r == Arrived(rd, f)
<1>0. f.track \in Tracks BY DEF PushedFragment
<1>0a. there \in [Tracks -> Place] BY <1>0
<1>1. PICK mid \in [Tracks -> Place] : Cut(rd, from, mid) /\ Fed(rd.deferred, mid, here)
  BY DEF Reading
<1>2. rd.deferred \in Seq(PushedFragment) BY <1>1 DEF Cut, ReaderType
<1>3. CASE Stopped(rd)
  <2> DEFINE d == Append(rd.deferred, f)
  <2>1. r = [rd EXCEPT !.deferred = d] BY <1>3 DEF Arrived
  <2>2. d \in Seq(PushedFragment) BY <1>2
  <2>3. Fed(d, mid, there)
    <3>1. d = rd.deferred \o <<f>> BY <1>2
    <3>2. Fed(<<f>>, here, there) /\ <<f>> \in Seq(PushedFragment) BY FedOne
    <3> HIDE DEF there, d
    <3> QED BY <1>1, <1>2, <3>1, <3>2, FedBoth
  <2> HIDE DEF d, r, there
  <2>4. Cut(r, from, mid) /\ r.deferred = d /\ r.built = rd.built /\ r.failed = rd.failed
    BY <1>1, <2>1, <2>2, CutDeferred
  <2>5. Stopped(r) BY <1>3, <2>4 DEF Stopped
  <2> QED BY <2>3, <2>4, <2>5 DEF Reading, r, there
<1>4. CASE ~Stopped(rd)
  <2> DEFINE m == Queued(rd, f)
  <2>1. r = TryBuild(m) BY <1>4 DEF Arrived
  <2>2. rd.deferred = <<>> /\ rd.built = NoSegment BY <1>4 DEF Reading, Stopped
  <2>3. mid = here BY <1>1, <2>2, FedNothing
  <2>4. Cut(m, from, there) /\ m.deferred = rd.deferred /\ m.built = rd.built
    BY <1>1, <2>3, QueuedKeeps
  <2> HIDE DEF m, r, there
  <2>5. Cut(r, from, there) /\ r.deferred = <<>> BY <2>1, <2>2, <2>4, TryBuildKeeps
  <2>6. Fed(<<>>, there, there) BY <1>0a, FedEmpty
  <2> QED BY <1>0a, <2>5, <2>6 DEF Reading, r, there
<1> QED BY <1>3, <1>4

\* process_bytes takes all of them.
LEMMA ProcessKeeps ==
    ASSUME NEW rd, NEW from \in [Tracks -> Nat], NEW here, Reading(rd, from, here),
           NEW list \in Seq(PushedFragment), NEW there, Fed(list, here, there)
    PROVE  Reading(Process(rd, list), from, there)
<1> DEFINE len == Len(list)
           To(g, n) == /\ g = [i \in 0 .. n |-> g[i]] /\ g[0] = rd
                       /\ \A i \in 1 .. n : g[i] = Arrived(g[i - 1], list[i])
           Has(n) == n <= len => \E g : To(g, n)
           E == {n \in Nat : Has(n)}
<1>0. len \in Nat OBVIOUS
<1> HIDE DEF len
\* The states it goes through.
<1>1. 0 \in E
  <2> DEFINE g == [i \in 0 .. 0 |-> rd]
  <2>1. To(g, 0) OBVIOUS
  <2> HIDE DEF To, g
  <2> QED BY <2>1
<1>2. ASSUME NEW n \in Nat, n \in E PROVE n + 1 \in E
  <2> SUFFICES ASSUME n + 1 <= len PROVE \E g : To(g, n + 1) OBVIOUS
  <2>1. Has(n) /\ n <= len BY <1>0, <1>2
  <2>2. PICK g : To(g, n) BY <2>1
  <2> DEFINE x == Arrived(g[n], list[n + 1])
             h == [i \in 0 .. n + 1 |-> IF i = n + 1 THEN x ELSE g[i]]
  <2>3. h[n + 1] = x /\ h[n] = g[n] /\ h[0] = g[0] /\ (n + 1) - 1 = n OBVIOUS
  <2>4. ASSUME NEW i \in 1 .. n + 1 PROVE h[i] = Arrived(h[i - 1], list[i])
    <3>1. CASE i = n + 1 BY <2>3, <3>1
    <3>2. CASE i # n + 1
      <4>1. i \in 1 .. n BY <3>2
      <4>2. h[i] = g[i] /\ h[i - 1] = g[i - 1] BY <4>1
      <4> QED BY <2>2, <4>1, <4>2
    <3> QED BY <3>1, <3>2
  <2>5. h = [i \in 0 .. n + 1 |-> h[i]] OBVIOUS
  <2> HIDE DEF h
  <2>6. To(h, n + 1) BY <2>2, <2>3, <2>4, <2>5
  <2> HIDE DEF To
  <2> QED BY <2>6
<1> HIDE DEF E
<1>3. PICK g : To(g, len)
  <2>1. len \in E BY <1>0, <1>1, <1>2, Induction
  <2> QED BY <2>1 DEF E
\* Its result is the last of them.
<1> DEFINE Upto(h) == h = [i \in 0 .. len |-> IF i = 0 THEN rd ELSE Arrived(h[i - 1], list[i])]
           after == CHOOSE h : Upto(h)
<1>4. Upto(g)
  <2>0. g[0] = rd /\ \A i \in 1 .. len : g[i] = Arrived(g[i - 1], list[i]) BY <1>3
  <2>1. ASSUME NEW i \in 0 .. len PROVE g[i] = IF i = 0 THEN rd ELSE Arrived(g[i - 1], list[i])
    <3>1. CASE i = 0 BY <2>0, <3>1
    <3>2. CASE i # 0
      <4>1. i \in 1 .. len BY <1>0, <3>2
      <4> QED BY <2>0, <3>2, <4>1
    <3> QED BY <3>1, <3>2
  <2>2. g = [i \in 0 .. len |-> g[i]] BY <1>3
  <2> QED BY <2>1, <2>2, Zenon
<1>5. Upto(after) BY <1>4
<1>6. Process(rd, list) = after[len] BY DEF Process, len
<1> HIDE DEF after
\* Each keeps what it must.
<1>7. PICK p : Feeding(list, p) /\ p[0] = here /\ p[len] = there BY DEF Fed, len
<1> DEFINE Keeps(n) == n <= len => Reading(after[n], from, p[n])
           K == {n \in Nat : Keeps(n)}
<1>8. 0 \in K
  <2>1. 0 \in 0 .. len BY <1>0
  <2>2. after[0] = rd BY <1>5, <2>1
  <2> HIDE DEF Upto
  <2> QED BY <1>7, <2>2
<1>9. ASSUME NEW n \in Nat, n \in K PROVE n + 1 \in K
  <2> SUFFICES ASSUME n + 1 <= len PROVE Reading(after[n + 1], from, p[n + 1]) OBVIOUS
  <2> DEFINE k == n + 1
             f == list[k]
             t == f.track
  <2>1. k \in 1 .. len /\ k \in 0 .. len /\ k # 0 /\ k - 1 = n /\ n \in 0 .. len BY <1>0
  <2>2. Keeps(n) BY <1>9
  <2>3. Reading(after[n], from, p[n])
    <3> HIDE DEF Upto
    <3> QED BY <1>0, <2>1, <2>2
  <2>4. after[k] = Arrived(after[k - 1], f)
    <3> HIDE DEF k
    <3> QED BY <1>5, <2>1
  <2>5. after[k] = Arrived(after[n], f) BY <2>1, <2>4
  <2>6. p[n] \in [Tracks -> Place] /\ p[k] \in [Tracks -> Place]
    <3> HIDE DEF k
    <3>1. p \in [0 .. len -> [Tracks -> Place]] BY <1>7 DEF Feeding, len
    <3> QED BY <2>1, <3>1
  <2>7. f \in PushedFragment /\ Fits(f, p[n][t], p[k][t]) /\ p[k] = [p[n] EXCEPT ![t] = p[k][t]]
    <3>1. p[k - 1] = p[n] BY <2>1
    <3> HIDE DEF k
    <3>2. /\ f \in PushedFragment /\ Fits(f, p[k - 1][t], p[k][t])
          /\ p[k] = [p[k - 1] EXCEPT ![t] = p[k][t]]
      BY <1>7, <2>1 DEF Feeding, len
    <3> QED BY <3>1, <3>2
  <2>8. t \in Tracks BY <2>7 DEF PushedFragment
  <2> DEFINE b == p[k][t]
             a == p[n]
             x == after[n]
  <2>9. b \in Place /\ a \in [Tracks -> Place] /\ Reading(x, from, a) /\ Fits(f, a[f.track], b)
    BY <2>3, <2>6, <2>7, <2>8
  <2>10. after[k] = Arrived(x, f) /\ p[k] = [a EXCEPT ![f.track] = b] BY <2>5, <2>7
  <2> HIDE DEF a, b, f, x, Upto, k
  <2>11. Reading(Arrived(x, f), from, [a EXCEPT ![f.track] = b])
    BY <2>7, <2>9, ArrivedKeeps
  <2> QED BY <2>10, <2>11 DEF k
<1> HIDE DEF K, Upto
<1>10. len \in K BY <1>0, <1>8, <1>9, Induction
<1> QED BY <1>0, <1>6, <1>7, <1>10 DEF K

\* push.
LEMMA PushedKeeps ==
    ASSUME NEW rd, NEW from \in [Tracks -> Nat], NEW mid \in [Tracks -> Place], NEW here, NEW there,
           Cut(rd, from, mid), rd.built = NoSegment, Fed(rd.deferred, mid, here),
           NEW list \in Seq(PushedFragment), Fed(list, here, there)
    PROVE  Reading(PushedBytes(rd, list), from, there)
<1> DEFINE m == TryBuild(rd)
           n == [m EXCEPT !.deferred = <<>>]
           all == rd.deferred \o list
<1>1. rd.deferred \in Seq(PushedFragment) BY DEF Cut, ReaderType
<1>2. all \in Seq(PushedFragment) BY <1>1, ConcatProperties
<1>3. Fed(all, mid, there) BY <1>1, FedBoth
<1>4. Cut(m, from, mid) BY TryBuildKeeps
<1>5. PushedBytes(rd, list) = Process(n, all) BY DEF PushedBytes
<1>6. <<>> \in Seq(PushedFragment) OBVIOUS
<1> HIDE DEF m
<1>7. Cut(n, from, mid) /\ n.deferred = <<>> BY <1>4, <1>6, CutDeferred
<1> HIDE DEF n, all
<1>8. Fed(<<>>, mid, mid) BY FedEmpty
<1>9. Reading(n, from, mid) BY <1>7, <1>8 DEF Reading
<1> QED BY <1>2, <1>3, <1>5, <1>9, ProcessKeeps

-----------------------------------------------------------------------------
(* The fragments of a buffer. *)

ShapeType == [sync : BOOLEAN, dur : Nat]

\* What lasts as long.
LEMMA DurationLike ==
    ASSUME NEW D, Timed(D), NEW s \in Seq(D), NEW E, Timed(E), NEW u \in Seq(E), Len(s) = Len(u),
           \A i \in 1 .. Len(s) : s[i].dur = u[i].dur
    PROVE  Duration(s) = Duration(u)
<1>1. PICK f : Sums(f, s) BY SumsExist
<1>2. Sums(f, u) BY <1>1 DEF Sums
<1>3. Duration(s) = f[Len(s)] BY <1>1, DurationIs
<1>4. Duration(u) = f[Len(u)] BY <1>2, DurationIs
<1> QED BY <1>3, <1>4

\* The parts before one of them, and with it.
LEMMA FlattenUpTo ==
    ASSUME NEW D, NEW parts \in Seq(Seq(D)), NEW i \in 1 .. Len(parts)
    PROVE  /\ FlattenSeq(SubSeq(parts, 1, i - 1)) \in Seq(D)
           /\ FlattenSeq(SubSeq(parts, 1, i)) = FlattenSeq(SubSeq(parts, 1, i - 1)) \o parts[i]
           /\ parts[i] \in Seq(D)
<1> DEFINE a == SubSeq(parts, 1, i - 1)
           b == SubSeq(parts, 1, i)
           x == parts[i]
<1>0. Len(parts) \in Nat /\ x \in Seq(D) OBVIOUS
<1>1. /\ a \in Seq(Seq(D)) /\ Len(a) = i - 1 /\ \A j \in 1 .. i - 1 : a[j] = parts[j]
  BY <1>0
<1>2. b \in Seq(Seq(D)) /\ Len(b) = i /\ \A j \in 1 .. i : b[j] = parts[j] BY <1>0
<1> HIDE DEF a, b
<1>3. /\ Append(a, x) \in Seq(Seq(D)) /\ Len(Append(a, x)) = i
      /\ \A j \in 1 .. i : Append(a, x)[j] = b[j]
  <2> HIDE DEF x
  <2>1. Append(a, x) \in Seq(Seq(D)) /\ Len(Append(a, x)) = (i - 1) + 1 BY <1>0, <1>1
  <2>2. ASSUME NEW j \in 1 .. i PROVE Append(a, x)[j] = b[j]
    <3>1. CASE j = i
      <4>1. Append(a, x)[(i - 1) + 1] = x BY <1>0, <1>1
      <4>2. b[j] = x BY <1>2, <3>1 DEF x
      <4>3. (i - 1) + 1 = j BY <3>1
      <4> QED BY <4>1, <4>2, <4>3
    <3>2. CASE j # i
      <4>1. j \in 1 .. i - 1 BY <3>2
      <4>2. Append(a, x)[j] = a[j] BY <1>0, <1>1, <4>1
      <4> QED BY <1>1, <1>2, <4>1, <4>2
    <3> QED BY <3>1, <3>2
  <2> QED BY <2>1, <2>2
<1>4. Append(a, x) = b
  <2> DEFINE z == Append(a, x)
  <2>1. z \in Seq(Seq(D)) /\ Len(z) = Len(b) /\ \A j \in 1 .. Len(z) : z[j] = b[j] BY <1>2, <1>3
  <2> HIDE DEF z
  <2>2. z = b BY <1>2, <2>1, SeqEqual
  <2> QED BY <2>2 DEF z
<1>5. FlattenSeq(Append(a, x)) = FlattenSeq(a) \o x BY <1>0, <1>1, FlattenAppend
<1>6. FlattenSeq(a) \in Seq(D) BY <1>1, FlattenType
<1> QED BY <1>0, <1>4, <1>5, <1>6 DEF a, b

\* A place that many samples and that much time later.
On(a, k, e) == [n |-> a.n + k, time |-> a.time + e]

\* Where a track is after the first n parts of a buffer.
After(a, shapes, n) ==
    LET before == FlattenSeq(SubSeq(shapes, 1, n))
    IN  On(a, Len(before), Duration(before))

LEMMA ShapesTimed == Timed(ShapeType)
BY DEF Timed, ShapeType

LEMMA AfterNone ==
    ASSUME NEW a \in Place, NEW shapes
    PROVE  After(a, shapes, 0) = a
<1>1. SubSeq(shapes, 1, 0) = <<>> BY SubSeqEmpty
<1>2. FlattenSeq(SubSeq(shapes, 1, 0)) = <<>> BY <1>1, FlattenEmpty
<1>3. a.n + 0 = a.n /\ a.time + 0 = a.time /\ a = [n |-> a.n, time |-> a.time] BY DEF Place
<1> QED BY <1>2, <1>3, DurationEmpty DEF After, On

LEMMA PlaceOn ==
    ASSUME NEW a \in Place, NEW k \in Nat, NEW e \in Int
    PROVE  On(a, k, e) \in Place
<1>1. a.n \in Nat /\ a.time \in Int BY DEF Place
<1>2. a.n + k \in Nat /\ a.time + e \in Int BY <1>1
<1> QED BY <1>2 DEF Place, On

LEMMA PlaceOnAgain ==
    ASSUME NEW a \in Place, NEW k \in Nat, NEW e \in Int, NEW l \in Nat, NEW g \in Int
    PROVE  On(On(a, k, e), l, g) = On(a, k + l, e + g)
<1> DEFINE b == On(a, k, e)
<1>1. a.n \in Nat /\ a.time \in Int BY DEF Place
<1>2. b.n = a.n + k /\ b.time = a.time + e BY DEF On
<1>3. a.n + (k + l) = (a.n + k) + l /\ a.time + (e + g) = (a.time + e) + g BY <1>1
<1> HIDE DEF b
<1>4. On(b, l, g) = On(a, k + l, e + g) BY <1>2, <1>3 DEF On
<1> QED BY <1>4 DEF b

\* A fragment takes it on.
LEMMA FragmentFits ==
    ASSUME NEW a \in Place, NEW shapes \in Seq(Seq(ShapeType)), NEW i \in 1 .. Len(shapes),
           shapes[i] # <<>>, NEW track \in Tracks, NEW guess \in BOOLEAN, NEW hint \in Int,
           guess => Len(shapes[i]) = 1,
           NEW f, f = Fragment(track, shapes[i], After(a, shapes, i - 1).time,
                               After(a, shapes, i - 1).n, guess, hint)
    PROVE  /\ f \in PushedFragment /\ f.track = track
           /\ Fits(f, After(a, shapes, i - 1), After(a, shapes, i))
           /\ After(a, shapes, i - 1) \in Place /\ After(a, shapes, i) \in Place
<1> DEFINE x == After(a, shapes, i - 1)
           y == After(a, shapes, i)
           s == shapes[i]
           p == FlattenSeq(SubSeq(shapes, 1, i - 1))
           q == FlattenSeq(SubSeq(shapes, 1, i))
           ls == Len(s)
           d == [j \in 1 .. Len(s) |-> [n |-> x.n + j, sync |-> s[j].sync,
                                        dur |-> IF guess /\ j = Len(s) THEN hint ELSE s[j].dur]]
<1>1. p \in Seq(ShapeType) /\ q = p \o s /\ s \in Seq(ShapeType) BY FlattenUpTo
<1>2. a.n \in Nat /\ a.time \in Int BY DEF Place
<1>3. x = On(a, Len(p), Duration(p)) BY DEF After
<1>4. y = On(a, Len(q), Duration(q)) BY DEF After
<1>5. /\ f.track = track /\ f.time = x.time /\ f.guess = guess /\ f.samples = d
      /\ f = [track |-> track, time |-> x.time, guess |-> guess, samples |-> d]
  BY DEF Fragment
<1> HIDE DEF x, y, s, p, q
<1>6. Len(q) = Len(p) + Len(s) /\ Duration(q) = Duration(p) + Duration(s)
  BY <1>1, ConcatProperties, DurationOfBoth, ShapesTimed
<1>7. Len(p) \in Nat /\ Len(s) \in Nat BY <1>1
<1>8. Duration(p) \in Int /\ Duration(s) \in Int BY <1>1, DurationInt, ShapesTimed
<1>9. x \in Place BY <1>3, <1>7, <1>8, PlaceOn
<1>9a. x.n \in Nat /\ x.time \in Int BY <1>9 DEF Place
<1>10. y = On(x, Len(s), Duration(s))
  <2> DEFINE k == Len(p)
             e == Duration(p)
             l == Len(s)
             g == Duration(s)
  <2>1. k \in Nat /\ e \in Int /\ l \in Nat /\ g \in Int BY <1>7, <1>8
  <2>2. x = On(a, k, e) BY <1>3
  <2>3. y = On(a, k + l, e + g) BY <1>4, <1>6
  <2> HIDE DEF k, e, l, g
  <2>4. On(On(a, k, e), l, g) = On(a, k + l, e + g) BY <2>1, PlaceOnAgain
  <2>5. y = On(x, l, g) BY <2>2, <2>3, <2>4
  <2> QED BY <2>5 DEF l, g
<1>10a. y.n = x.n + Len(s) /\ y.time = x.time + Duration(s) BY <1>10 DEF On
<1>11. x \in Place BY <1>9
<1>12. y \in Place BY <1>7, <1>8, <1>9, <1>10, PlaceOn
\* Its samples.
<1>13. ASSUME NEW j \in 1 .. Len(s)
       PROVE  /\ d[j] \in Sample /\ d[j].n = x.n + j
              /\ (~guess => d[j].dur = s[j].dur)
  <2>1. s[j] \in ShapeType BY <1>1
  <2>2. s[j].sync \in BOOLEAN /\ s[j].dur \in Int BY <2>1 DEF ShapeType
  <2> DEFINE dur == IF guess /\ j = Len(s) THEN hint ELSE s[j].dur
             nn == x.n + j
  <2>3. dur \in Int BY <2>2
  <2>4. nn \in Nat BY <1>7, <1>9a
  <2>5. d[j] = [n |-> nn, sync |-> s[j].sync, dur |-> dur] OBVIOUS
  <2>6. ~guess => dur = s[j].dur OBVIOUS
  <2> HIDE DEF d, dur
  <2> QED BY <2>2, <2>3, <2>4, <2>5, <2>6 DEF Sample
<1>14. d \in Seq(Sample) /\ Len(d) = Len(s)
  <2>1. \A j \in 1 .. Len(s) : d[j] \in Sample BY <1>13
  <2> QED BY <1>7, <2>1
<1> HIDE DEF d
<1>15. f \in PushedFragment BY <1>5, <1>9a, <1>14 DEF PushedFragment
<1>16. d # <<>>
  <2>1. Len(s) # 0 BY <1>1 DEF s
  <2> QED BY <1>14, <2>1
<1>17. CASE guess
  <2>1. Len(d) = 1 BY <1>14, <1>17 DEF s
  <2>2. Fits(f, x, y) BY <1>5, <1>10a, <1>13, <1>14, <1>16, <1>17, <2>1 DEF Fits
  <2> QED BY <1>5, <1>11, <1>12, <1>15, <2>2 DEF x, y
<1>18. CASE ~guess
  <2>1. Duration(d) = Duration(s)
    <3>1. \A j \in 1 .. Len(d) : d[j].dur = s[j].dur BY <1>13, <1>14, <1>18
    <3> QED BY <1>1, <1>14, <3>1, SampleTimed, ShapesTimed, DurationLike
  <2>2. y.time = EndTime(f) BY <1>5, <1>10a, <2>1 DEF EndTime
  <2>3. Fits(f, x, y) BY <1>5, <1>10a, <1>13, <1>14, <1>16, <1>18, <2>2 DEF Fits
  <2> QED BY <1>5, <1>11, <1>12, <1>15, <2>3 DEF x, y
<1> QED BY <1>17, <1>18

\* The fragments of a buffer take it to the end of the buffer.
Row(a, track, shapes, guess, hint) ==
    [i \in 1 .. Len(shapes) |->
       Fragment(track, shapes[i], After(a, shapes, i - 1).time, After(a, shapes, i - 1).n,
                guess /\ i = 1, hint)]

LEMMA BufferFed ==
    ASSUME NEW here \in [Tracks -> Place], NEW track \in Tracks, NEW shapes \in Seq(Seq(ShapeType)),
           \A i \in 1 .. Len(shapes) : shapes[i] # <<>>, NEW guess \in BOOLEAN, NEW hint \in Int,
           guess => Len(shapes[1]) = 1,
           NEW list, list = Row(here[track], track, shapes, guess, hint)
    PROVE  /\ list \in Seq(PushedFragment)
           /\ Fed(list, here, [here EXCEPT ![track] = After(here[track], shapes, Len(shapes))])
<1> DEFINE a == here[track]
           len == Len(shapes)
           p == [i \in 0 .. len |-> [here EXCEPT ![track] = After(a, shapes, i)]]
<1>l. list = [i \in 1 .. len |->
                Fragment(track, shapes[i], After(a, shapes, i - 1).time, After(a, shapes, i - 1).n,
                         guess /\ i = 1, hint)]
  BY DEF Row
<1>0. len \in Nat /\ a \in Place OBVIOUS
<1>1. ASSUME NEW i \in 1 .. len
      PROVE  /\ list[i] \in PushedFragment /\ list[i].track = track
             /\ Fits(list[i], After(a, shapes, i - 1), After(a, shapes, i))
             /\ After(a, shapes, i - 1) \in Place /\ After(a, shapes, i) \in Place
  <2> DEFINE g == guess /\ i = 1
             f == list[i]
  <2>1. g \in BOOLEAN /\ (g => Len(shapes[i]) = 1) OBVIOUS
  <2>2. f = Fragment(track, shapes[i], After(a, shapes, i - 1).time, After(a, shapes, i - 1).n, g, hint)
    BY <1>l
  <2>3. shapes[i] # <<>> OBVIOUS
  <2> HIDE DEF g, f, a, len
  <2>4. i \in 1 .. Len(shapes) BY DEF len
  <2> QED BY <1>0, <2>1, <2>2, <2>3, <2>4, FragmentFits DEF f
<1>2. After(a, shapes, 0) = a BY <1>0, AfterNone
<1>3. \A i \in 0 .. len : After(a, shapes, i) \in Place
  <2> HIDE DEF a, len
  <2> TAKE i \in 0 .. len
  <2>1. CASE i = 0 BY <1>0, <1>2, <2>1
  <2>2. CASE i # 0
    <3>1. i \in 1 .. len BY <1>0, <2>2
    <3> QED BY <1>1, <3>1
  <2> QED BY <2>1, <2>2
<1>4. list \in Seq(PushedFragment) /\ Len(list) = len
  <2> HIDE DEF a
  <2>1. \A i \in 1 .. len : list[i] \in PushedFragment BY <1>1
  <2> QED BY <1>0, <1>l, <2>1
<1>5. p \in [0 .. len -> [Tracks -> Place]]
  <2> HIDE DEF a, len
  <2> QED BY <1>0, <1>3
<1>6. p[0] = here
  <2>0. 0 \in 0 .. len BY <1>0
  <2>1. p[0] = [here EXCEPT ![track] = After(a, shapes, 0)]
    <3> HIDE DEF a, len
    <3> QED BY <2>0
  <2>2. [here EXCEPT ![track] = a] = here OBVIOUS
  <2> HIDE DEF a, p, len
  <2> QED BY <1>2, <2>1, <2>2
<1>7. ASSUME NEW i \in 0 .. len
      PROVE  /\ p[i] = [here EXCEPT ![track] = After(a, shapes, i)] /\ p[i][track] = After(a, shapes, i)
  <2> HIDE DEF a, len
  <2> QED OBVIOUS
<1> HIDE DEF p, a, len
<1>8. ASSUME NEW i \in 1 .. len
      PROVE  /\ Fits(list[i], p[i - 1][list[i].track], p[i][list[i].track])
             /\ p[i] = [p[i - 1] EXCEPT ![list[i].track] = p[i][list[i].track]]
  <2> DEFINE h == i - 1
             b == After(a, shapes, h)
             c == After(a, shapes, i)
             f == list[i]
  <2>1. i \in 0 .. len /\ h \in 0 .. len BY <1>0
  <2>2. f.track = track /\ Fits(f, b, c) BY <1>1
  <2> HIDE DEF f, h
  <2>3. p[h] = [here EXCEPT ![track] = b] /\ p[h][track] = b BY <1>7, <2>1
  <2>4. p[i] = [here EXCEPT ![track] = c] /\ p[i][track] = c BY <1>7, <2>1
  <2> HIDE DEF b, c
  <2>5. p[i] = [p[h] EXCEPT ![track] = p[i][track]] BY <2>3, <2>4
  <2>6. Fits(f, p[h][f.track], p[i][f.track]) BY <2>2, <2>3, <2>4
  <2> QED BY <2>2, <2>5, <2>6 DEF f, h
<1>9. Feeding(list, p) BY <1>1, <1>4, <1>5, <1>8 DEF Feeding
<1>10. p[len] = [here EXCEPT ![track] = After(a, shapes, len)]
  <2>1. len \in 0 .. len BY <1>0
  <2> QED BY <1>7, <2>1
<1> QED BY <1>4, <1>6, <1>9, <1>10 DEF Fed, a, len

-----------------------------------------------------------------------------
(* The end of the stream. *)

\* build_segment leaves no video when it takes all of it.
LEMMA BuildAll ==
    ASSUME NEW rd \in ReaderType, NEW a, NEW final,
           NEW r, r = BuildSegment(rd, Len(rd.video), a, final), ~r.failed
    PROVE  r.video = <<>>
<1> DEFINE v == Len(rd.video)
           video == SubSeq(rd.video, 1, v)
           audio == SubSeq(rd.audio, 1, a)
           rest == SubSeq(rd.audio, a + 1, Len(rd.audio))
           built == [final |-> final, video |-> SamplesOf(video), audio |-> SamplesOf(audio),
                     media |-> Media(rd, video) \o Media(rd, audio)]
           end == IF v > 0 THEN EndTime(video[v]) ELSE rd.lastEnd
           count == IF v > 0 THEN rd.completed + 1 ELSE rd.completed
           none == SubSeq(rd.video, v + 1, Len(rd.video))
           m == [rd EXCEPT !.built = built, !.lastEnd = end, !.completed = count,
                           !.video = none, !.audio = rest]
<1>1. CASE ~Mergeable(video) \/ ~Mergeable(audio)
  <2>1. r = [rd EXCEPT !.failed = TRUE] BY <1>1 DEF BuildSegment
  <2>2. r.failed BY <2>1 DEF ReaderType
  <2> QED BY <2>2
<1>2. CASE ~(~Mergeable(video) \/ ~Mergeable(audio))
  <2>1. r = Reclaimed(m) BY <1>2 DEF BuildSegment
  <2>2. none = <<>>
    <3>1. v \in Nat
      <4>1. rd.video \in Seq(QueuedFragment) BY DEF ReaderType
      <4> QED BY <4>1
    <3> QED BY <3>1, SubSeqEmpty
  <2> HIDE DEF built, end, count, none, rest
  <2>3. m.video = <<>> /\ DOMAIN m = DOMAIN rd
    <3>1. m.video = none BY DEF ReaderType
    <3> QED BY <2>2, <3>1
  <2>4. {"video", "audio", "payload"} \subseteq DOMAIN m BY <2>3 DEF ReaderType
  <2> HIDE DEF m
  <2> DEFINE starts == {m.video[i].start : i \in 1 .. Len(m.video)}
                         \cup {m.audio[i].start : i \in 1 .. Len(m.audio)}
  <2>5. CASE starts = {}
    <3>1. Reclaimed(m) = [m EXCEPT !.payload = <<>>] BY <2>5 DEF Reclaimed
    <3> QED BY <2>1, <2>3, <2>4, <3>1
  <2>6. CASE starts # {}
    <3> DEFINE moved(queue) == Moved(queue, Min(starts))
               less == SubSeq(m.payload, Min(starts) + 1, Len(m.payload))
               mv == moved(m.video)
               ma == moved(m.audio)
    <3>1. Reclaimed(m) = [m EXCEPT !.payload = less, !.video = mv, !.audio = ma]
      BY <2>6 DEF Reclaimed, Moved
    <3>2. mv = <<>>
      <4>1. Len(m.video) = 0 /\ 1 .. 0 = {} BY <2>3
      <4> QED BY <4>1 DEF Moved
    <3> HIDE DEF less, mv, ma
    <3> QED BY <2>1, <2>4, <3>1, <3>2
  <2> QED BY <2>5, <2>6
<1> QED BY <1>1, <1>2

\* A track only goes on.
LEMMA ChainGrows ==
    ASSUME NEW queue \in Seq(QueuedFragment), NEW a, NEW b, Chain(queue, a, b)
    PROVE  a \in Place /\ b \in Place /\ a.n \in Nat /\ b.n \in Nat /\ a.n <= b.n
<1> DEFINE len == Len(queue)
<1>0. len \in Nat OBVIOUS
<1>1. PICK p : Path(queue, p) /\ p[0] = a /\ p[len] = b BY DEF Chain
<1>2. p \in [0 .. len -> Place] BY <1>1 DEF Path
<1>3. SamplesOf(queue) \in Seq(Sample) /\ Len(SamplesOf(queue)) = p[len].n - p[0].n
  BY <1>1, PathSamples
<1>4. Len(SamplesOf(queue)) \in Nat BY <1>3
<1> HIDE DEF len
<1>5. a \in Place /\ b \in Place
  <2>1. 0 \in 0 .. len /\ len \in 0 .. len BY <1>0
  <2> QED BY <1>1, <1>2, <2>1
<1>6. a.n \in Nat /\ b.n \in Nat BY <1>5 DEF Place
<1>7. b.n - a.n \in Nat BY <1>1, <1>3, <1>4
<1> QED BY <1>5, <1>6, <1>7

LEMMA ChainOfNone ==
    ASSUME NEW a \in Place
    PROVE  Chain(<<>>, a, a)
<1> DEFINE p == [i \in 0 .. 0 |-> a]
<1>1. p \in [0 .. 0 -> Place] /\ p[0] = a /\ Len(<<>>) = 0 /\ 1 .. 0 = {} OBVIOUS
<1> HIDE DEF p
<1>2. Path(<<>>, p) BY <1>1 DEF Path
<1> QED BY <1>1, <1>2 DEF Chain

\* What was queued of the audio can be given up when no video is left.
LEMMA CutAudio ==
    ASSUME NEW rd, NEW from \in [Tracks -> Nat], NEW here \in [Tracks -> Place], Cut(rd, from, here),
           rd.video = <<>>, NEW r, r = [rd EXCEPT !.audio = <<>>, !.payload = <<>>]
    PROVE  /\ \E begin \in [Tracks -> Nat] : Cut(r, begin, here)
           /\ r.deferred = rd.deferred
<1>1. PICK first \in [Tracks -> Place] :
        Holding(rd, first, here) /\ \A t \in Tracks : first[t].n = from[t] + Len(rd.built[t])
  BY DEF Cut
<1>2. rd \in ReaderType /\ Listed(rd.built) BY DEF Cut
<1>3. r \in ReaderType
  <2>1. <<>> \in Seq(QueuedFragment) /\ <<>> \in Seq(Units) OBVIOUS
  <2> QED BY <1>2, <2>1 DEF ReaderType
<1>4. /\ r.audio = <<>> /\ r.payload = <<>> /\ r.video = <<>> /\ r.deferred = rd.deferred
      /\ r.built = rd.built
  BY <1>2 DEF ReaderType
<1>5. "video" \in Tracks /\ "audio" \in Tracks BY DEF Tracks
<1> DEFINE l == Len(rd.built["audio"])
           next == [first EXCEPT !["audio"] = here["audio"]]
           begin == [from EXCEPT !["audio"] = here["audio"].n - l]
<1>6. here["audio"] \in Place /\ from["audio"] \in Nat BY <1>5
<1>7. Chain(rd.audio, first["audio"], here["audio"]) /\ rd.audio \in Seq(QueuedFragment)
  BY <1>1, <1>2 DEF Holding, ReaderType
<1>8. /\ first["audio"].n \in Nat /\ here["audio"].n \in Nat
      /\ first["audio"].n <= here["audio"].n
  BY <1>7, ChainGrows
<1>9. l \in Nat
  <2>1. rd.built \in SegmentType BY <1>2 DEF ReaderType
  <2>2. rd.built.audio \in Seq(Sample) BY <2>1 DEF SegmentType
  <2> QED BY <2>2
<1>10. here["audio"].n - l \in Nat /\ here["audio"].n = (here["audio"].n - l) + l
  <2> DEFINE h == here["audio"].n
             f == first["audio"].n
             b == from["audio"]
  <2>1. f = b + l BY <1>1, <1>5
  <2>2. f \in Nat /\ h \in Nat /\ f <= h /\ b \in Nat BY <1>6, <1>8
  <2> HIDE DEF h, f, b, l
  <2>3. h - l \in Nat /\ h = (h - l) + l BY <1>9, <2>1, <2>2
  <2> QED BY <2>3 DEF h
<1>11. begin \in [Tracks -> Nat] BY <1>10
<1>12. next \in [Tracks -> Place] /\ next["audio"] = here["audio"] /\ next["video"] = first["video"]
  BY <1>5, <1>6
<1>13. begin["audio"] = here["audio"].n - l /\ begin["video"] = from["video"] BY <1>5
<1> HIDE DEF next, begin
<1>14. Holding(r, next, here)
  <2>1. Stored(<<>>, <<>>, "audio") /\ Stored(<<>>, <<>>, "video") BY DEF Stored
  <2>2. Chain(<<>>, here["audio"], here["audio"]) BY <1>6, ChainOfNone
  <2>3. Chain(<<>>, first["video"], here["video"]) BY <1>1 DEF Holding
  <2> QED BY <1>4, <1>12, <2>1, <2>2, <2>3 DEF Holding
<1>15. \A t \in Tracks : next[t].n = begin[t] + Len(r.built[t])
  <2>1. next["audio"].n = begin["audio"] + Len(r.built["audio"]) BY <1>4, <1>10, <1>12, <1>13
  <2>2. next["video"].n = begin["video"] + Len(r.built["video"]) BY <1>1, <1>4, <1>5, <1>12, <1>13
  <2> QED BY <2>1, <2>2 DEF Tracks
<1>16. Cut(r, begin, here) BY <1>2, <1>3, <1>4, <1>12, <1>14, <1>15 DEF Cut
<1> QED BY <1>4, <1>11, <1>16

\* try_build_end_of_stream_remainder.
LEMMA RemainderKeeps ==
    ASSUME NEW rd, NEW from \in [Tracks -> Nat], NEW here \in [Tracks -> Place], Cut(rd, from, here)
    PROVE  /\ \E begin \in [Tracks -> Nat] : Cut(Remainder(rd), begin, here)
           /\ Remainder(rd).deferred = rd.deferred
<1> DEFINE r == Remainder(rd)
           idle == (rd.video = <<>> /\ rd.audio = <<>>) \/ (rd.video # <<>> /\ ~rd.video[1].samples[1].sync)
           v == Len(rd.video)
           selected == SelectAudio(rd, EndTime(rd.video[v]))
           chosen == IF v = 0 \/ rd.audio = <<>> THEN [audio |-> rd.audio, count |-> 0] ELSE selected
           a == IF chosen.count > 0 THEN chosen.count ELSE Len(rd.audio)
           m == [rd EXCEPT !.audio = chosen.audio]
           done == BuildSegment(m, v, a, TRUE)
           short == [done EXCEPT !.audio = <<>>, !.payload = <<>>]
<1>0. rd \in ReaderType BY DEF Cut
<1>0a. rd.audio \in Seq(QueuedFragment) /\ rd.video \in Seq(QueuedFragment) BY <1>0 DEF ReaderType
<1>0b. Len(rd.audio) \in Nat /\ v \in Nat BY <1>0a
<1>1. CASE idle
  <2>1. r = rd BY <1>1 DEF Remainder
  <2> QED BY <2>1
<1>2. CASE ~idle
  <2>1. r = IF v > 0 /\ ~done.failed THEN short ELSE done BY <1>2 DEF Remainder
  <2>2. PICK first \in [Tracks -> Place] :
          Holding(rd, first, here) /\ \A t \in Tracks : first[t].n = from[t] + Len(rd.built[t])
    BY DEF Cut
  <2> HIDE DEF r, idle, selected, done, short
  <2>3. /\ m \in ReaderType /\ Holding(m, first, here)
        /\ m.video = rd.video /\ m.deferred = rd.deferred /\ a \in 0 .. Len(m.audio)
    <3>1. CASE v = 0 \/ rd.audio = <<>>
      <4>1. chosen = [audio |-> rd.audio, count |-> 0] BY <3>1
      <4> HIDE DEF chosen
      <4>2. m = rd BY <1>0, <4>1 DEF ReaderType
      <4>3. a = Len(rd.audio) BY <4>1
      <4> HIDE DEF m, a
      <4> QED BY <1>0, <1>0b, <2>2, <4>2, <4>3
    <3>2. CASE ~(v = 0 \/ rd.audio = <<>>)
      <4>1. chosen = selected BY <3>2
      <4> HIDE DEF chosen
      <4>2. /\ m \in ReaderType /\ Holding(m, first, here)
            /\ chosen.count \in 0 .. Len(m.audio) /\ m.audio = chosen.audio
            /\ m.video = rd.video /\ m.deferred = rd.deferred
        BY <1>0, <2>2, <4>1, SelectAudioKeeps DEF selected
      <4>3. chosen.count = 0 => chosen.audio = rd.audio
        <5>1. \/ chosen = [audio |-> rd.audio, count |-> 0]
              \/ \E i \in 1 .. Len(rd.audio) :
                   \/ chosen = [audio |-> rd.audio, count |-> i]
                   \/ \E n \in 1 .. Len(rd.audio[i].samples) - 1 :
                        chosen = [audio |-> SplitAt(rd.audio, i, n), count |-> i]
          BY <1>0, <4>1, SelectAudioIs DEF selected
        <5> QED BY <1>0b, <5>1
      <4> HIDE DEF m
      <4>4. a \in 0 .. Len(m.audio)
        <5>1. CASE chosen.count > 0
          <6>1. a = chosen.count BY <5>1
          <6> QED BY <4>2, <6>1
        <5>2. CASE ~(chosen.count > 0)
          <6>1. a = Len(rd.audio) BY <5>2
          <6>2. chosen.count = 0
            <7>1. m.audio \in Seq(QueuedFragment) BY <4>2 DEF ReaderType
            <7>2. Len(m.audio) \in Nat BY <7>1
            <7> QED BY <4>2, <5>2, <7>2
          <6> HIDE DEF a
          <6> QED BY <1>0b, <4>2, <4>3, <6>1, <6>2
        <5> QED BY <5>1, <5>2
      <4> QED BY <4>2, <4>4
    <3> QED BY <3>1, <3>2
  <2> DEFINE begin == [t \in Tracks |-> first[t].n]
  <2>4. begin \in [Tracks -> Nat]
    <3>1. \A t \in Tracks : first[t] \in Place OBVIOUS
    <3>2. \A t \in Tracks : first[t].n \in Nat BY <3>1 DEF Place
    <3> QED BY <3>2
  <2> HIDE DEF m, a
  <2>5. Cut(done, begin, here) /\ done.deferred = rd.deferred
    <3>1. v \in 0 .. Len(m.video) BY <1>0b, <2>3
    <3>2. TRUE \in BOOLEAN OBVIOUS
    <3> HIDE DEF v
    <3>3. Cut(done, [t \in Tracks |-> first[t].n], here) /\ done.deferred = m.deferred
      BY <2>3, <3>1, <3>2, BuildKeeps DEF done
    <3> QED BY <2>3, <3>3
  <2> HIDE DEF begin
  <2>6. CASE v > 0 /\ ~done.failed
    <3>1. done.video = <<>>
      <4>1. done = BuildSegment(m, Len(m.video), a, TRUE) BY <2>3 DEF done
      <4> QED BY <2>3, <2>6, <4>1, BuildAll
    <3>2. r = short BY <2>1, <2>6
    <3>3. (\E b \in [Tracks -> Nat] : Cut(short, b, here)) /\ short.deferred = done.deferred
      BY <2>4, <2>5, <3>1, CutAudio DEF short
    <3> QED BY <2>5, <3>2, <3>3 DEF r
  <2>7. CASE ~(v > 0 /\ ~done.failed)
    <3>1. r = done BY <2>1, <2>7
    <3> QED BY <2>4, <2>5, <3>1 DEF r
  <2> QED BY <2>6, <2>7
<1> QED BY <1>1, <1>2

-----------------------------------------------------------------------------
(* The muxer and the reader. *)

\* How far the muxer is.
Muxed == [t \in Tracks |-> [n |-> made[t], time |-> clock[t]]]

\* What was muxed is in the segments that were taken, queued, or deferred.
Accounted(from) ==
    \E mid \in [Tracks -> Place] : Cut(reader, from, mid) /\ Fed(reader.deferred, mid, Muxed)

MuxInv ==
    /\ made \in [Tracks -> Nat] /\ clock \in [Tracks -> Int] /\ sent \in [Tracks -> Nat]
    /\ ended \in BOOLEAN
    /\ Listed(taken) /\ reader.built = NoSegment
    /\ \E from \in [Tracks -> Nat] : Accounted(from) /\ (~ended => from = sent)

LEMMA MuxStart == MuxInit => MuxInv
<1> SUFFICES ASSUME MuxInit PROVE MuxInv OBVIOUS
<1> DEFINE zero == [t \in Tracks |-> 0]
           origin == [t \in Tracks |-> [n |-> 0, time |-> 0]]
<1>1. zero \in [Tracks -> Nat] /\ zero \in [Tracks -> Int] OBVIOUS
<1>2. origin \in [Tracks -> Place]
  <2>1. [n |-> 0, time |-> 0] \in Place BY DEF Place
  <2> QED BY <2>1
<1>3. made = zero /\ clock = zero /\ sent = zero /\ ended = FALSE /\ taken = NoSegment BY DEF MuxInit
<1>4. Muxed = origin BY <1>3 DEF Muxed
<1>5. Listed(NoSegment) /\ NoSegment \in SegmentType BY NothingListed
<1>6. reader \in ReaderType
  <2>1. /\ <<>> \in Seq(QueuedFragment) /\ <<>> \in Seq(Units) /\ <<>> \in Seq(PushedFragment)
    OBVIOUS
  <2> QED BY <1>1, <1>5, <2>1 DEF MuxInit, ReaderType
<1>7. /\ reader.video = <<>> /\ reader.audio = <<>> /\ reader.payload = <<>>
      /\ reader.deferred = <<>> /\ reader.built = NoSegment
  BY DEF MuxInit
<1>8. "video" \in Tracks /\ "audio" \in Tracks BY DEF Tracks
<1>9. \A t \in Tracks : origin[t].n = zero[t] + Len(NoSegment[t])
  <2>1. Len(NoSegment["video"]) = 0 /\ Len(NoSegment["audio"]) = 0 BY DEF NoSegment
  <2>2. \A t \in Tracks : origin[t].n = 0 /\ zero[t] = 0 OBVIOUS
  <2> HIDE DEF origin, zero
  <2> QED BY <2>1, <2>2 DEF Tracks
<1> HIDE DEF zero, origin
<1>10. Holding(reader, origin, origin)
  <2>1. origin["video"] \in Place /\ origin["audio"] \in Place BY <1>2, <1>8
  <2>2. Chain(<<>>, origin["video"], origin["video"]) /\ Chain(<<>>, origin["audio"], origin["audio"])
    BY <2>1, ChainOfNone
  <2>3. Stored(<<>>, <<>>, "audio") /\ Stored(<<>>, <<>>, "video") BY DEF Stored
  <2> QED BY <1>7, <2>2, <2>3 DEF Holding
<1>11. Cut(reader, zero, origin) BY <1>2, <1>5, <1>6, <1>7, <1>9, <1>10 DEF Cut
<1>12. Fed(<<>>, origin, origin) BY <1>2, FedEmpty
<1>13. Accounted(zero) BY <1>2, <1>4, <1>7, <1>11, <1>12 DEF Accounted
<1> QED BY <1>1, <1>3, <1>5, <1>7, <1>13 DEF MuxInv

\* The segment is taken.
LEMMA TookKeeps ==
    ASSUME NEW now, NEW from \in [Tracks -> Nat], NEW here, Cut(now, from, here),
           sent \in [Tracks -> Nat], Listed(taken), Took(now)
    PROVE  /\ sent' \in [Tracks -> Nat] /\ Listed(taken)' /\ reader'.built = NoSegment
           /\ reader'.deferred = now.deferred
           /\ \E begin \in [Tracks -> Nat] :
                Cut(reader', begin, here) /\ (from = sent => begin = sent')
<1> DEFINE r == [now EXCEPT !.built = NoSegment]
           begin == [t \in Tracks |-> from[t] + Len(now.built[t])]
<1>1. now \in ReaderType /\ Listed(now.built) BY DEF Cut
<1>2. PICK first \in [Tracks -> Place] :
        Holding(now, first, here) /\ \A t \in Tracks : first[t].n = from[t] + Len(now.built[t])
  BY DEF Cut
<1>3. reader' = r /\ taken' = (IF now.built = NoSegment THEN taken ELSE now.built) BY DEF Took
<1>4. Listed(taken)' BY <1>1, <1>3 DEF Listed
<1>5. \A t \in Tracks : Len(now.built[t]) \in Nat
  <2>1. now.built \in SegmentType BY <1>1 DEF ReaderType
  <2>2. now.built.video \in Seq(Sample) /\ now.built.audio \in Seq(Sample) BY <2>1 DEF SegmentType
  <2> QED BY <2>2 DEF Tracks
<1>6. sent' = [t \in Tracks |-> sent[t] + Len(now.built[t])] BY DEF Took
<1>7. sent' \in [Tracks -> Nat] BY <1>5, <1>6
<1>8. begin \in [Tracks -> Nat] BY <1>5
<1>9. from = sent => begin = sent' BY <1>6
<1>10. r \in ReaderType BY <1>1, NothingListed DEF ReaderType
<1>11. /\ r.built = NoSegment /\ r.deferred = now.deferred /\ r.video = now.video
       /\ r.audio = now.audio /\ r.payload = now.payload
  BY <1>1 DEF ReaderType
<1>12. \A t \in Tracks : first[t].n = begin[t] + Len(r.built[t])
  <2>1. Len(NoSegment["video"]) = 0 /\ Len(NoSegment["audio"]) = 0 BY DEF NoSegment
  <2>2. \A t \in Tracks : begin[t] = first[t].n BY <1>2
  <2>3. \A t \in Tracks : begin[t] \in Nat BY <1>8
  <2> HIDE DEF begin, r
  <2> QED BY <1>11, <2>1, <2>2, <2>3 DEF Tracks
<1> HIDE DEF r, begin
<1>13. Holding(r, first, here) BY <1>2, <1>11 DEF Holding
<1>14. Cut(r, begin, here) BY <1>10, <1>11, <1>12, <1>13, NothingListed DEF Cut
<1> QED BY <1>3, <1>4, <1>7, <1>8, <1>9, <1>11, <1>14

\* A buffer.
LEMMA PushKeeps ==
    ASSUME MuxInv, NEW track \in Tracks, NEW guess \in BOOLEAN, NEW n \in Buffers,
           NEW shapes \in [1 .. n -> Shapes[track]], Push(track, shapes, guess)
    PROVE  MuxInv'
<1> DEFINE all == FlattenSeq(shapes)
           offset(i) == Duration(FlattenSeq(SubSeq(shapes, 1, i - 1)))
           count(i) == Len(FlattenSeq(SubSeq(shapes, 1, i - 1)))
           list == [i \in 1 .. Len(shapes) |->
                      Fragment(track, shapes[i], clock[track] + offset(i), made[track] + count(i),
                               guess /\ i = 1, reader.hint[track])]
           now == PushedBytes(reader, list)
           a == Muxed[track]
           there == [Muxed EXCEPT ![track] = After(a, shapes, Len(shapes))]
<1>1. /\ guess => Len(shapes[1]) = 1
      /\ Took(now) /\ clock' = [clock EXCEPT ![track] = @ + Duration(all)]
      /\ made' = [made EXCEPT ![track] = @ + Len(all)]
      /\ ended' = ended
  BY DEF Push
<1>1a. ~ended BY DEF Push
<1>2. /\ made \in [Tracks -> Nat] /\ clock \in [Tracks -> Int] /\ sent \in [Tracks -> Nat]
      /\ Listed(taken) /\ reader.built = NoSegment
  BY DEF MuxInv
<1>3. PICK from \in [Tracks -> Nat] : Accounted(from) /\ from = sent BY <1>1a DEF MuxInv
<1>4. PICK mid \in [Tracks -> Place] : Cut(reader, from, mid) /\ Fed(reader.deferred, mid, Muxed)
  BY <1>3 DEF Accounted
\* Its fragments.
<1>5. /\ n \in Nat /\ shapes \in Seq(Seq(ShapeType)) /\ Len(shapes) = n
      /\ \A i \in 1 .. Len(shapes) : shapes[i] # <<>>
  <2>1. n \in Nat BY MuxerConstants
  <2>2. \A x \in Shapes[track] : x \in Seq(ShapeType) /\ x # <<>> BY MuxerConstants DEF ShapeType
  <2>3. \A i \in 1 .. n : shapes[i] \in Seq(ShapeType) /\ shapes[i] # <<>> BY <2>2
  <2>4. shapes \in Seq(Seq(ShapeType)) /\ Len(shapes) = n
    <3>1. shapes \in [1 .. n -> Seq(ShapeType)] BY <2>3
    <3> QED BY <2>1, <3>1
  <2> QED BY <2>1, <2>3, <2>4
<1>6. Muxed \in [Tracks -> Place] /\ a = [n |-> made[track], time |-> clock[track]] /\ a \in Place
  <2>1. \A t \in Tracks : [n |-> made[t], time |-> clock[t]] \in Place BY <1>2 DEF Place
  <2>2. a = [n |-> made[track], time |-> clock[track]] BY DEF Muxed
  <2>3. Muxed \in [Tracks -> Place] BY <2>1 DEF Muxed
  <2> QED BY <2>1, <2>2, <2>3
<1>7. reader.hint[track] \in Int BY <1>4 DEF Cut, ReaderType
<1>8. list = [i \in 1 .. Len(shapes) |->
                Fragment(track, shapes[i], After(a, shapes, i - 1).time,
                         After(a, shapes, i - 1).n, guess /\ i = 1, reader.hint[track])]
  <2>1. ASSUME NEW i
        PROVE  /\ After(a, shapes, i - 1).time = clock[track] + offset(i)
               /\ After(a, shapes, i - 1).n = made[track] + count(i)
    <3> HIDE DEF a
    <3> QED BY <1>6 DEF After, On
  <2> HIDE DEF a, offset, count
  <2> QED BY <2>1, Zenon
<1> HIDE DEF list, now, a
<1>9. list \in Seq(PushedFragment) /\ Fed(list, Muxed, there)
  <2> DEFINE hint == reader.hint[track]
             here == Muxed
  <2>1. hint \in Int /\ here \in [Tracks -> Place] BY <1>6, <1>7
  <2>2. list = Row(here[track], track, shapes, guess, hint) BY <1>8 DEF a, Row
  <2>3. there = [here EXCEPT ![track] = After(here[track], shapes, Len(shapes))] BY DEF a
  <2> HIDE DEF hint, here, there
  <2>4. /\ list \in Seq(PushedFragment)
        /\ Fed(list, here, [here EXCEPT ![track] = After(here[track], shapes, Len(shapes))])
    BY <1>1, <1>5, <2>1, <2>2, BufferFed
  <2> QED BY <2>3, <2>4 DEF here
\* Where the muxer is after them.
<1>10. all \in Seq(ShapeType) /\ Len(all) \in Nat /\ Duration(all) \in Int
  <2>1. all \in Seq(ShapeType) BY <1>5, FlattenType
  <2> HIDE DEF all
  <2> QED BY <2>1, ShapesTimed, DurationInt
<1>11. After(a, shapes, Len(shapes)) = [n |-> made[track] + Len(all), time |-> clock[track] + Duration(all)]
  <2>1. SubSeq(shapes, 1, Len(shapes)) = shapes BY <1>5, SubSeqFull
  <2> QED BY <1>6, <2>1 DEF After, On
<1> HIDE DEF all
<1>12. made' \in [Tracks -> Nat] /\ clock' \in [Tracks -> Int] BY <1>1, <1>2, <1>10
<1>13. Muxed' = there
  <2>1. Muxed' = [t \in Tracks |-> [n |-> made'[t], time |-> clock'[t]]] BY DEF Muxed
  <2>2. ASSUME NEW t \in Tracks PROVE there[t] = [n |-> made'[t], time |-> clock'[t]]
    <3>1. CASE t = track
      <4>1. there[t] = After(a, shapes, Len(shapes)) BY <1>6, <3>1
      <4>2. made'[t] = made[track] + Len(all) /\ clock'[t] = clock[track] + Duration(all)
        BY <1>1, <1>2, <3>1
      <4> QED BY <1>11, <4>1, <4>2
    <3>2. CASE t # track
      <4>1. there[t] = Muxed[t] BY <1>6, <3>2
      <4>2. Muxed[t] = [n |-> made[t], time |-> clock[t]] BY DEF Muxed
      <4>3. made'[t] = made[t] /\ clock'[t] = clock[t] BY <1>1, <1>2, <3>2
      <4> QED BY <4>1, <4>2, <4>3
    <3> QED BY <3>1, <3>2
  <2>3. there = [t \in Tracks |-> there[t]] BY <1>6
  <2> HIDE DEF there
  <2> QED BY <2>1, <2>2, <2>3
<1> HIDE DEF there
\* And the reader.
<1>14. Reading(now, from, there)
  <2> DEFINE rd == reader
             here == Muxed
  <2>1. /\ Cut(rd, from, mid) /\ rd.built = NoSegment /\ Fed(rd.deferred, mid, here)
        /\ Fed(list, here, there) /\ now = PushedBytes(rd, list)
    BY <1>2, <1>4, <1>9 DEF now
  <2> HIDE DEF rd, here
  <2> QED BY <1>9, <2>1, PushedKeeps
<1>15. PICK mid2 \in [Tracks -> Place] : Cut(now, from, mid2) /\ Fed(now.deferred, mid2, there)
  BY <1>14 DEF Reading
<1>16. /\ sent' \in [Tracks -> Nat] /\ Listed(taken)' /\ reader'.built = NoSegment
       /\ reader'.deferred = now.deferred
       /\ \E begin \in [Tracks -> Nat] :
            Cut(reader', begin, mid2) /\ (from = sent => begin = sent')
  BY <1>1, <1>2, <1>15, TookKeeps
<1>17. Accounted(sent)'
  <2>1. Cut(reader', sent', mid2) BY <1>3, <1>16
  <2>2. Fed(reader'.deferred, mid2, Muxed') BY <1>13, <1>15, <1>16
  <2> QED BY <2>1, <2>2 DEF Accounted
<1>18. ended' \in BOOLEAN BY <1>1 DEF MuxInv
<1> QED BY <1>12, <1>16, <1>17, <1>18 DEF MuxInv

\* A request after the end of the stream.
LEMMA DrainKeeps ==
    ASSUME MuxInv, Drain
    PROVE  MuxInv'
<1> DEFINE now == ProcessDeferred(reader)
           done == IF Stopped(now) THEN now ELSE Remainder(now)
<1>1. /\ Took(done) /\ made' = made /\ clock' = clock /\ ended' = ended /\ ended BY DEF Drain
<1>2. /\ made \in [Tracks -> Nat] /\ clock \in [Tracks -> Int] /\ sent \in [Tracks -> Nat]
      /\ Listed(taken) /\ reader.built = NoSegment
  BY DEF MuxInv
<1>3. PICK from \in [Tracks -> Nat] : Accounted(from) BY DEF MuxInv
<1>4. PICK mid \in [Tracks -> Place] : Cut(reader, from, mid) /\ Fed(reader.deferred, mid, Muxed)
  BY <1>3 DEF Accounted
<1>5. Muxed \in [Tracks -> Place]
  <2>1. \A t \in Tracks : [n |-> made[t], time |-> clock[t]] \in Place BY <1>2 DEF Place
  <2> QED BY <2>1 DEF Muxed
<1> HIDE DEF now, done
<1>6. Reading(now, from, Muxed)
  <2> DEFINE rd == reader
             here == Muxed
             none == <<>>
  <2>1. Fed(none, here, here) /\ none \in Seq(PushedFragment) BY <1>5, FedEmpty
  <2>2. /\ Cut(rd, from, mid) /\ rd.built = NoSegment /\ Fed(rd.deferred, mid, here)
        /\ now = PushedBytes(rd, none)
    BY <1>2, <1>4 DEF now, ProcessDeferred
  <2> HIDE DEF rd, here, none
  <2>3. Reading(now, from, here) BY <2>1, <2>2, PushedKeeps
  <2> QED BY <2>3 DEF here
<1>7. PICK mid2 \in [Tracks -> Place] : Cut(now, from, mid2) /\ Fed(now.deferred, mid2, Muxed)
  BY <1>6 DEF Reading
<1>8. (\E begin \in [Tracks -> Nat] : Cut(done, begin, mid2)) /\ done.deferred = now.deferred
  <2>1. CASE Stopped(now)
    <3>1. done = now BY <2>1 DEF done
    <3> QED BY <1>7, <3>1
  <2>2. CASE ~Stopped(now)
    <3>1. done = Remainder(now) BY <2>2 DEF done
    <3> QED BY <1>7, <3>1, RemainderKeeps
  <2> QED BY <2>1, <2>2
<1>9. PICK begin \in [Tracks -> Nat] : Cut(done, begin, mid2) BY <1>8
<1>10. /\ sent' \in [Tracks -> Nat] /\ Listed(taken)' /\ reader'.built = NoSegment
       /\ reader'.deferred = done.deferred
       /\ \E b \in [Tracks -> Nat] : Cut(reader', b, mid2) /\ (begin = sent => b = sent')
  BY <1>1, <1>2, <1>9, TookKeeps
<1>11. PICK b \in [Tracks -> Nat] : Cut(reader', b, mid2) BY <1>10
<1>12. Muxed' = Muxed BY <1>1 DEF Muxed
<1>13. Accounted(b)'
  <2>1. Fed(reader'.deferred, mid2, Muxed') BY <1>7, <1>8, <1>10, <1>12
  <2> QED BY <1>11, <2>1 DEF Accounted
<1>14. made' \in [Tracks -> Nat] /\ clock' \in [Tracks -> Int] /\ ended' \in BOOLEAN /\ ended'
  BY <1>1, <1>2 DEF MuxInv
<1> QED BY <1>10, <1>13, <1>14 DEF MuxInv

LEMMA MuxStep == MuxInv /\ [MuxNext]_muxVars => MuxInv'
<1> SUFFICES ASSUME MuxInv, [MuxNext]_muxVars PROVE MuxInv' OBVIOUS
<1>1. ASSUME NEW track \in Tracks, NEW guess \in BOOLEAN, NEW n \in Buffers,
             NEW shapes \in [1 .. n -> Shapes[track]], Push(track, shapes, guess)
      PROVE  MuxInv'
  BY <1>1, PushKeeps
<1>2. CASE EndOfStream
  <2>1. /\ reader' = reader /\ taken' = taken /\ made' = made /\ clock' = clock /\ sent' = sent
        /\ ended' = TRUE
    BY <1>2 DEF EndOfStream
  <2>2. \A from : Accounted(from) => Accounted(from)' BY <2>1 DEF Accounted, Muxed
  <2>3. Listed(taken)' BY <2>1 DEF MuxInv, Listed
  <2> QED BY <2>1, <2>2, <2>3 DEF MuxInv
<1>3. CASE Drain BY <1>3, DrainKeeps
<1>4. CASE UNCHANGED muxVars
  <2>1. /\ reader' = reader /\ taken' = taken /\ made' = made /\ clock' = clock /\ sent' = sent
        /\ ended' = ended
    BY <1>4 DEF muxVars
  <2>2. \A from : Accounted(from) => Accounted(from)' BY <2>1 DEF Accounted, Muxed
  <2>3. Listed(taken)' BY <2>1 DEF MuxInv, Listed
  <2> QED BY <2>1, <2>2, <2>3 DEF MuxInv
<1> QED BY <1>1, <1>2, <1>3, <1>4 DEF MuxNext

-----------------------------------------------------------------------------
(* What the invariant says. *)

DeferredOf(list, t) ==
    FlattenSeq([i \in 1 .. Len(list) |-> IF list[i].track = t THEN list[i].samples ELSE <<>>])

\* The deferred samples of a track are the ones between its places.
LEMMA DeferredSamples ==
    ASSUME NEW list \in Seq(PushedFragment), NEW a, NEW b, Fed(list, a, b), NEW t \in Tracks
    PROVE  /\ a[t] \in Place /\ b[t] \in Place
           /\ DeferredOf(list, t) \in Seq(Sample)
           /\ Len(DeferredOf(list, t)) = b[t].n - a[t].n
           /\ \A x \in 1 .. Len(DeferredOf(list, t)) : DeferredOf(list, t)[x].n = a[t].n + x
<1> DEFINE len == Len(list)
           part(i) == IF list[i].track = t THEN list[i].samples ELSE <<>>
           parts == [i \in 1 .. len |-> part(i)]
<1>0. len \in Nat OBVIOUS
<1>1. PICK p : Feeding(list, p) /\ p[0] = a /\ p[len] = b BY DEF Fed
<1>2. p \in [0 .. len -> [Tracks -> Place]] BY <1>1 DEF Feeding
<1>3. ASSUME NEW i \in 1 .. len
      PROVE  /\ list[i] \in PushedFragment
             /\ Fits(list[i], p[i - 1][list[i].track], p[i][list[i].track])
             /\ p[i] = [p[i - 1] EXCEPT ![list[i].track] = p[i][list[i].track]]
  BY <1>1 DEF Feeding
<1> DEFINE c == [i \in 0 .. len |-> p[i][t].n]
<1>4. DeferredOf(list, t) = FlattenSeq(parts) BY DEF DeferredOf
<1> HIDE DEF len
<1>5. \A i \in 0 .. len : p[i][t] \in Place BY <1>2
<1>6. \A i \in 0 .. len : p[i][t].n \in Nat BY <1>5 DEF Place
<1>7. ASSUME NEW i \in 1 .. len
      PROVE  /\ part(i) \in Seq(Sample) /\ p[i][t].n = p[i - 1][t].n + Len(part(i))
             /\ \A j \in 1 .. Len(part(i)) : part(i)[j].n = p[i - 1][t].n + j
  <2> DEFINE f == list[i]
             h == i - 1
  <2>1. f \in PushedFragment /\ Fits(f, p[h][f.track], p[i][f.track])
          /\ p[i] = [p[h] EXCEPT ![f.track] = p[i][f.track]]
    BY <1>3
  <2>2. f.samples \in Seq(Sample) BY <2>1 DEF PushedFragment
  <2>3. h \in 0 .. len /\ i \in 0 .. len BY <1>0
  <2>4. part(i) = IF f.track = t THEN f.samples ELSE <<>> OBVIOUS
  <2> HIDE DEF f, h, part
  <2>5. CASE f.track = t
    <3>1. part(i) = f.samples BY <2>4, <2>5
    <3>2. Fits(f, p[h][t], p[i][t]) BY <2>1, <2>5
    <3>3. /\ p[i][t].n = p[h][t].n + Len(f.samples)
          /\ \A j \in 1 .. Len(f.samples) : f.samples[j].n = p[h][t].n + j
      BY <3>2 DEF Fits
    <3> QED BY <2>2, <3>1, <3>3 DEF h
  <2>6. CASE f.track # t
    <3>1. part(i) = <<>> /\ <<>> \in Seq(Sample) /\ Len(<<>>) = 0 /\ 1 .. 0 = {} BY <2>4, <2>6
    <3>2. p[h] \in [Tracks -> Place] BY <1>2, <2>3
    <3>3. p[i][t] = p[h][t]
      <4> DEFINE x == p[i][f.track]
      <4>1. p[i] = [p[h] EXCEPT ![f.track] = x] BY <2>1
      <4> HIDE DEF x
      <4> QED BY <2>6, <3>2, <4>1
    <3>4. p[h][t].n + 0 = p[h][t].n BY <1>6, <2>3
    <3> QED BY <3>1, <3>3, <3>4 DEF h
  <2> QED BY <2>5, <2>6
<1>8. \A i \in 1 .. len : parts[i] = part(i) OBVIOUS
<1>9. parts \in Seq(Seq(Sample)) /\ Len(parts) = len
  <2> HIDE DEF part
  <2>1. \A i \in 1 .. len : part(i) \in Seq(Sample) BY <1>7
  <2> QED BY <1>0, <2>1
<1> HIDE DEF part, parts
<1>10. Offsets(c, parts)
  <2>1. c \in [0 .. len -> Int] BY <1>6
  <2>2. ASSUME NEW i \in 1 .. len PROVE c[i] = c[i - 1] + Len(parts[i])
    <3>1. i \in 0 .. len /\ i - 1 \in 0 .. len BY <1>0
    <3>2. c[i] = p[i][t].n /\ c[i - 1] = p[i - 1][t].n BY <3>1
    <3> QED BY <1>7, <1>8, <3>2
  <2> HIDE DEF c
  <2> QED BY <1>9, <2>1, <2>2 DEF Offsets
<1>11. \A i \in 0 .. len : c[i] = p[i][t].n /\ c[i] \in Nat BY <1>6
<1> DEFINE all == FlattenSeq(parts)
<1> HIDE DEF c
<1>12. all \in Seq(Sample) /\ InRow(all, parts, c) BY <1>9, <1>10, FlattenAt
<1> HIDE DEF all
<1>13. c[0] = a[t].n /\ c[len] = b[t].n /\ a[t] \in Place /\ b[t] \in Place
  <2>1. 0 \in 0 .. len /\ len \in 0 .. len BY <1>0
  <2> QED BY <1>1, <1>5, <1>11, <2>1 DEF len
<1>14. Len(all) = b[t].n - a[t].n BY <1>9, <1>12, <1>13 DEF InRow
<1>15. ASSUME NEW x \in 1 .. Len(all) PROVE all[x].n = a[t].n + x
  <2>1. PICK i \in 1 .. len : \E j \in 1 .. Len(parts[i]) :
          x = (c[i - 1] - c[0]) + j /\ all[x] = parts[i][j]
    BY <1>9, <1>12 DEF InRow
  <2>2. PICK j \in 1 .. Len(parts[i]) : x = (c[i - 1] - c[0]) + j /\ all[x] = parts[i][j] BY <2>1
  <2> DEFINE h == i - 1
  <2>3. h \in 0 .. len /\ 0 \in 0 .. len BY <1>0
  <2>4. parts[i][j].n = p[i - 1][t].n + j
    <3>1. parts[i] = part(i) BY <1>8
    <3>2. \A k \in 1 .. Len(part(i)) : part(i)[k].n = p[i - 1][t].n + k BY <1>7
    <3> QED BY <3>1, <3>2
  <2>5. all[x].n = p[h][t].n + j BY <2>2, <2>4
  <2>6. x = (c[h] - c[0]) + j BY <2>2
  <2> HIDE DEF h
  <2>7. c[h] \in Nat /\ c[0] \in Nat /\ c[h] = p[h][t].n BY <1>11, <2>3
  <2>8. all[x].n = c[h] + j BY <2>5, <2>7
  <2>9. c[h] + j = c[0] + x BY <2>6, <2>7, SMTT(20)
  <2> QED BY <1>13, <2>8, <2>9
<1> QED BY <1>4, <1>12, <1>13, <1>14, <1>15 DEF all

\* What waits of a track goes on from what was sent of it.
LEMMA UnsentIs ==
    ASSUME NEW from \in [Tracks -> Nat], Accounted(from), reader.built = NoSegment, NEW t \in Tracks,
           made \in [Tracks -> Nat]
    PROVE  /\ Mergeable(reader[t])
           /\ from[t] + Len(Unsent(t)) = made[t]
           /\ \A i \in 1 .. Len(Unsent(t)) : Unsent(t)[i].n = from[t] + i
<1>1. PICK mid \in [Tracks -> Place] : Cut(reader, from, mid) /\ Fed(reader.deferred, mid, Muxed)
  BY DEF Accounted
<1>2. PICK first \in [Tracks -> Place] :
        Holding(reader, first, mid) /\ \A x \in Tracks : first[x].n = from[x] + Len(reader.built[x])
  BY <1>1 DEF Cut
<1>3. reader \in ReaderType BY <1>1 DEF Cut
<1>3a. /\ reader.video \in Seq(QueuedFragment) /\ reader.audio \in Seq(QueuedFragment)
       /\ reader.deferred \in Seq(PushedFragment)
  BY <1>3 DEF ReaderType
<1> DEFINE queue == reader[t]
           list == reader.deferred
           s == SamplesOf(queue)
           d == DeferredOf(list, t)
           z == Unsent(t)
<1>4. queue \in Seq(QueuedFragment) /\ Chain(queue, first[t], mid[t])
  BY <1>2, <1>3a DEF Holding, Tracks
<1>5. PICK p : Path(queue, p) /\ p[0] = first[t] /\ p[Len(queue)] = mid[t] BY <1>4 DEF Chain
<1>6. Mergeable(queue) BY <1>4, <1>5, PathMergeable
<1>7. z = s \o d BY DEF Unsent, DeferredOf
<1>8. /\ s \in Seq(Sample) /\ Len(s) = mid[t].n - first[t].n
      /\ \A x \in 1 .. Len(s) : s[x].n = first[t].n + x
  <2> HIDE DEF queue
  <2> QED BY <1>4, <1>5, PathSamples
<1>9. /\ mid[t] \in Place /\ Muxed[t] \in Place
      /\ d \in Seq(Sample) /\ Len(d) = Muxed[t].n - mid[t].n
      /\ \A x \in 1 .. Len(d) : d[x].n = mid[t].n + x
  <2> HIDE DEF list
  <2>1. Fed(list, mid, Muxed) /\ list \in Seq(PushedFragment) BY <1>1, <1>3a DEF list
  <2> QED BY <2>1, DeferredSamples
<1>10. first[t].n = from[t]
  <2>1. Len(reader.built[t]) = 0 BY DEF NoSegment, Tracks
  <2> QED BY <1>2, <2>1
<1>11. Muxed[t].n = made[t] BY DEF Muxed
<1> HIDE DEF queue, s, d, z, list
<1>12. /\ z \in Seq(Sample) /\ Len(z) = Len(s) + Len(d)
       /\ \A i \in 1 .. Len(s) + Len(d) : z[i] = IF i <= Len(s) THEN s[i] ELSE d[i - Len(s)]
  BY <1>7, <1>8, <1>9, ConcatProperties
<1> DEFINE ls == Len(s)
           ld == Len(d)
           f == from[t]
           m == mid[t].n
           e == made[t]
<1>13. ls \in Nat /\ ld \in Nat /\ f \in Nat /\ m \in Nat /\ e \in Nat BY <1>8, <1>9 DEF Place
<1>14. ls = m - f /\ ld = e - m BY <1>8, <1>9, <1>10, <1>11
<1>15. \A x \in 1 .. ls : s[x].n = f + x BY <1>8, <1>10
<1>16. \A x \in 1 .. ld : d[x].n = m + x BY <1>9
<1>17. Len(z) = ls + ld /\ \A i \in 1 .. ls + ld : z[i] = IF i <= ls THEN s[i] ELSE d[i - ls]
  BY <1>12
<1> HIDE DEF ls, ld, f, m, e
<1>18. f + (ls + ld) = e BY <1>13, <1>14
<1>19. ASSUME NEW i \in 1 .. ls + ld PROVE z[i].n = f + i
  <2>1. CASE i <= ls
    <3>1. i \in 1 .. ls BY <1>13, <2>1
    <3> QED BY <1>15, <1>17, <2>1, <3>1
  <2>2. CASE ~(i <= ls)
    <3>1. i - ls \in 1 .. ld /\ m + (i - ls) = f + i BY <1>13, <1>14, <2>2
    <3> QED BY <1>16, <1>17, <2>2, <3>1
  <2> QED BY <2>1, <2>2
<1> QED BY <1>6, <1>17, <1>18, <1>19 DEF queue, z, f, e

LEMMA MuxImplies == MuxInv => MediaContiguous
<1> SUFFICES ASSUME MuxInv PROVE MediaContiguous OBVIOUS
<1>1. PICK from \in [Tracks -> Nat] : Accounted(from) /\ (~ended => from = sent) BY DEF MuxInv
<1>2. \A t \in Tracks :
        /\ Mergeable(reader[t])
        /\ from[t] + Len(Unsent(t)) = made[t]
        /\ \A i \in 1 .. Len(Unsent(t)) : Unsent(t)[i].n = from[t] + i
  BY <1>1, UnsentIs DEF MuxInv
<1>3. NothingLost BY <1>1, <1>2 DEF NothingLost
<1>4. MediaMatches BY DEF MuxInv, Listed, MediaMatches
<1>5. Contiguous BY <1>2 DEF Contiguous, Tracks
<1> QED BY <1>3, <1>4, <1>5 DEF MediaContiguous

\* Whatever the muxer makes and however it is buffered, split and deferred, the
\* segments hold its samples in order and none twice (mp4box.rs Reader).
THEOREM MediaStaysContiguous == MuxSpec => []MediaContiguous
<1>1. MuxInv /\ [MuxNext]_muxVars => MuxInv' BY MuxStep
<1> QED BY <1>1, MuxStart, MuxImplies, PTL DEF MuxSpec
=============================================================================
