---------------------------- MODULE SliceLemmas ----------------------------
(***************************************************************************)
(* The lists the server and the page keep, for the proofs about them:      *)
(* removing one position (Go's append(s[:i], s[i+1:]...)), filtering       *)
(* (Remaining), and the least of some numbers, by which what a recursive   *)
(* function does at every number is shown: by its least counterexample.    *)
(***************************************************************************)
EXTENDS Common, Integers, Sequences, SequencesExt, SequenceTheorems,
        FiniteSetTheorems, WellFoundedInduction, TLAPS

(* The positions before i stay, the ones after it move down. *)
LEMMA RemoveAtMoves ==
    ASSUME NEW S, NEW q \in Seq(S), NEW i \in 1..Len(q)
    PROVE  /\ RemoveAt(q, i) \in Seq(S)
           /\ Len(RemoveAt(q, i)) = Len(q) - 1
           /\ DOMAIN RemoveAt(q, i) = 1..(Len(q) - 1)
           /\ \A k \in 1..(Len(q) - 1) :
                RemoveAt(q, i)[k] = IF k < i THEN q[k] ELSE q[k + 1]
<1> DEFINE a == SubSeq(q, 1, i - 1)
           b == SubSeq(q, i + 1, Len(q))
<1>1. Len(q) \in Nat /\ \A k \in 1..Len(q) : q[k] \in S
  BY LenProperties, ElementOfSeq
<1>2. /\ a \in Seq(S) /\ Len(a) = i - 1
      /\ \A k \in 1..(i - 1) : a[k] = q[k]
  <2>1. \A k \in 1..(i - 1) : q[k] \in S
    BY <1>1
  <2>2. /\ a \in Seq(S)
        /\ Len(a) = IF 1 <= i - 1 THEN (i - 1) - 1 + 1 ELSE 0
        /\ \A k \in 1..((i - 1) - 1 + 1) : a[k] = q[1 + k - 1]
    BY <2>1, SubSeqProperties, <1>1
  <2> HIDE DEF a
  <2> QED BY <2>2, <1>1
<1>3. /\ b \in Seq(S) /\ Len(b) = Len(q) - i
      /\ \A k \in 1..(Len(q) - i) : b[k] = q[k + i]
  <2>1. \A k \in (i + 1)..Len(q) : q[k] \in S
    BY <1>1
  <2>2. /\ b \in Seq(S)
        /\ Len(b) = IF i + 1 <= Len(q) THEN Len(q) - (i + 1) + 1 ELSE 0
        /\ \A k \in 1..(Len(q) - (i + 1) + 1) : b[k] = q[(i + 1) + k - 1]
    BY <2>1, SubSeqProperties, <1>1
  <2> HIDE DEF b
  <2> QED BY <2>2, <1>1
<1>4. RemoveAt(q, i) = a \o b
  BY DEF RemoveAt
<1> HIDE DEF a, b
<1>5. /\ a \o b \in Seq(S) /\ Len(a \o b) = Len(a) + Len(b)
      /\ \A k \in 1..(Len(a) + Len(b)) :
           (a \o b)[k] = IF k <= Len(a) THEN a[k] ELSE b[k - Len(a)]
  BY <1>2, <1>3, ConcatProperties
<1>6. DOMAIN (a \o b) = 1..(Len(q) - 1)
  BY <1>1, <1>2, <1>3, <1>5, LenProperties
<1> QED BY <1>1, <1>2, <1>3, <1>4, <1>5, <1>6

(* Nothing but position i is lost, and nothing is made up. *)
LEMMA RemoveAtKeeps ==
    ASSUME NEW S, NEW q \in Seq(S), NEW i \in 1..Len(q)
    PROVE  /\ \A j \in 1..Len(q) : j # i =>
                \E k \in 1..Len(RemoveAt(q, i)) : RemoveAt(q, i)[k] = q[j]
           /\ \A k \in 1..Len(RemoveAt(q, i)) :
                \E j \in 1..Len(q) : j # i /\ RemoveAt(q, i)[k] = q[j]
<1> DEFINE r == RemoveAt(q, i)
<1>1. /\ Len(r) = Len(q) - 1 /\ Len(q) \in Nat
      /\ \A k \in 1..(Len(q) - 1) : r[k] = IF k < i THEN q[k] ELSE q[k + 1]
  BY RemoveAtMoves, LenProperties
<1> HIDE DEF r
<1>2. ASSUME NEW j \in 1..Len(q), j # i
      PROVE  \E k \in 1..Len(r) : r[k] = q[j]
  <2>1. CASE j < i
    BY <1>1, <2>1
  <2>2. CASE j > i
    <3>1. j - 1 \in 1..Len(r) /\ r[j - 1] = q[j]
      BY <1>1, <2>2
    <3> QED BY <3>1
  <2> QED BY <2>1, <2>2, <1>2, <1>1
<1>3. ASSUME NEW k \in 1..Len(r)
      PROVE  \E j \in 1..Len(q) : j # i /\ r[k] = q[j]
  <2>1. CASE k < i
    BY <1>1, <2>1
  <2>2. CASE ~(k < i)
    <3>1. k + 1 \in 1..Len(q) /\ k + 1 # i /\ r[k] = q[k + 1]
      BY <1>1, <2>2
    <3> QED BY <3>1
  <2> QED BY <2>1, <2>2
<1> QED BY <1>2, <1>3 DEF r

(* A sequence without repetitions stays one. *)
LEMMA RemoveAtDistinct ==
    ASSUME NEW S, NEW q \in Seq(S), NEW i \in 1..Len(q),
           \A j, k \in 1..Len(q) : q[j] = q[k] => j = k
    PROVE  /\ \A j, k \in 1..Len(RemoveAt(q, i)) :
                RemoveAt(q, i)[j] = RemoveAt(q, i)[k] => j = k
           /\ \A k \in 1..Len(RemoveAt(q, i)) : RemoveAt(q, i)[k] # q[i]
<1> DEFINE r == RemoveAt(q, i)
<1>1. /\ Len(r) = Len(q) - 1 /\ Len(q) \in Nat
      /\ \A k \in 1..(Len(q) - 1) : r[k] = IF k < i THEN q[k] ELSE q[k + 1]
  BY RemoveAtMoves, LenProperties
<1> HIDE DEF r
<1>2. ASSUME NEW j \in 1..Len(r), NEW k \in 1..Len(r), r[j] = r[k]
      PROVE  j = k
  BY <1>1, <1>2
<1>3. ASSUME NEW k \in 1..Len(r)
      PROVE  r[k] # q[i]
  BY <1>1, <1>3
<1> QED BY <1>2, <1>3 DEF r
(* The positions that hold a member of T: as many as there were, less the one
   removed if it was one of them. *)
LEMMA RemoveAtCounts ==
    ASSUME NEW S, NEW q \in Seq(S), NEW i \in 1..Len(q), NEW T
    PROVE  LET r == RemoveAt(q, i)
               before == {j \in 1..Len(q) : q[j] \in T}
               after == {k \in 1..Len(r) : r[k] \in T}
           IN  /\ IsFiniteSet(before) /\ IsFiniteSet(after)
               /\ Cardinality(before) \in Nat /\ Cardinality(after) \in Nat
               /\ Cardinality(after) <= Cardinality(before)
               /\ q[i] \in T => Cardinality(after) < Cardinality(before)
<1> DEFINE r == RemoveAt(q, i)
           before == {j \in 1..Len(q) : q[j] \in T}
           after == {k \in 1..Len(r) : r[k] \in T}
           f == [k \in after |-> IF k < i THEN k ELSE k + 1]
<1>1. /\ Len(r) = Len(q) - 1 /\ Len(q) \in Nat /\ Len(r) \in Nat
      /\ \A k \in 1..(Len(q) - 1) : r[k] = IF k < i THEN q[k] ELSE q[k + 1]
  BY RemoveAtMoves, LenProperties
<1> HIDE DEF r
<1>2. IsFiniteSet(before) /\ IsFiniteSet(after)
  <2>1. IsFiniteSet(1..Len(q)) /\ IsFiniteSet(1..Len(r))
    BY <1>1, FS_Interval
  <2>2. before \in SUBSET (1..Len(q)) /\ after \in SUBSET (1..Len(r))
    OBVIOUS
  <2> HIDE DEF before, after
  <2> QED BY <2>1, <2>2, FS_Subset
<1>3. f \in Injection(after, before \ {i})
  <2>1. \A k \in after : f[k] \in before \ {i}
    BY <1>1
  <2>2. \A j, k \in after : f[j] = f[k] => j = k
    BY <1>1
  <2> HIDE DEF before, after
  <2>3. f \in [after -> before \ {i}]
    BY <2>1
  <2> QED BY <2>2, <2>3 DEF Injection, IsInjective
<1>4. q[i] \in T <=> i \in before
  OBVIOUS
<1> HIDE DEF before, after, f
<1>5. IsFiniteSet(before \ {i})
      /\ Cardinality(before \ {i}) =
           IF i \in before THEN Cardinality(before) - 1 ELSE Cardinality(before)
  BY <1>2, FS_RemoveElement
<1>6. Cardinality(after) <= Cardinality(before \ {i})
  BY <1>3, <1>5, FS_Injection
<1>7. Cardinality(before) \in Nat /\ Cardinality(after) \in Nat
  BY <1>2, FS_CardinalityType
<1> QED BY <1>2, <1>4, <1>5, <1>6, <1>7 DEF before, after, r

(* Any numbers have a least one. *)
LEMMA LeastOf ==
    ASSUME NEW T \in SUBSET Nat, T # {}
    PROVE  \E t \in T : \A u \in T : ~(u < t)
<1> DEFINE R == OpToRel(<, Nat)
<1>1. IsWellFoundedOn(R, Nat)
  BY NatLessThanWellFounded
<1>2. PICK t \in T : \A u \in T : ~(<<u, t>> \in R)
  <2> HIDE DEF R
  <2> QED BY <1>1, WFMin
<1>3. ASSUME NEW u \in T, u < t PROVE FALSE
  <2>1. <<u, t>> \in R
    BY <1>3 DEF OpToRel
  <2> QED BY <2>1, <1>2
<1> QED BY <1>3

(* The elements that stay: no other, none twice, and no more than there were. *)
LEMMA RemainingIs ==
    ASSUME NEW S, NEW q \in Seq(S), NEW gone
    PROVE  /\ Remaining(q, gone) \in Seq(S)
           /\ Len(Remaining(q, gone)) <= Len(q)
           /\ \A i \in 1..Len(Remaining(q, gone)) :
                /\ Remaining(q, gone)[i] \notin gone
                /\ \E k \in 1..Len(q) : q[k] = Remaining(q, gone)[i]
           /\ \A k \in 1..Len(q) : q[k] \notin gone =>
                \E i \in 1..Len(Remaining(q, gone)) : Remaining(q, gone)[i] = q[k]
           /\ (\A k, l \in 1..Len(q) : q[k] = q[l] => k = l) =>
                \A i, j \in 1..Len(Remaining(q, gone)) :
                    Remaining(q, gone)[i] = Remaining(q, gone)[j] => i = j
<1> DEFINE n == Len(q)
           Step(f, i) == f[i] = IF i = 0 THEN <<>>
                                ELSE IF q[i] \in gone THEN f[i - 1]
                                ELSE Append(f[i - 1], q[i])
           F(f) == [i \in 0..n |-> IF i = 0 THEN <<>>
                                  ELSE IF q[i] \in gone THEN f[i - 1]
                                  ELSE Append(f[i - 1], q[i])]
           Upto(i) == \E f \in [0..i -> Seq(S)] : \A j \in 0..i : Step(f, j)
           left == CHOOSE f : f = F(f)
<1>0. n \in Nat /\ \A i \in 1..n : q[i] \in S
  BY LenProperties, ElementOfSeq
<1> HIDE DEF n
<1>1. Upto(0)
  <2> DEFINE f == [i \in 0..0 |-> <<>>]
  <2>1. f \in [0..0 -> Seq(S)] /\ \A j \in 0..0 : Step(f, j)
    BY EmptySeq
  <2> QED BY <2>1
<1>2. ASSUME NEW i \in 1..n, Upto(i - 1) PROVE Upto(i)
  <2>1. PICK f \in [0..i - 1 -> Seq(S)] : \A j \in 0..i - 1 : Step(f, j)
    BY <1>2
  <2> DEFINE e == IF q[i] \in gone THEN f[i - 1] ELSE Append(f[i - 1], q[i])
             g == [j \in 0..i |-> IF j = i THEN e ELSE f[j]]
  <2>2. e \in Seq(S)
    BY <1>0, AppendProperties
  <2>3. g \in [0..i -> Seq(S)]
    BY <1>0, <2>2
  <2>4. ASSUME NEW j \in 0..i PROVE Step(g, j)
    <3>1. CASE j = i
      BY <1>0, <3>1
    <3>2. CASE j # i
      <4>0. j \in 0..i - 1
        BY <1>0, <3>2
      <4>1. g[j] = f[j] /\ Step(f, j)
        BY <2>1, <3>2, <4>0
      <4>2. j # 0 => j - 1 \in 0..i /\ j - 1 # i /\ g[j - 1] = f[j - 1]
        BY <1>0, <3>2
      <4> HIDE DEF g
      <4> QED BY <4>1, <4>2
    <3> QED BY <3>1, <3>2
  <2> HIDE DEF g
  <2> QED BY <2>3, <2>4
<1>3. Upto(n)
  <2> DEFINE T == {i \in 0..n : ~Upto(i)}
  <2> HIDE DEF Upto
  <2> SUFFICES ASSUME T # {} PROVE FALSE
    BY <1>0
  <2>1. PICK i \in T : \A u \in T : ~(u < i)
    <3>1. T \in SUBSET Nat
      BY <1>0
    <3> HIDE DEF T
    <3> QED BY <3>1, LeastOf
  <2>2. i \in 1..n /\ i - 1 \in 0..n /\ i - 1 < i
    BY <1>0, <1>1, <2>1
  <2>3. Upto(i - 1)
    BY <2>1, <2>2
  <2> QED BY <1>2, <2>1, <2>2, <2>3
<1>4. PICK f \in [0..n -> Seq(S)] : \A j \in 0..n : Step(f, j)
  BY <1>3
<1>5. f = F(f)
  BY <1>4
<1>6. left = F(left)
  <2> HIDE DEF F
  <2> QED BY <1>5
<1>7. Remaining(q, gone) = left[n]
  BY DEF Remaining, n
<1>8. \A i \in 0..n : Step(left, i)
  <2> HIDE DEF left
  <2> QED BY <1>6
<1> HIDE DEF left, Upto
<1> DEFINE Good(i) ==
        /\ left[i] \in Seq(S) /\ Len(left[i]) <= i
        /\ \A k \in 1..Len(left[i]) :
              left[i][k] \notin gone /\ \E l \in 1..i : q[l] = left[i][k]
        /\ \A l \in 1..i : q[l] \notin gone =>
              \E k \in 1..Len(left[i]) : left[i][k] = q[l]
        /\ (\A k, l \in 1..n : q[k] = q[l] => k = l) =>
              \A k, l \in 1..Len(left[i]) : left[i][k] = left[i][l] => k = l
<1>9. Good(0)
  <2>1. left[0] = <<>>
    BY <1>0, <1>8
  <2>2. left[0] \in Seq(S) /\ Len(left[0]) = 0
    BY <2>1, EmptySeq
  <2> QED BY <2>2
<1>10. ASSUME NEW i \in 1..n, Good(i - 1) PROVE Good(i)
  <2>1. /\ left[i] = IF q[i] \in gone THEN left[i - 1] ELSE Append(left[i - 1], q[i])
        /\ i - 1 \in Nat /\ i \in Nat
    BY <1>0, <1>8
  <2>2. /\ left[i - 1] \in Seq(S) /\ Len(left[i - 1]) <= i - 1
        /\ \A k \in 1..Len(left[i - 1]) :
              left[i - 1][k] \notin gone /\ \E l \in 1..i - 1 : q[l] = left[i - 1][k]
        /\ \A l \in 1..i - 1 : q[l] \notin gone =>
              \E k \in 1..Len(left[i - 1]) : left[i - 1][k] = q[l]
        /\ (\A k, l \in 1..n : q[k] = q[l] => k = l) =>
              \A k, l \in 1..Len(left[i - 1]) : left[i - 1][k] = left[i - 1][l] => k = l
        /\ Len(left[i - 1]) \in Nat
    BY <1>10, LenProperties
  <2>3. /\ \A l \in 1..i : l \in 1..i - 1 \/ l = i
        /\ \A l \in 1..i - 1 : l \in 1..i /\ l \in 1..n /\ l # i
    BY <1>0
  <2>4. CASE q[i] \in gone
    <3>1. left[i] = left[i - 1]
      BY <2>1, <2>4
    <3>2. Len(left[i]) <= i
      BY <2>1, <2>2, <3>1
    <3> QED BY <2>2, <2>3, <2>4, <3>1, <3>2
  <2>5. CASE q[i] \notin gone
    <3> DEFINE m == Len(left[i - 1])
    <3>1. left[i] = Append(left[i - 1], q[i]) /\ q[i] \in S
      BY <1>0, <2>1, <2>5
    <3>2. /\ left[i] \in Seq(S) /\ Len(left[i]) = m + 1 /\ m \in Nat
          /\ left[i][m + 1] = q[i]
          /\ \A k \in 1..m : left[i][k] = left[i - 1][k]
      BY <2>2, <3>1, AppendProperties
    <3>3. /\ \A k \in 1..m + 1 : k \in 1..m \/ k = m + 1
          /\ \A k \in 1..m : k \in 1..m + 1
          /\ m + 1 \in 1..m + 1 /\ i \in 1..i /\ m + 1 <= i
      BY <2>1, <2>2, <3>2
    <3>4. ASSUME NEW k \in 1..Len(left[i])
          PROVE  left[i][k] \notin gone /\ \E l \in 1..i : q[l] = left[i][k]
      <4> HIDE DEF m
      <4>1. CASE k = m + 1
        <5>1. i \in 1..i /\ q[i] = left[i][k] /\ q[i] \notin gone
          BY <2>5, <3>2, <3>3, <4>1
        <5> QED BY <5>1, Zenon
      <4>2. CASE k \in 1..m
        <5>1. /\ left[i][k] = left[i - 1][k]
              /\ left[i - 1][k] \notin gone /\ \E l \in 1..i - 1 : q[l] = left[i - 1][k]
          BY <2>2, <3>2, <4>2 DEF m
        <5>2. PICK l \in 1..i - 1 : q[l] = left[i - 1][k]
          BY <5>1, Zenon
        <5>3. l \in 1..i
          BY <2>3, <5>2
        <5> QED BY <5>1, <5>2, <5>3, Zenon
      <4> QED BY <3>2, <3>3, <4>1, <4>2
    <3>5. ASSUME NEW l \in 1..i, q[l] \notin gone
          PROVE  \E k \in 1..Len(left[i]) : left[i][k] = q[l]
      <4> HIDE DEF m
      <4>1. CASE l = i
        <5>1. m + 1 \in 1..Len(left[i]) /\ left[i][m + 1] = q[l]
          BY <3>2, <3>3, <4>1
        <5> QED BY <5>1, Zenon
      <4>2. CASE l \in 1..i - 1
        <5>1. \E k \in 1..Len(left[i - 1]) : left[i - 1][k] = q[l]
          BY <2>2, <3>5, <4>2
        <5>2. PICK k \in 1..Len(left[i - 1]) : left[i - 1][k] = q[l]
          BY <5>1, Zenon
        <5>3. k \in 1..Len(left[i]) /\ left[i][k] = left[i - 1][k]
          BY <3>2, <3>3, <5>2 DEF m
        <5> QED BY <5>2, <5>3, Zenon
      <4> QED BY <2>3, <4>1, <4>2
    <3>6. ASSUME \A k, l \in 1..n : q[k] = q[l] => k = l,
                 NEW k \in 1..Len(left[i]), NEW l \in 1..Len(left[i]),
                 left[i][k] = left[i][l]
          PROVE  k = l
      <4>1. \A j \in 1..m : left[i][j] # q[i]
        <5> SUFFICES ASSUME NEW j \in 1..m, left[i - 1][j] = q[i] PROVE FALSE
          BY <3>2
        <5>1. PICK h \in 1..i - 1 : q[h] = q[i]
          BY <2>2
        <5> QED BY <2>3, <3>6, <5>1
      <4>2. CASE k \in 1..m /\ l \in 1..m
        BY <2>2, <3>2, <3>6, <4>2
      <4> QED BY <3>2, <3>3, <3>6, <4>1, <4>2
    <3> QED BY <3>2, <3>3, <3>4, <3>5, <3>6
  <2> QED BY <2>4, <2>5
<1>11. Good(n)
  <2> DEFINE T == {i \in 0..n : ~Good(i)}
  <2> HIDE DEF Good
  <2> SUFFICES ASSUME ~Good(n) PROVE FALSE
    OBVIOUS
  <2>0. n \in 0..n
    BY <1>0
  <2>1. PICK i \in T : \A u \in T : ~(u < i)
    <3>1. T \in SUBSET Nat
      BY <1>0
    <3>2. n \in T
      BY <2>0
    <3> HIDE DEF T
    <3> QED BY <3>1, <3>2, LeastOf
  <2>2. i \in 1..n /\ i - 1 \in 0..n /\ i - 1 < i
    BY <1>0, <1>9, <2>1
  <2>3. Good(i - 1)
    BY <2>1, <2>2
  <2> QED BY <1>10, <2>1, <2>2, <2>3
<1> QED BY <1>7, <1>11 DEF n
=============================================================================
