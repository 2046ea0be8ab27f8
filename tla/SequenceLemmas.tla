--------------------------- MODULE SequenceLemmas ---------------------------
(***************************************************************************)
(* Facts about naturals, sequences and cardinalities that the proofs of    *)
(* several modules rest on and that the libraries do not state.            *)
(***************************************************************************)
EXTENDS SequencesExt, Integers, FunctionTheorems, FiniteSetTheorems, SequenceTheorems,
        WellFoundedInduction, TLAPS

(***************************************************************************)
(* A nonempty set of naturals has a least element.                         *)
(***************************************************************************)
LEMMA LeastNatural ==
  ASSUME NEW T \in SUBSET Nat, T # {}
  PROVE  \E m \in T : \A k \in T : m <= k
<1> DEFINE R == {ss \in Nat \X Nat : ss[1] < ss[2]}
<1>1. IsWellFoundedOn(R, Nat)
  BY NatLessThanWellFounded DEF OpToRel
<1>2. \A m, k \in Nat : k < m => <<k, m>> \in R
  OBVIOUS
<1> HIDE DEF R
<1>3. PICK m \in T : \A k \in T : <<k, m>> \notin R
  BY <1>1, WFMin, Zenon
<1>4. ASSUME NEW k \in T PROVE m <= k
  <2>1. <<k, m>> \notin R
    BY <1>3
  <2>2. k \in Nat /\ m \in Nat
    OBVIOUS
  <2>3. ~(k < m)
    BY <2>1, <2>2, <1>2, Zenon
  <2> QED
    BY <2>2, <2>3
<1> QED
  BY <1>4

(***************************************************************************)
(* A set that holds 0 and the successor of each number below n it holds    *)
(* also holds n: the induction that the recursive functions of the models  *)
(* need.                                                                   *)
(***************************************************************************)
LEMMA UpTo ==
  ASSUME NEW n \in Nat, NEW T, 0 \in T, \A k \in 1..n : k - 1 \in T => k \in T
  PROVE  n \in T
<1> DEFINE Bad == {k \in Nat : k <= n /\ k \notin T}
<1>1. SUFFICES ASSUME Bad # {} PROVE FALSE
  OBVIOUS
<1>2. PICK m \in Bad : \A k \in Bad : m <= k
  <2>1. Bad \in SUBSET Nat
    OBVIOUS
  <2> HIDE DEF Bad
  <2> QED
    BY <1>1, <2>1, LeastNatural
<1>3. m \in 1..n /\ m - 1 \in Nat /\ m - 1 <= n /\ ~(m <= m - 1)
  OBVIOUS
<1>4. m - 1 \in T
  BY <1>2, <1>3
<1> QED
  BY <1>3, <1>4

(***************************************************************************)
(* A sequence of one element.                                              *)
(***************************************************************************)
LEMMA OneElement ==
  ASSUME NEW S, NEW x \in S
  PROVE  <<x>> \in Seq(S) /\ Len(<<x>>) = 1 /\ <<x>>[1] = x
OBVIOUS

(***************************************************************************)
(* FlattenSeq concatenates row by row.                                     *)
(***************************************************************************)
LEMMA FlattenRows ==
  ASSUME NEW seqs, Len(seqs) \in Nat, Len(seqs) # 0
  PROVE  \E flat : /\ flat[1] = seqs[1]
                   /\ \A i \in 2..Len(seqs) : flat[i] = flat[i - 1] \o seqs[i]
                   /\ FlattenSeq(seqs) = flat[Len(seqs)]
<1> DEFINE n == Len(seqs)
           Row(f, i) == IF i = 1 THEN seqs[i] ELSE f[i - 1] \o seqs[i]
           Built(f, m) == f = [i \in 1..m |-> Row(f, i)]
           Exists(m) == \E f : Built(f, m)
           T == {m \in 0..n : Exists(m)}
           flat == CHOOSE f : Built(f, n)
<1>1. n \in Nat /\ n > 0
  OBVIOUS
<1>2. Exists(0)
  <2>1. Built([i \in 1..0 |-> 0], 0)
    OBVIOUS
  <2> HIDE DEF Built
  <2> QED
    BY <2>1
<1>3. ASSUME NEW m \in 1..n, Exists(m - 1) PROVE Exists(m)
  <2>1. PICK f : Built(f, m - 1)
    BY <1>3, Zenon
  <2> DEFINE g == [i \in 1..m |-> Row(f, i)]
  <2>2. ASSUME NEW i \in 1..m PROVE Row(g, i) = Row(f, i)
    <3>1. CASE i = 1
      BY <3>1
    <3>2. CASE i # 1
      <4>1. i - 1 \in 1..(m - 1) /\ i - 1 \in 1..m
        BY <1>1, <3>2
      <4>2. f[i - 1] = Row(f, i - 1)
        BY <2>1, <4>1, Zenon
      <4>3. g[i - 1] = Row(f, i - 1)
        BY <4>1, Zenon
      <4> HIDE DEF g
      <4> QED
        BY <4>2, <4>3, Zenon
    <3> QED
      BY <3>1, <3>2
  <2>3. Built(g, m)
    <3> DEFINE h == [i \in 1..m |-> Row(g, i)]
    <3>1. \A i \in 1..m : Row(g, i) = Row(f, i)
      BY <2>2
    <3> HIDE DEF Row
    <3> QED
      BY <3>1
  <2> HIDE DEF Built, g
  <2> QED
    BY <2>3
<1>4. Exists(n)
  <2> HIDE DEF Exists, n
  <2>1. 0 \in T
    BY <1>1, <1>2
  <2>2. \A m \in 1..n : m - 1 \in T => m \in T
    BY <1>1, <1>3
  <2> HIDE DEF T
  <2>3. n \in T
    BY <1>1, <2>1, <2>2, UpTo
  <2> QED
    BY <2>3 DEF T
<1>5. Built(flat, n)
  <2> HIDE DEF Built
  <2> QED
    BY <1>4, Zenon
<1>6. FlattenSeq(seqs) = flat[n]
  BY Zenon DEF FlattenSeq, flat
<1> HIDE DEF flat
<1>7. \A i \in 1..n : flat[i] = Row(flat, i)
  BY <1>5, Zenon
<1>8. flat[1] = seqs[1] /\ \A i \in 2..n : flat[i] = flat[i - 1] \o seqs[i]
  <2>1. 1 \in 1..n /\ \A i \in 2..n : i \in 1..n /\ i # 1
    BY <1>1
  <2> QED
    BY <1>7, <2>1, Zenon
<1> QED
  BY <1>6, <1>8

(***************************************************************************)
(* What is concatenated out of sequences over S is a sequence over S, and  *)
(* holds what each of them holds.                                          *)
(***************************************************************************)
LEMMA FlattenFacts ==
  ASSUME NEW S, NEW seqs \in Seq(Seq(S))
  PROVE  /\ FlattenSeq(seqs) \in Seq(S)
         /\ \A i \in 1..Len(seqs) : \A j \in 1..Len(seqs[i]) :
              \E k \in 1..Len(FlattenSeq(seqs)) : FlattenSeq(seqs)[k] = seqs[i][j]
<1> DEFINE n == Len(seqs)
<1>1. n \in Nat /\ \A i \in 1..n : seqs[i] \in Seq(S)
  OBVIOUS
<1>2. CASE n = 0
  <2>1. FlattenSeq(seqs) \in Seq(S)
    BY <1>2, EmptySeq DEF FlattenSeq
  <2> QED
    BY <1>2, <2>1
<1>3. CASE n # 0
  <2>1. PICK flat : /\ flat[1] = seqs[1]
                    /\ \A i \in 2..n : flat[i] = flat[i - 1] \o seqs[i]
                    /\ FlattenSeq(seqs) = flat[n]
    BY <1>1, <1>3, FlattenRows
  <2> DEFINE Holds(m, i) == \A j \in 1..Len(seqs[i]) : \E k \in 1..Len(flat[m]) : flat[m][k] = seqs[i][j]
             Good(m) == flat[m] \in Seq(S) /\ \A i \in 1..m : Holds(m, i)
             U == {m \in 0..n : m = 0 \/ Good(m)}
  <2>2. Good(1)
    BY <1>1, <1>3, <2>1
  <2>3. ASSUME NEW m \in 2..n, Good(m - 1) PROVE Good(m)
    <3> DEFINE old == flat[m - 1]
               more == seqs[m]
               new == flat[m]
    <3>1. old \in Seq(S) /\ more \in Seq(S) /\ new = old \o more
      <4> HIDE DEF Holds
      <4>1. m \in 1..n
        BY <1>1
      <4> QED
        BY <1>1, <2>1, <2>3, <4>1, Zenon
    <3> HIDE DEF old, more, new
    <3>2. /\ new \in Seq(S) /\ Len(new) = Len(old) + Len(more)
          /\ Len(old) \in Nat /\ Len(more) \in Nat
          /\ \A k \in 1..Len(old) : new[k] = old[k]
          /\ \A k \in 1..Len(more) : new[Len(old) + k] = more[k]
      BY <3>1, ConcatProperties
    <3>3. ASSUME NEW i \in 1..m PROVE Holds(m, i)
      <4>1. CASE i = m
        <5> SUFFICES ASSUME NEW j \in 1..Len(more) PROVE \E k \in 1..Len(new) : new[k] = more[j]
          BY <4>1 DEF more, new
        <5>1. Len(old) + j \in 1..Len(new)
          BY <3>2
        <5> QED
          BY <3>2, <5>1
      <4>2. CASE i # m
        <5>1. i \in 1..(m - 1)
          BY <4>2
        <5> SUFFICES ASSUME NEW j \in 1..Len(seqs[i])
                     PROVE  \E k \in 1..Len(new) : new[k] = seqs[i][j]
          BY DEF new
        <5>2. PICK k \in 1..Len(old) : old[k] = seqs[i][j]
          BY <2>3, <5>1 DEF old
        <5>3. k \in 1..Len(new) /\ new[k] = old[k]
          BY <3>2
        <5> QED
          BY <5>2, <5>3
      <4> QED
        BY <4>1, <4>2
    <3> HIDE DEF Holds
    <3> QED
      BY <3>2, <3>3 DEF new
  <2>4. Good(n)
    <3> HIDE DEF Good, n
    <3>1. 0 \in U
      BY <1>1
    <3>2. \A m \in 1..n : m - 1 \in U => m \in U
      BY <1>1, <2>2, <2>3
    <3> HIDE DEF U
    <3>3. n \in U
      BY <1>1, <3>1, <3>2, UpTo
    <3> QED
      BY <1>3, <3>3 DEF U
  <2> QED
    BY <2>1, <2>4
<1> QED
  BY <1>2, <1>3

(***************************************************************************)
(* A prefix, element by element; it stays one when the sequence grows.     *)
(***************************************************************************)
LEMMA PrefixElements ==
  ASSUME NEW S, NEW s \in Seq(S), NEW r \in Seq(S)
  PROVE  IsPrefix(s, r) <=> Len(s) <= Len(r) /\ \A i \in 1..Len(s) : s[i] = r[i]
<1>1. Len(s) \in Nat /\ Len(r) \in Nat /\ SubSeq(s, 1, Len(s)) = s
  BY SubSeqFull
<1>2. CASE Len(s) > Len(r)
  BY <1>1, <1>2 DEF IsPrefix
<1>3. CASE Len(s) <= Len(r)
  <2> DEFINE p == SubSeq(r, 1, Len(s))
  <2>1. /\ p \in Seq(S) /\ Len(p) = Len(s)
        /\ \A i \in 1..Len(s) : p[i] = r[i]
    BY <1>1, <1>3
  <2>2. p = s <=> \A i \in 1..Len(s) : s[i] = p[i]
    <3> HIDE DEF p
    <3> QED
      BY <2>1, SeqEqual
  <2>3. IsPrefix(s, r) <=> s = p
    BY <1>1, <1>3 DEF IsPrefix
  <2> HIDE DEF p
  <2> QED
    BY <1>3, <2>1, <2>2, <2>3
<1> QED
  BY <1>1, <1>2, <1>3

LEMMA PrefixGrows ==
  ASSUME NEW S, NEW s \in Seq(S), NEW r \in Seq(S), NEW q \in Seq(S), IsPrefix(s, r)
  PROVE  IsPrefix(s, r \o q)
<1>1. Len(s) <= Len(r) /\ \A i \in 1..Len(s) : s[i] = r[i]
  BY PrefixElements
<1>2. /\ r \o q \in Seq(S) /\ Len(r \o q) = Len(r) + Len(q)
      /\ \A i \in 1..Len(r) : (r \o q)[i] = r[i]
  BY ConcatProperties
<1>3. Len(s) <= Len(r \o q) /\ \A i \in 1..Len(s) : s[i] = (r \o q)[i]
  BY <1>1, <1>2
<1> QED
  BY <1>2, <1>3, PrefixElements

(***************************************************************************)
(* r is s with e put in at position k.                                     *)
(***************************************************************************)
Inserted(r, s, k, e) ==
  /\ k \in 1..Len(r)
  /\ Len(r) = Len(s) + 1
  /\ r[k] = e
  /\ \A i \in 1..(k - 1) : r[i] = s[i]
  /\ \A i \in k..Len(s) : r[i + 1] = s[i]

(***************************************************************************)
(* InsertAt puts its element in at the position it is told.                *)
(***************************************************************************)
LEMMA InsertAtInserts ==
  ASSUME NEW S, NEW s \in Seq(S), NEW e \in S, NEW k \in 1..(Len(s) + 1)
  PROVE  InsertAt(s, k, e) \in Seq(S) /\ Inserted(InsertAt(s, k, e), s, k, e)
<1> DEFINE front == SubSeq(s, 1, k - 1)
           back == SubSeq(s, k, Len(s))
           new == <<e>>
           start == front \o new
           r == start \o back
           l == k - 1
           m == Len(s) + 1 - k
<1>1. Len(s) \in Nat /\ k \in Nat /\ l \in Nat /\ m \in Nat /\ \A i \in 1..Len(s) : s[i] \in S
  OBVIOUS
<1>2. front \in Seq(S) /\ Len(front) = l /\ \A i \in 1..l : front[i] = s[i]
  BY <1>1, SubSeqProperties
<1>3. back \in Seq(S) /\ Len(back) = m /\ \A i \in 1..m : back[i] = s[k + i - 1]
  BY <1>1, SubSeqProperties
<1>4. new \in Seq(S) /\ Len(new) = 1 /\ new[1] = e
  OBVIOUS
<1>5. InsertAt(s, k, e) = r
  BY DEF InsertAt
<1> HIDE DEF front, back, new, l, m
<1>6. /\ start \in Seq(S) /\ Len(start) = l + 1
      /\ \A i \in 1..l : start[i] = front[i]
      /\ start[l + 1] = e
  <2>1. \A n \in Nat : Len(new) = n =>
          /\ start \in Seq(S) /\ Len(start) = l + n
          /\ \A i \in 1..l : start[i] = front[i]
          /\ \A i \in 1..n : start[l + i] = new[i]
    <3> TAKE n \in Nat
    <3>1. l \in Nat /\ front \in Seq(S) /\ new \in Seq(S) /\ Len(front) = l
      BY <1>1, <1>2, <1>4
    <3> QED
      BY <3>1
  <2>2. 1 \in Nat /\ 1 \in 1..1
    OBVIOUS
  <2> QED
    BY <1>4, <2>1, <2>2, Zenon
<1> HIDE DEF start
<1>7. Len(start) = k /\ start[k] = e
  BY <1>1, <1>4, <1>6 DEF l
<1>8. /\ r \in Seq(S) /\ Len(r) = k + m
      /\ \A i \in 1..k : r[i] = start[i]
      /\ \A i \in 1..m : r[k + i] = back[i]
  <2>1. k \in Nat /\ m \in Nat /\ start \in Seq(S) /\ back \in Seq(S) /\ Len(start) = k /\ Len(back) = m
    BY <1>1, <1>3, <1>6, <1>7
  <2>2. r \in Seq(S) /\ Len(r) = k + m
    BY <2>1
  <2>3. \A i \in 1..k : r[i] = start[i]
    BY <2>1
  <2>4. \A i \in 1..m : r[k + i] = back[i]
    BY <2>1
  <2> QED
    BY <2>2, <2>3, <2>4
<1> HIDE DEF r
<1>9. Len(r) = Len(s) + 1 /\ k \in 1..Len(r)
  BY <1>1, <1>8 DEF m
<1>10. r[k] = e /\ \A i \in 1..(k - 1) : r[i] = s[i]
  <2>1. k \in 1..k /\ \A i \in 1..(k - 1) : i \in 1..k /\ i \in 1..l
    BY <1>1 DEF l
  <2> QED
    BY <1>2, <1>6, <1>7, <1>8, <2>1, Zenon
<1>11. ASSUME NEW i \in k..Len(s) PROVE r[i + 1] = s[i]
  <2>1. i + 1 - k \in 1..m /\ k + (i + 1 - k) = i + 1 /\ k + (i + 1 - k) - 1 = i
    BY <1>1 DEF m
  <2>2. r[k + (i + 1 - k)] = s[k + (i + 1 - k) - 1]
    BY <1>3, <1>8, <2>1, Zenon
  <2> QED
    BY <2>1, <2>2, Zenon
<1> QED
  BY <1>5, <1>8, <1>9, <1>10, <1>11 DEF Inserted

(***************************************************************************)
(* RemoveAt undoes an insertion at the position it is told.                *)
(***************************************************************************)
LEMMA RemoveAtRemoves ==
  ASSUME NEW S, NEW s \in Seq(S), NEW k \in 1..Len(s)
  PROVE  RemoveAt(s, k) \in Seq(S) /\ Inserted(s, RemoveAt(s, k), k, s[k])
<1> DEFINE front == SubSeq(s, 1, k - 1)
           back == SubSeq(s, k + 1, Len(s))
           r == front \o back
           l == k - 1
           m == Len(s) - k
<1>1. Len(s) \in Nat /\ k \in Nat /\ l \in Nat /\ m \in Nat /\ \A i \in 1..Len(s) : s[i] \in S
  OBVIOUS
<1>2. front \in Seq(S) /\ Len(front) = l /\ \A i \in 1..l : front[i] = s[i]
  BY <1>1, SubSeqProperties
<1>3. back \in Seq(S) /\ Len(back) = m /\ \A i \in 1..m : back[i] = s[k + i]
  BY <1>1, SubSeqProperties
<1>4. RemoveAt(s, k) = r
  BY DEF RemoveAt
<1> HIDE DEF front, back, l, m
<1>5. /\ r \in Seq(S) /\ Len(r) = l + m
      /\ \A i \in 1..l : r[i] = front[i]
      /\ \A i \in 1..m : r[l + i] = back[i]
  <2>1. l \in Nat /\ m \in Nat /\ front \in Seq(S) /\ back \in Seq(S) /\ Len(front) = l /\ Len(back) = m
    BY <1>1, <1>2, <1>3
  <2>2. r \in Seq(S) /\ Len(r) = l + m
    BY <2>1
  <2>3. \A i \in 1..l : r[i] = front[i]
    BY <2>1
  <2>4. ASSUME NEW i \in 1..m PROVE r[l + i] = back[i]
    <3>1. (l + i) \in 1..(Len(front) + Len(back)) /\ ~(l + i <= Len(front)) /\ (l + i) - Len(front) = i
      BY <2>1
    <3>2. r[l + i] = back[(l + i) - Len(front)]
      BY <2>1, <3>1
    <3> QED
      BY <3>1, <3>2, Zenon
  <2> QED
    BY <2>2, <2>3, <2>4
<1> HIDE DEF r
<1>6. Len(s) = Len(r) + 1
  BY <1>1, <1>5 DEF l, m
<1>7. \A i \in 1..(k - 1) : s[i] = r[i]
  BY <1>2, <1>5 DEF l
<1>8. ASSUME NEW i \in k..Len(r) PROVE s[i + 1] = r[i]
  <2>1. i - l \in 1..m /\ l + (i - l) = i /\ k + (i - l) = i + 1
    BY <1>1, <1>5 DEF l, m
  <2>2. r[l + (i - l)] = s[k + (i - l)]
    BY <1>3, <1>5, <2>1, Zenon
  <2> QED
    BY <2>1, <2>2, Zenon
<1> QED
  BY <1>4, <1>5, <1>6, <1>7, <1>8 DEF Inserted

(***************************************************************************)
(* The positions at which a sequence has a member of X.                    *)
(***************************************************************************)
Positions(s, X) == {i \in 1..Len(s) : s[i] \in X}

LEMMA PositionsFinite ==
  ASSUME NEW S, NEW s \in Seq(S), NEW X
  PROVE  IsFiniteSet(Positions(s, X)) /\ Cardinality(Positions(s, X)) \in Nat
<1>1. IsFiniteSet(1..Len(s))
  BY FS_Interval
<1>2. IsFiniteSet(Positions(s, X))
  BY <1>1, FS_Subset DEF Positions
<1> QED
  BY <1>2, FS_CardinalityType

(***************************************************************************)
(* An insertion adds one position if the new element is in X, and none     *)
(* otherwise.                                                              *)
(***************************************************************************)
LEMMA InsertedPositions ==
  ASSUME NEW S, NEW r \in Seq(S), NEW s \in Seq(S), NEW k, NEW e, NEW X, Inserted(r, s, k, e)
  PROVE  Cardinality(Positions(r, X)) = Cardinality(Positions(s, X)) + IF e \in X THEN 1 ELSE 0
<1> DEFINE old == Positions(s, X)
           rest == Positions(r, X) \ {k}
           f == [i \in old |-> IF i < k THEN i ELSE i + 1]
<1>1. /\ Len(s) \in Nat /\ Len(r) = Len(s) + 1 /\ k \in 1..Len(r) /\ r[k] = e
      /\ \A i \in 1..(k - 1) : r[i] = s[i]
      /\ \A i \in k..Len(s) : r[i + 1] = s[i]
  BY DEF Inserted
<1>2. ASSUME NEW i \in old PROVE f[i] \in rest
  <2>1. CASE i < k
    <3>1. i \in 1..Len(s) /\ i \in 1..(k - 1) /\ i \in 1..Len(r) /\ i # k /\ s[i] \in X
      BY <1>1, <2>1 DEF Positions
    <3> QED
      BY <1>1, <2>1, <3>1 DEF Positions
  <2>2. CASE ~(i < k)
    <3>1. i \in 1..Len(s) /\ i \in k..Len(s) /\ i + 1 \in 1..Len(r) /\ i + 1 # k /\ s[i] \in X
      BY <1>1, <2>2 DEF Positions
    <3> QED
      BY <1>1, <2>2, <3>1 DEF Positions
  <2> QED
    BY <2>1, <2>2
<1>3. \A i, j \in old : f[i] = f[j] => i = j
  BY <1>1 DEF Positions
<1>4. ASSUME NEW j \in rest PROVE \E i \in old : f[i] = j
  <2>1. j \in 1..Len(r) /\ j # k /\ r[j] \in X
    BY DEF Positions
  <2>2. CASE j < k
    <3>1. j \in 1..Len(s) /\ j \in 1..(k - 1)
      BY <1>1, <2>1, <2>2
    <3>2. j \in old
      BY <1>1, <2>1, <3>1 DEF Positions
    <3> QED
      BY <2>2, <3>2
  <2>3. CASE ~(j < k)
    <3>1. j - 1 \in 1..Len(s) /\ j - 1 \in k..Len(s) /\ (j - 1) + 1 = j /\ ~(j - 1 < k)
      BY <1>1, <2>1, <2>3
    <3>2. j - 1 \in old
      BY <1>1, <2>1, <3>1 DEF Positions
    <3> QED
      BY <3>1, <3>2
  <2> QED
    BY <2>2, <2>3
<1>5. f \in Bijection(old, rest)
  <2>1. f \in [old -> rest]
    BY <1>2
  <2> HIDE DEF f, old, rest
  <2> QED
    BY <1>3, <1>4, <2>1, Fun_IsBij
<1>6. Cardinality(rest) = Cardinality(old)
  <2>1. IsFiniteSet(old)
    BY PositionsFinite
  <2> HIDE DEF f, old, rest
  <2> QED
    BY <1>5, <2>1, FS_Bijection DEF ExistsBijection
<1>7. IsFiniteSet(Positions(r, X)) /\ Cardinality(Positions(r, X)) \in Nat
  BY PositionsFinite
<1>8. k \in Positions(r, X) <=> e \in X
  BY <1>1 DEF Positions
<1>9. Cardinality(rest) = IF k \in Positions(r, X) THEN Cardinality(Positions(r, X)) - 1
                          ELSE Cardinality(Positions(r, X))
  BY <1>7, FS_RemoveElement
<1> QED
  BY <1>6, <1>7, <1>8, <1>9

(***************************************************************************)
(* Each element of the longer sequence but the new one is an element of    *)
(* the shorter one, and this says where.                                   *)
(***************************************************************************)
LEMMA InsertedElements ==
  ASSUME NEW S, NEW r \in Seq(S), NEW s \in Seq(S), NEW k, NEW e, Inserted(r, s, k, e),
         NEW i \in 1..Len(r), i # k
  PROVE  LET j == IF i < k THEN i ELSE i - 1
         IN j \in 1..Len(s) /\ r[i] = s[j]
<1>1. /\ Len(s) \in Nat /\ Len(r) = Len(s) + 1 /\ k \in 1..Len(r)
      /\ \A j \in 1..(k - 1) : r[j] = s[j]
      /\ \A j \in k..Len(s) : r[j + 1] = s[j]
  BY DEF Inserted
<1>2. CASE i < k
  BY <1>1, <1>2
<1>3. CASE ~(i < k)
  <2>1. i - 1 \in k..Len(s) /\ (i - 1) + 1 = i /\ i - 1 \in 1..Len(s)
    BY <1>1, <1>3
  <2>2. r[(i - 1) + 1] = s[i - 1]
    BY <1>1, <2>1, Zenon
  <2> QED
    BY <1>3, <2>1, <2>2
<1> QED
  BY <1>2, <1>3
-----------------------------------------------------------------------------
(***************************************************************************)
(* The members of a family of sets, each with the index of its set: there  *)
(* are as many of these pairs as the cardinalities add up to.              *)
(***************************************************************************)
PairOf(n, i) == [of |-> n, member |-> i]

Pairs(P) == UNION {{PairOf(n, i) : i \in P[n]} : n \in DOMAIN P}

LEMMA PairFacts ==
  /\ \A n, i : PairOf(n, i).of = n /\ PairOf(n, i).member = i
  /\ \A P, p : p \in Pairs(P) =>
       /\ p.of \in DOMAIN P /\ p.member \in P[p.of]
       /\ p = PairOf(p.of, p.member)
  /\ \A P : \A n \in DOMAIN P : \A i \in P[n] : PairOf(n, i) \in Pairs(P)
<1>1. \A n, i : PairOf(n, i).of = n /\ PairOf(n, i).member = i
  BY DEF PairOf
<1>2. ASSUME NEW P, NEW p \in Pairs(P)
      PROVE  /\ p.of \in DOMAIN P /\ p.member \in P[p.of]
             /\ p = PairOf(p.of, p.member)
  <2>1. PICK n \in DOMAIN P : \E i \in P[n] : p = PairOf(n, i)
    BY Zenon DEF Pairs
  <2>2. PICK i \in P[n] : p = PairOf(n, i)
    BY <2>1
  <2>3. p.of = n /\ p.member = i
    BY <1>1, <2>2
  <2> QED
    BY <2>2, <2>3
<1>3. \A P : \A n \in DOMAIN P : \A i \in P[n] : PairOf(n, i) \in Pairs(P)
  BY DEF Pairs
<1> QED
  BY <1>1, <1>2, <1>3

(***************************************************************************)
(* Sets of the same sizes have equally many pairs.                         *)
(***************************************************************************)
LEMMA SamePairs ==
  ASSUME NEW D, NEW P, NEW Q, DOMAIN P = D, DOMAIN Q = D, IsFiniteSet(Pairs(P)),
         \A n \in D : /\ IsFiniteSet(P[n]) /\ IsFiniteSet(Q[n])
                      /\ Cardinality(P[n]) = Cardinality(Q[n])
  PROVE  IsFiniteSet(Pairs(Q)) /\ Cardinality(Pairs(Q)) = Cardinality(Pairs(P))
<1> DEFINE b(n) == CHOOSE f : f \in Bijection(P[n], Q[n])
           image(p) == PairOf(p.of, b(p.of)[p.member])
           f == [p \in Pairs(P) |-> image(p)]
<1>1. ASSUME NEW n \in D
      PROVE  /\ \A i \in P[n] : b(n)[i] \in Q[n]
             /\ \A i, j \in P[n] : b(n)[i] = b(n)[j] => i = j
             /\ \A j \in Q[n] : \E i \in P[n] : b(n)[i] = j
  <2>1. \E g : g \in Bijection(P[n], Q[n])
    BY FS_SameCardinalityBij DEF ExistsBijection
  <2>2. b(n) \in Bijection(P[n], Q[n])
    BY <2>1, Zenon
  <2> HIDE DEF b
  <2> QED
    BY <2>2, Fun_BijectionProperties
<1> HIDE DEF b
<1>2. \A p \in Pairs(P) : p.of \in D /\ p.member \in P[p.of] /\ p = PairOf(p.of, p.member)
  BY PairFacts
<1>3. \A q \in Pairs(Q) : q.of \in D /\ q.member \in Q[q.of] /\ q = PairOf(q.of, q.member)
  BY PairFacts
<1>4. \A p \in Pairs(P) : image(p).of = p.of /\ image(p).member = b(p.of)[p.member]
  BY PairFacts, Zenon
<1>5. \A p \in Pairs(P) : image(p) \in Pairs(Q)
  BY <1>1, <1>2, PairFacts
<1>6. ASSUME NEW p \in Pairs(P), NEW q \in Pairs(P), image(p) = image(q) PROVE p = q
  <2>1. p.of = q.of /\ b(p.of)[p.member] = b(p.of)[q.member]
    BY <1>4, <1>6, Zenon
  <2>2. p.member = q.member
    <3>1. p.of \in D /\ p.member \in P[p.of] /\ q.member \in P[p.of]
      BY <1>2, <2>1
    <3> QED
      BY <1>1, <2>1, <3>1
  <2> QED
    BY <1>2, <2>1, <2>2
<1>7. ASSUME NEW q \in Pairs(Q) PROVE \E p \in Pairs(P) : image(p) = q
  <2>1. PICK i \in P[q.of] : b(q.of)[i] = q.member
    BY <1>1, <1>3
  <2>2. PairOf(q.of, i) \in Pairs(P)
    BY <1>3, PairFacts
  <2>3. image(PairOf(q.of, i)) = q
    <3>1. PairOf(q.of, i).of = q.of /\ PairOf(q.of, i).member = i
      BY PairFacts
    <3>2. image(PairOf(q.of, i)) = PairOf(q.of, q.member)
      BY <2>1, <3>1, Zenon
    <3> QED
      BY <1>3, <3>2, Zenon
  <2> QED
    BY <2>2, <2>3
<1>8. f \in Bijection(Pairs(P), Pairs(Q))
  <2> HIDE DEF image
  <2>1. f \in [Pairs(P) -> Pairs(Q)]
    BY <1>5
  <2>2. \A p, q \in Pairs(P) : f[p] = f[q] => p = q
    BY <1>6
  <2>3. \A q \in Pairs(Q) : \E p \in Pairs(P) : f[p] = q
    BY <1>7
  <2> HIDE DEF f
  <2> QED
    BY <2>1, <2>2, <2>3, Fun_IsBij
<1> QED
  BY <1>8, FS_Bijection DEF ExistsBijection

(***************************************************************************)
(* One more member in one of the sets makes one more pair.                 *)
(***************************************************************************)
LEMMA OnePairMore ==
  ASSUME NEW D, NEW P, NEW Q, DOMAIN P = D, DOMAIN Q = D, NEW m \in D,
         IsFiniteSet(Pairs(P)) \/ IsFiniteSet(Pairs(Q)),
         \A n \in D : IsFiniteSet(P[n]) /\ IsFiniteSet(Q[n]),
         \A n \in D \ {m} : Cardinality(Q[n]) = Cardinality(P[n]),
         Cardinality(Q[m]) = Cardinality(P[m]) + 1
  PROVE  /\ IsFiniteSet(Pairs(P)) /\ IsFiniteSet(Pairs(Q))
         /\ Cardinality(Pairs(Q)) = Cardinality(Pairs(P)) + 1
<1>1. \A n \in D : Cardinality(P[n]) \in Nat /\ Cardinality(Q[n]) \in Nat
  BY FS_CardinalityType
<1>2. PICK k : k \in Q[m]
  <2>1. Q[m] # {}
    BY <1>1, FS_EmptySet
  <2> QED
    BY <2>1
<1> DEFINE R == [n \in D |-> IF n = m THEN Q[n] \ {k} ELSE Q[n]]
           new == PairOf(m, k)
<1>3. DOMAIN R = D /\ \A n \in D : R[n] = IF n = m THEN Q[n] \ {k} ELSE Q[n]
  OBVIOUS
<1> HIDE DEF R
<1>4. IsFiniteSet(Q[m] \ {k}) /\ Cardinality(Q[m] \ {k}) = Cardinality(P[m])
  <2>1. IsFiniteSet(Q[m]) /\ Cardinality(P[m]) \in Nat /\ Cardinality(Q[m]) = Cardinality(P[m]) + 1
    BY <1>1
  <2>2. /\ IsFiniteSet(Q[m] \ {k})
        /\ Cardinality(Q[m] \ {k}) = Cardinality(Q[m]) - 1
    BY <1>2, <2>1, FS_RemoveElement
  <2> QED
    BY <2>1, <2>2
<1>5. Pairs(Q) = Pairs(R) \union {new}
  <2>1. ASSUME NEW p \in Pairs(Q), p # new PROVE p \in Pairs(R)
    <3>1. p.of \in D /\ p.member \in Q[p.of] /\ p = PairOf(p.of, p.member)
      BY PairFacts
    <3>2. p.member \in R[p.of]
      BY <1>3, <2>1, <3>1
    <3> QED
      BY <1>3, <3>1, <3>2, PairFacts
  <2>2. ASSUME NEW p \in Pairs(R) PROVE p \in Pairs(Q)
    <3>1. p.of \in D /\ p.member \in R[p.of] /\ p = PairOf(p.of, p.member)
      BY <1>3, PairFacts
    <3>2. p.member \in Q[p.of]
      BY <1>3, <3>1
    <3> QED
      BY <3>1, <3>2, PairFacts
  <2>3. new \in Pairs(Q)
    BY <1>2, PairFacts
  <2> QED
    BY <2>1, <2>2, <2>3
<1>6. IsFiniteSet(Pairs(P)) /\ IsFiniteSet(Pairs(R)) /\ Cardinality(Pairs(R)) = Cardinality(Pairs(P))
  <2>1. \A n \in D : /\ IsFiniteSet(P[n]) /\ IsFiniteSet(R[n])
                     /\ Cardinality(P[n]) = Cardinality(R[n])
    BY <1>3, <1>4
  <2>2. CASE IsFiniteSet(Pairs(P))
    BY <1>3, <2>1, <2>2, SamePairs
  <2>3. CASE IsFiniteSet(Pairs(Q))
    <3>1. IsFiniteSet(Pairs(R))
      BY <1>5, <2>3, FS_Subset
    <3> QED
      BY <1>3, <2>1, <3>1, SamePairs
  <2> QED
    BY <2>2, <2>3
<1>7. new \notin Pairs(R)
  <2> SUFFICES ASSUME new \in Pairs(R) PROVE FALSE
    OBVIOUS
  <2>1. new.of = m /\ new.member = k
    BY PairFacts
  <2>2. new.member \in R[new.of]
    BY PairFacts
  <2> QED
    BY <1>3, <2>1, <2>2
<1>8. Cardinality(Pairs(R)) \in Nat
  BY <1>6, FS_CardinalityType
<1> HIDE DEF new
<1> QED
  BY <1>5, <1>6, <1>7, <1>8, FS_AddElement

(***************************************************************************)
(* Where in the concatenation each sequence begins.                        *)
(***************************************************************************)
Bases(b, seqs) ==
  LET flat == FlattenSeq(seqs)
  IN /\ b \in [0..Len(seqs) -> Nat] /\ b[0] = 0 /\ b[Len(seqs)] = Len(flat)
     /\ \A k \in 1..Len(seqs) :
          /\ b[k] = b[k - 1] + Len(seqs[k])
          /\ b[k] <= Len(flat)
          /\ \A j \in 1..Len(seqs[k]) : flat[b[k - 1] + j] = seqs[k][j]
     /\ \A x \in 1..Len(flat) : \E k \in 1..Len(seqs) : \E j \in 1..Len(seqs[k]) : x = b[k - 1] + j

LEMMA FlattenBases ==
  ASSUME NEW S, NEW seqs \in Seq(Seq(S))
  PROVE  \E b : Bases(b, seqs)
<1> DEFINE n == Len(seqs)
<1>1. n \in Nat /\ \A i \in 1..n : seqs[i] \in Seq(S) /\ Len(seqs[i]) \in Nat
  OBVIOUS
<1>2. CASE n = 0
  <2> DEFINE b == [k \in 0..n |-> 0]
  <2>1. FlattenSeq(seqs) = seqs
    BY <1>2 DEF FlattenSeq
  <2>2. b \in [0..n -> Nat] /\ b[0] = 0 /\ b[n] = 0
    BY <1>2
  <2> HIDE DEF b
  <2>3. Bases(b, seqs)
    BY <1>2, <2>1, <2>2 DEF Bases
  <2> QED
    BY <2>3
<1>3. CASE n # 0
  <2>1. PICK flat : /\ flat[1] = seqs[1]
                    /\ \A i \in 2..n : flat[i] = flat[i - 1] \o seqs[i]
                    /\ FlattenSeq(seqs) = flat[n]
    BY <1>1, <1>3, FlattenRows
  <2> DEFINE b == [k \in 0..n |-> IF k = 0 THEN 0 ELSE Len(flat[k])]
             Row(m, k) ==
               /\ b[k - 1] \in Nat /\ b[k] \in Nat
               /\ b[k] = b[k - 1] + Len(seqs[k])
               /\ b[k] <= Len(flat[m])
               /\ \A j \in 1..Len(seqs[k]) : flat[m][b[k - 1] + j] = seqs[k][j]
             Within(m, x) == \E k \in 1..m : \E j \in 1..Len(seqs[k]) : x = b[k - 1] + j
             Good(m) ==
               /\ flat[m] \in Seq(S)
               /\ \A k \in 1..m : Row(m, k)
               /\ \A x \in 1..Len(flat[m]) : Within(m, x)
             U == {m \in 0..n : m = 0 \/ Good(m)}
  <2>2. b[0] = 0 /\ \A k \in 1..n : b[k] = Len(flat[k])
    BY <1>1
  <2> HIDE DEF b
  <2>3. Good(1)
    <3>1. 1 \in 1..n /\ seqs[1] \in Seq(S) /\ b[1 - 1] = 0 /\ b[1] = Len(seqs[1]) /\ Len(seqs[1]) \in Nat
      BY <1>1, <1>3, <2>1, <2>2
    <3>2. Row(1, 1)
      BY <2>1, <3>1
    <3>3. \A x \in 1..Len(flat[1]) : Within(1, x)
      <4> SUFFICES ASSUME NEW x \in 1..Len(flat[1])
                   PROVE  \E k \in 1..1 : \E j \in 1..Len(seqs[k]) : x = b[k - 1] + j
        OBVIOUS
      <4>1. x \in 1..Len(seqs[1]) /\ x = b[1 - 1] + x
        BY <2>1, <3>1
      <4> QED
        BY <4>1
    <3> HIDE DEF Row, Within
    <3> QED
      BY <2>1, <3>1, <3>2, <3>3
  <2>4. ASSUME NEW m \in 2..n, Good(m - 1) PROVE Good(m)
    <3> DEFINE old == flat[m - 1]
               more == seqs[m]
               new == flat[m]
    <3>1. old \in Seq(S) /\ more \in Seq(S) /\ new = old \o more
      <4> HIDE DEF Row, Within
      <4>1. m \in 1..n
        BY <1>1
      <4> QED
        BY <1>1, <2>1, <2>4, <4>1, Zenon
    <3>2. b[m - 1] = Len(old) /\ b[m] = Len(new)
      <4>1. m - 1 \in 1..n /\ m \in 1..n
        BY <1>1
      <4> QED
        BY <2>2, <4>1
    <3>3. \A k \in 1..(m - 1) : Row(m - 1, k)
      BY <2>4
    <3>4. \A x \in 1..Len(old) : Within(m - 1, x)
      BY <2>4
    <3> HIDE DEF old, more, new
    <3>5. /\ new \in Seq(S) /\ Len(new) = Len(old) + Len(more)
          /\ Len(old) \in Nat /\ Len(more) \in Nat
          /\ \A k \in 1..Len(old) : new[k] = old[k]
          /\ \A k \in 1..Len(more) : new[Len(old) + k] = more[k]
      BY <3>1, ConcatProperties
    <3>6. ASSUME NEW k \in 1..m PROVE Row(m, k)
      <4>1. CASE k = m
        <5>1. b[m - 1] \in Nat /\ b[m] \in Nat /\ b[m] = b[m - 1] + Len(more) /\ b[m] <= Len(new)
          BY <3>2, <3>5
        <5>2. \A j \in 1..Len(more) : new[b[m - 1] + j] = more[j]
          BY <3>2, <3>5
        <5> QED
          BY <4>1, <5>1, <5>2 DEF more, new
      <4>2. CASE k # m
        <5>1. k \in 1..(m - 1) /\ k - 1 \in 0..n /\ k \in 1..n
          BY <1>1, <4>2
        <5>2. /\ b[k - 1] \in Nat /\ b[k] \in Nat
              /\ b[k] = b[k - 1] + Len(seqs[k]) /\ b[k] <= Len(old)
              /\ \A j \in 1..Len(seqs[k]) : old[b[k - 1] + j] = seqs[k][j]
          BY <3>3, <5>1 DEF old
        <5>3. Len(seqs[k]) \in Nat
          BY <1>1, <5>1
        <5>4. ASSUME NEW j \in 1..Len(seqs[k]) PROVE new[b[k - 1] + j] = seqs[k][j]
          <6>1. b[k - 1] + j \in 1..Len(old)
            <7>1. /\ b[k - 1] \in Nat /\ Len(seqs[k]) \in Nat /\ Len(old) \in Nat
                  /\ b[k - 1] + Len(seqs[k]) <= Len(old)
              BY <3>5, <5>2, <5>3
            <7>2. j \in Nat /\ 1 <= j /\ j <= Len(seqs[k])
              BY <5>3
            <7> DEFINE x == b[k - 1]
                       y == Len(seqs[k])
                       z == Len(old)
            <7>3. x \in Nat /\ y \in Nat /\ z \in Nat /\ x + y <= z /\ 1 <= j /\ j <= y
              BY <7>1, <7>2
            <7> HIDE DEF x, y, z
            <7>4. x + j \in 1..z
              BY <7>2, <7>3
            <7> QED
              BY <7>4 DEF x, z
          <6> QED
            BY <3>5, <5>2, <6>1
        <5>5. b[k] <= Len(new)
          BY <3>5, <5>2
        <5> QED
          BY <5>2, <5>4, <5>5 DEF new
      <4> QED
        BY <4>1, <4>2
    <3>7. ASSUME NEW x \in 1..Len(new) PROVE Within(m, x)
      <4>1. CASE x \in 1..Len(old)
        <5>1. PICK k \in 1..(m - 1) : \E j \in 1..Len(seqs[k]) : x = b[k - 1] + j
          BY <3>4, <4>1
        <5>2. k \in 1..m
          OBVIOUS
        <5> QED
          BY <5>1, <5>2
      <4>2. CASE x \notin 1..Len(old)
        <5>1. x - Len(old) \in 1..Len(more) /\ x = Len(old) + (x - Len(old))
          BY <3>5, <4>2
        <5>2. m \in 1..m
          OBVIOUS
        <5> QED
          BY <3>2, <5>1, <5>2 DEF more
      <4> QED
        BY <4>1, <4>2
    <3> HIDE DEF Row, Within
    <3> QED
      BY <3>5, <3>6, <3>7 DEF new
  <2>5. Good(n)
    <3> HIDE DEF Good, n
    <3>1. 0 \in U
      BY <1>1
    <3>2. \A m \in 1..n : m - 1 \in U => m \in U
      BY <1>1, <2>3, <2>4
    <3> HIDE DEF U
    <3>3. n \in U
      BY <1>1, <3>1, <3>2, UpTo
    <3> QED
      BY <1>3, <3>3 DEF U
  <2>6. b \in [0..n -> Nat]
    <3>1. \A k \in 1..n : b[k] \in Nat
      BY <2>5
    <3>2. \A k \in 0..n : b[k] \in Nat
      <4> HIDE DEF n
      <4> QED
        BY <1>1, <2>2, <3>1
    <3>3. b = [k \in 0..n |-> b[k]]
      BY DEF b
    <3> QED
      BY <3>2, <3>3
  <2>7. b[n] = Len(flat[n])
    BY <1>1, <1>3, <2>2
  <2>8. Bases(b, seqs)
    BY <2>1, <2>2, <2>5, <2>6, <2>7 DEF Bases
  <2> QED
    BY <2>8
<1> QED
  BY <1>2, <1>3

(***************************************************************************)
(* Nothing is in the concatenation twice, if it is in no sequence twice    *)
(* and in no two of them.                                                  *)
(***************************************************************************)
LEMMA FlattenInjective ==
  ASSUME NEW S, NEW seqs \in Seq(Seq(S)),
         \A k, l \in 1..Len(seqs) : \A i \in 1..Len(seqs[k]) : \A j \in 1..Len(seqs[l]) :
           seqs[k][i] = seqs[l][j] => k = l /\ i = j
  PROVE  IsInjective(FlattenSeq(seqs))
<1> DEFINE flat == FlattenSeq(seqs)
<1>1. PICK b : Bases(b, seqs)
  BY FlattenBases
<1>2. ASSUME NEW x \in 1..Len(flat), NEW y \in 1..Len(flat), flat[x] = flat[y]
      PROVE  x = y
  <2>1. PICK k \in 1..Len(seqs) : \E i \in 1..Len(seqs[k]) : x = b[k - 1] + i
    BY <1>1 DEF Bases
  <2>2. PICK i \in 1..Len(seqs[k]) : x = b[k - 1] + i
    BY <2>1
  <2>3. PICK l \in 1..Len(seqs) : \E j \in 1..Len(seqs[l]) : y = b[l - 1] + j
    BY <1>1 DEF Bases
  <2>4. PICK j \in 1..Len(seqs[l]) : y = b[l - 1] + j
    BY <2>3
  <2>5. flat[x] = seqs[k][i] /\ flat[y] = seqs[l][j]
    BY <1>1, <2>2, <2>4 DEF Bases
  <2>6. seqs[k][i] = seqs[l][j]
    BY <1>2, <2>5
  <2>7. k = l /\ i = j
    BY <2>6, Zenon
  <2> QED
    BY <2>2, <2>4, <2>7
<1>3. flat \in Seq(S)
  BY FlattenFacts
<1> HIDE DEF flat
<1>4. IsInjective(flat)
  BY <1>2, <1>3 DEF IsInjective
<1> QED
  BY <1>4 DEF flat
=============================================================================
