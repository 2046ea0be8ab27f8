-------------------------- MODULE HashTable_proofs --------------------------
(***************************************************************************)
(* What the operations of a hash table do to its records, for any keys,    *)
(* digests, bucket capacity and minimum of buckets: the facts that the     *)
(* proofs about a table of one client and about the tables of a node are   *)
(* made of.                                                                *)
(***************************************************************************)
EXTENDS HashTable, SequenceLemmas
-----------------------------------------------------------------------------
(***************************************************************************)
(* Division with remainder, and what the remainder becomes when the        *)
(* divisor is doubled.                                                     *)
(***************************************************************************)
LEMMA DivMod ==
  ASSUME NEW h \in Nat, NEW n \in Nat \ {0}
  PROVE  h = (n * (h \div n)) + (h % n) /\ h \div n \in Nat /\ h % n \in 0..(n - 1)
OBVIOUS

\* A quotient and a smaller remainder are the ones of the division.
LEMMA ModUnique ==
  ASSUME NEW n \in Nat \ {0}, NEW q \in Nat, NEW r \in 0..(n - 1)
  PROVE  ((n * q) + r) % n = r
OBVIOUS

\* Doubling the divisor keeps the remainder or adds the old divisor to it.
LEMMA DoubleMod ==
  ASSUME NEW h \in Nat, NEW n \in Nat \ {0}
  PROVE  h % (2 * n) \in {h % n, (h % n) + n}
<1> DEFINE q == h \div n
           r == h % n
           k == q \div 2
           m == 2 * n
<1>1. h = (n * q) + r /\ q \in Nat /\ r \in 0..(n - 1)
  BY DivMod
<1>2. k \in Nat /\ (q = 2 * k \/ q = (2 * k) + 1)
  BY <1>1
<1> HIDE DEF q, r, k
<1>3. m \in Nat \ {0}
  OBVIOUS
<1>4. CASE q = 2 * k
  <2>1. h = (m * k) + r /\ r \in 0..(m - 1)
    BY <1>1, <1>2, <1>4
  <2> HIDE DEF m
  <2>2. h % m = r
    BY <2>1, <1>2, <1>3, ModUnique
  <2> QED
    BY <2>2 DEF m, r
<1>5. CASE q = (2 * k) + 1
  <2>1. h = (m * k) + (r + n) /\ r + n \in 0..(m - 1)
    BY <1>1, <1>2, <1>5
  <2> HIDE DEF m
  <2>2. h % m = r + n
    BY <2>1, <1>2, <1>3, ModUnique
  <2> QED
    BY <2>2 DEF m, r
<1> QED
  BY <1>2, <1>4, <1>5

(***************************************************************************)
(* Doubling a power of two, and halving one that is not 1.                 *)
(***************************************************************************)
LEMMA OddDivisor ==
  ASSUME NEW d \in Nat \ {0}, d % 2 = 1, NEW n \in Nat, (2 * n) % d = 0
  PROVE  n % d = 0
<1> DEFINE k == (2 * n) \div d
           j == d \div 2
<1>1. 2 * n = d * k /\ k \in Nat
  OBVIOUS
<1>2. d = (2 * j) + 1 /\ j \in Nat
  OBVIOUS
<1> HIDE DEF k, j
<1> DEFINE l == n - (j * k)
<1>3. k = 2 * l /\ l \in Int
  BY <1>1, <1>2
<1>4. n = (d * l) + 0
  BY <1>1, <1>2, <1>3
<1> HIDE DEF l
<1>5. l \in Nat /\ 0 \in 0..(d - 1)
  BY <1>1, <1>3
<1>6. ((d * l) + 0) % d = 0
  BY <1>5, ModUnique
<1> QED
  BY <1>4, <1>6

\* A divisor divides the multiples of what it divides.
LEMMA MultipleOfDivisor ==
  ASSUME NEW d \in Nat \ {0}, NEW n \in Nat, n % d = 0
  PROVE  (2 * n) % d = 0
<1> DEFINE k == n \div d
           l == 2 * k
<1>1. n = (d * k) + 0 /\ k \in Nat
  BY DivMod
<1> HIDE DEF k
<1>2. l \in Nat /\ 2 * n = (d * l) + 0 /\ 0 \in 0..(d - 1)
  BY <1>1
<1> HIDE DEF l
<1>3. ((d * l) + 0) % d = 0
  BY <1>2, ModUnique
<1> QED
  BY <1>2, <1>3

\* Twice a power of two is one.
LEMMA DoublePower ==
  ASSUME NEW n \in Nat \ {0}, IsPowerOfTwo(n)
  PROVE  IsPowerOfTwo(2 * n)
<1> SUFFICES ASSUME NEW d \in 2..(2 * n), (2 * n) % d = 0, d % 2 # 0 PROVE FALSE
  BY DEF IsPowerOfTwo
<1>1. d \in Nat \ {0} /\ d % 2 = 1
  OBVIOUS
<1>2. n % d = 0
  BY <1>1, OddDivisor
<1>3. d <= n
  <2> SUFFICES ASSUME d > n PROVE FALSE
    OBVIOUS
  <2>1. n = (d * 0) + n /\ n \in 0..(d - 1)
    BY <1>1
  <2>2. ((d * 0) + n) % d = n
    BY <1>1, <2>1, ModUnique
  <2> QED
    BY <1>2, <2>1, <2>2
<1>4. d \in 2..n
  BY <1>3
<1> QED
  BY <1>1, <1>2, <1>4 DEF IsPowerOfTwo

\* Half a power of two above 1 is one.
LEMMA HalfPower ==
  ASSUME NEW n \in Nat, n > 1, IsPowerOfTwo(n)
  PROVE  n = 2 * (n \div 2) /\ n \div 2 \in Nat \ {0} /\ IsPowerOfTwo(n \div 2)
<1> DEFINE m == n \div 2
<1>1. n % n = 0
  <2>1. n = (n * 1) + 0
    OBVIOUS
  <2>2. ((n * 1) + 0) % n = 0
    BY ModUnique
  <2> QED
    BY <2>1, <2>2
<1>2. n % 2 = 0
  BY <1>1 DEF IsPowerOfTwo
<1>3. n = 2 * m /\ m \in Nat \ {0}
  BY <1>2
<1> HIDE DEF m
<1>4. ASSUME NEW d \in 2..m, m % d = 0 PROVE d % 2 = 0
  <2>1. d \in Nat \ {0}
    OBVIOUS
  <2>2. (2 * m) % d = 0
    BY <1>3, <1>4, <2>1, MultipleOfDivisor
  <2>3. d \in 2..n
    BY <1>3
  <2> QED
    BY <1>3, <2>2, <2>3 DEF IsPowerOfTwo
<1>5. IsPowerOfTwo(m)
  BY <1>3, <1>4 DEF IsPowerOfTwo
<1> QED
  BY <1>3, <1>5 DEF m

-----------------------------------------------------------------------------
(***************************************************************************)
(* The level of a table: n is the minimum of buckets, doubled.             *)
(***************************************************************************)
Doubled(n) == \E q \in Nat \ {0} : n = MinBucketCount * q /\ IsPowerOfTwo(q)

Level(n, p) == n \in Nat \ {0} /\ p \in 0..(n - 1) /\ IsPowerOfTwo(n) /\ Doubled(n)

\* What a level says of n and p.
LEMMA LevelFacts ==
  ASSUME NEW n, NEW p, Level(n, p)
  PROVE  /\ n \in Nat /\ n > 0 /\ p \in Nat /\ p < n
         /\ IsPowerOfTwo(n) /\ n >= MinBucketCount /\ MinBucketCount \in Nat \ {0}
<1>1. MinBucketCount \in Nat \ {0}
  BY HashTableAssumption DEF IsPowerOfTwo
<1>2. n >= MinBucketCount
  BY <1>1 DEF Level, Doubled
<1> QED
  BY <1>1, <1>2 DEF Level

\* A new table is at a level.
LEMMA FirstLevel == Level(MinBucketCount, 0)
<1>1. MinBucketCount \in Nat \ {0} /\ IsPowerOfTwo(MinBucketCount)
  BY HashTableAssumption DEF IsPowerOfTwo
<1>2. IsPowerOfTwo(1)
  BY DEF IsPowerOfTwo
<1> QED
  BY <1>1, <1>2 DEF Level, Doubled

(***************************************************************************)
(* The level after a split, and before one.                                *)
(***************************************************************************)
LEMMA NextLevelFacts ==
  ASSUME NEW n, NEW p, Level(n, p)
  PROVE  /\ p + 1 = n => Level(2 * n, 0)
         /\ p + 1 # n => Level(n, p + 1)
<1>1. n \in Nat \ {0} /\ p \in 0..(n - 1) /\ IsPowerOfTwo(n) /\ MinBucketCount \in Nat
  BY HashTableAssumption DEF Level
<1>2. PICK q \in Nat \ {0} : n = MinBucketCount * q /\ IsPowerOfTwo(q)
  BY DEF Level, Doubled
<1>3. Doubled(2 * n)
  <2> DEFINE d == 2 * q
  <2>1. d \in Nat \ {0} /\ 2 * n = MinBucketCount * d
    BY <1>1, <1>2
  <2>2. IsPowerOfTwo(d)
    BY <1>2, DoublePower
  <2> QED
    BY <2>1, <2>2 DEF Doubled
<1>4. Level(2 * n, 0)
  BY <1>1, <1>3, DoublePower DEF Level
<1>5. p + 1 # n => Level(n, p + 1)
  BY <1>1 DEF Level
<1> QED
  BY <1>4, <1>5

\* Above the minimum of buckets, PreviousLevel ends at a level.
LEMMA PreviousLevelFacts ==
  ASSUME NEW n, NEW p, Level(n, p), n + p > MinBucketCount
  PROVE  /\ p = 0 => n = 2 * (n \div 2) /\ n \div 2 \in Nat \ {0} /\ Level(n \div 2, (n \div 2) - 1)
         /\ p # 0 => Level(n, p - 1)
<1>1. n \in Nat \ {0} /\ p \in 0..(n - 1) /\ IsPowerOfTwo(n) /\ MinBucketCount \in Nat \ {0}
  BY LevelFacts DEF Level
<1>2. PICK q \in Nat \ {0} : n = MinBucketCount * q /\ IsPowerOfTwo(q)
  BY DEF Level, Doubled
<1>3. ASSUME p = 0
      PROVE  n = 2 * (n \div 2) /\ n \div 2 \in Nat \ {0} /\ Level(n \div 2, (n \div 2) - 1)
  <2>1. n > 1 /\ q > 1
    BY <1>1, <1>2, <1>3
  <2>2. n = 2 * (n \div 2) /\ n \div 2 \in Nat \ {0} /\ IsPowerOfTwo(n \div 2)
    BY <1>1, <2>1, HalfPower
  <2>3. q = 2 * (q \div 2) /\ q \div 2 \in Nat \ {0} /\ IsPowerOfTwo(q \div 2)
    BY <1>2, <2>1, HalfPower
  <2> DEFINE m == n \div 2
             r == q \div 2
  <2> HIDE DEF m, r
  <2>4. n = 2 * m /\ q = 2 * r /\ m \in Nat \ {0} /\ r \in Nat \ {0}
    BY <2>2, <2>3 DEF m, r
  <2>5. m = MinBucketCount * r
    BY <1>1, <1>2, <2>4
  <2>6. Doubled(m)
    BY <2>3, <2>4, <2>5 DEF Doubled, r
  <2>7. Level(m, m - 1)
    BY <2>2, <2>4, <2>6 DEF Level, m
  <2> QED
    BY <2>2, <2>7 DEF m
<1>4. p # 0 => Level(n, p - 1)
  BY <1>1 DEF Level
<1> QED
  BY <1>3, <1>4

(***************************************************************************)
(* Where a key belongs is one of the n + p buckets, and the level after a  *)
(* split or a merge sends it elsewhere only if its bucket is the one split *)
(* or the one merged.                                                      *)
(***************************************************************************)
LEMMA HomeRange ==
  ASSUME NEW t, Level(t.n, t.p), NEW key \in Keys
  PROVE  calculate_bucket_chain(t, key) \in 0..(t.n + t.p - 1)
<1> DEFINE n == t.n
           p == t.p
           h == Hash[key]
<1>1. n \in Nat \ {0} /\ p \in 0..(n - 1) /\ h \in Nat
  BY HashTableAssumption DEF Level
<1>2. calculate_bucket_chain(t, key) = IF h % n < p THEN h % (2 * n) ELSE h % n
  BY DEF calculate_bucket_chain
<1> HIDE DEF n, p, h
<1>3. h % n \in 0..(n - 1) /\ h % (2 * n) \in {h % n, (h % n) + n}
  BY <1>1, DivMod, DoubleMod
<1>4. calculate_bucket_chain(t, key) \in 0..(n + p - 1)
  BY <1>1, <1>2, <1>3
<1> QED
  BY <1>4 DEF n, p

\* A split sends the keys of the other buckets nowhere else.
LEMMA HomeAfterSplit ==
  ASSUME NEW t, Level(t.n, t.p), NEW u, NEW key \in Keys,
         IF t.p + 1 = t.n THEN u.n = 2 * t.n /\ u.p = 0 ELSE u.n = t.n /\ u.p = t.p + 1,
         calculate_bucket_chain(t, key) # t.p
  PROVE  calculate_bucket_chain(u, key) = calculate_bucket_chain(t, key)
<1> DEFINE n == t.n
           p == t.p
           h == Hash[key]
<1>1. n \in Nat \ {0} /\ p \in 0..(n - 1) /\ h \in Nat
  BY HashTableAssumption DEF Level
<1>2. calculate_bucket_chain(t, key) = IF h % n < p THEN h % (2 * n) ELSE h % n
  BY DEF calculate_bucket_chain
<1>3. calculate_bucket_chain(u, key) = IF h % u.n < u.p THEN h % (2 * u.n) ELSE h % u.n
  BY DEF calculate_bucket_chain
<1>4. IF p + 1 = n THEN u.n = 2 * n /\ u.p = 0 ELSE u.n = n /\ u.p = p + 1
  OBVIOUS
<1>5. calculate_bucket_chain(t, key) # p
  OBVIOUS
<1> HIDE DEF n, p, h
<1>6. h % n \in 0..(n - 1) /\ h % (2 * n) \in {h % n, (h % n) + n}
  BY <1>1, DivMod, DoubleMod
<1>7. CASE p + 1 = n
  <2>1. calculate_bucket_chain(u, key) = h % (2 * n)
    <3>1. ~(h % (2 * n) < 0)
      BY <1>1, <1>6
    <3> QED
      BY <1>3, <1>4, <1>7, <3>1
  <2> QED
    BY <1>1, <1>2, <1>5, <1>6, <1>7, <2>1
<1>8. CASE p + 1 # n
  BY <1>1, <1>2, <1>3, <1>4, <1>5, <1>6, <1>8
<1> QED
  BY <1>7, <1>8

\* A merge sends the keys of the other buckets nowhere else.
LEMMA HomeAfterMerge ==
  ASSUME NEW t, Level(t.n, t.p), t.n + t.p > MinBucketCount, NEW u, NEW key \in Keys,
         IF t.p = 0 THEN u.n = t.n \div 2 /\ u.p = (t.n \div 2) - 1
                    ELSE u.n = t.n /\ u.p = t.p - 1,
         calculate_bucket_chain(t, key) # t.n + t.p - 1
  PROVE  calculate_bucket_chain(u, key) = calculate_bucket_chain(t, key)
<1> DEFINE n == t.n
           p == t.p
           h == Hash[key]
           m == n \div 2
<1>1. n \in Nat \ {0} /\ p \in 0..(n - 1) /\ h \in Nat
  BY HashTableAssumption DEF Level
<1>2. calculate_bucket_chain(t, key) = IF h % n < p THEN h % (2 * n) ELSE h % n
  BY DEF calculate_bucket_chain
<1>3. calculate_bucket_chain(u, key) = IF h % u.n < u.p THEN h % (2 * u.n) ELSE h % u.n
  BY DEF calculate_bucket_chain
<1>4. IF p = 0 THEN u.n = m /\ u.p = m - 1 ELSE u.n = n /\ u.p = p - 1
  OBVIOUS
<1>5. calculate_bucket_chain(t, key) # n + p - 1
  OBVIOUS
<1>6. p = 0 => n = 2 * m /\ m \in Nat \ {0}
  BY PreviousLevelFacts
<1> HIDE DEF n, p, h, m
<1>7. CASE p = 0
  <2>1. n = 2 * m /\ m \in Nat \ {0}
    BY <1>6, <1>7
  <2>2. h % m \in 0..(m - 1) /\ h % (2 * m) \in {h % m, (h % m) + m}
    BY <1>1, <2>1, DivMod, DoubleMod
  <2>3. calculate_bucket_chain(t, key) = h % (2 * m)
    <3>1. ~(h % n < 0)
      BY <2>1, <2>2
    <3> QED
      BY <1>2, <1>7, <2>1, <3>1
  <2>4. calculate_bucket_chain(u, key) = IF h % m < m - 1 THEN h % (2 * m) ELSE h % m
    BY <1>3, <1>4, <1>7
  <2> QED
    BY <1>5, <1>7, <2>1, <2>2, <2>3, <2>4
<1>8. CASE p # 0
  <2>1. h % n \in 0..(n - 1) /\ h % (2 * n) \in {h % n, (h % n) + n}
    BY <1>1, DivMod, DoubleMod
  <2> QED
    BY <1>1, <1>2, <1>3, <1>4, <1>5, <1>8, <2>1
<1> QED
  BY <1>7, <1>8

-----------------------------------------------------------------------------
(***************************************************************************)
(* The chain of a bucket: what it holds, and that it holds a key once.     *)
(***************************************************************************)
Record == [key : Keys, value : Values \union {Expired}]

IsChain(c) ==
  /\ c \in Seq(Seq(Record)) /\ Len(c) > 0
  /\ \A i \in 1..Len(c) : Len(c[i]) <= BucketCapacity

Held(c) == {r \in Record : \E i \in 1..Len(c) : \E j \in 1..Len(c[i]) : c[i][j] = r}

KeyAt(c, i, j) == c[i][j].key

OneEach(c) ==
  \A i, k \in 1..Len(c) : \A j \in 1..Len(c[i]), l \in 1..Len(c[k]) :
    KeyAt(c, i, j) = KeyAt(c, k, l) => i = k /\ j = l

\* A place of a chain holds one of its records.
LEMMA HeldRecords ==
  ASSUME NEW c \in Seq(Seq(Record)), NEW i \in 1..Len(c), NEW j \in 1..Len(c[i])
  PROVE  c[i][j] \in Held(c) /\ c[i][j] \in Record
<1>1. c[i] \in Seq(Record)
  OBVIOUS
<1>2. c[i][j] \in Record
  BY <1>1
<1> HIDE DEF Record
<1> QED
  BY <1>2 DEF Held

\* Two places of such a chain with one key are one place.
LEMMA OnlyOnce ==
  ASSUME NEW c, OneEach(c), NEW i \in 1..Len(c), NEW k \in 1..Len(c),
         NEW j \in 1..Len(c[i]), NEW l \in 1..Len(c[k]), KeyAt(c, i, j) = KeyAt(c, k, l)
  PROVE  i = k /\ j = l
BY DEF OneEach

(***************************************************************************)
(* One record more in one of the buckets.                                  *)
(***************************************************************************)
Grown(d, c, i, k, r) ==
  /\ Len(d) = Len(c) /\ i \in 1..Len(c) /\ Inserted(d[i], c[i], k, r)
  /\ \A m \in 1..Len(c) : m # i => d[m] = c[m]

\* What the larger chain holds, and when it holds each key once.
LEMMA GrownChain ==
  ASSUME NEW c \in Seq(Seq(Record)), NEW d \in Seq(Seq(Record)), NEW i, NEW k, NEW r,
         Grown(d, c, i, k, r)
  PROVE  /\ r \in Record /\ Held(d) = Held(c) \union {r}
         /\ OneEach(c) /\ (\A x \in Held(c) : x.key # r.key) => OneEach(d)
         /\ OneEach(d) => OneEach(c) /\ \A x \in Held(c) : x.key # r.key
<1> DEFINE Old(m, j) == IF m = i /\ j > k THEN j - 1 ELSE j
           New(m, j) == IF m = i /\ j >= k THEN j + 1 ELSE j
<1>1. /\ Len(c) \in Nat /\ Len(d) = Len(c) /\ i \in 1..Len(c)
      /\ \A m \in 1..Len(c) : m # i => d[m] = c[m]
      /\ \A m \in 1..Len(c) : Len(c[m]) \in Nat /\ Len(d[m]) \in Nat
  <2>1. \A m \in 1..Len(c) : c[m] \in Seq(Record)
    OBVIOUS
  <2>2. Len(d) = Len(c)
    BY DEF Grown
  <2>3. \A m \in 1..Len(c) : d[m] \in Seq(Record)
    BY <2>2
  <2>4. \A m \in 1..Len(c) : Len(c[m]) \in Nat /\ Len(d[m]) \in Nat
    BY <2>1, <2>3
  <2> QED
    BY <2>2, <2>4 DEF Grown
<1>2. /\ Len(d[i]) = Len(c[i]) + 1 /\ k \in 1..Len(d[i]) /\ d[i][k] = r
      /\ \A j \in 1..(k - 1) : d[i][j] = c[i][j]
      /\ \A j \in k..Len(c[i]) : d[i][j + 1] = c[i][j]
  BY DEF Grown, Inserted
<1>3. ASSUME NEW m \in 1..Len(d), NEW j \in 1..Len(d[m]), m = i => j # k
      PROVE  Old(m, j) \in 1..Len(c[m]) /\ d[m][j] = c[m][Old(m, j)]
  <2>1. CASE m # i
    BY <1>1, <2>1
  <2>2. CASE m = i /\ j < k
    <3>1. j \in 1..(k - 1) /\ Old(m, j) = j /\ j \in 1..Len(c[i])
      BY <1>1, <1>2, <2>2
    <3> QED
      BY <1>2, <2>2, <3>1
  <2>3. CASE m = i /\ j > k
    <3>1. Old(m, j) = j - 1 /\ j - 1 \in k..Len(c[i]) /\ (j - 1) + 1 = j /\ j - 1 \in 1..Len(c[i])
      BY <1>1, <1>2, <2>3
    <3>2. d[i][(j - 1) + 1] = c[i][j - 1]
      BY <1>2, <3>1, Zenon
    <3> QED
      BY <2>3, <3>1, <3>2, Zenon
  <2> QED
    BY <1>1, <1>2, <1>3, <2>1, <2>2, <2>3
<1>4. ASSUME NEW m \in 1..Len(c), NEW j \in 1..Len(c[m])
      PROVE  /\ New(m, j) \in 1..Len(d[m]) /\ d[m][New(m, j)] = c[m][j]
             /\ m = i => New(m, j) # k
  <2>1. CASE m # i
    BY <1>1, <2>1
  <2>2. CASE m = i /\ j < k
    <3>1. j \in 1..(k - 1) /\ New(m, j) = j
      BY <1>1, <1>2, <2>2
    <3> QED
      BY <1>1, <1>2, <2>2, <3>1
  <2>3. CASE m = i /\ j >= k
    <3>1. New(m, j) = j + 1 /\ j \in k..Len(c[i]) /\ j + 1 \in 1..Len(d[i]) /\ j + 1 # k
      BY <1>1, <1>2, <2>3
    <3>2. d[i][j + 1] = c[i][j]
      BY <1>2, <3>1, Zenon
    <3> QED
      BY <2>3, <3>1, <3>2, Zenon
  <2> QED
    BY <1>1, <1>2, <2>1, <2>2, <2>3
<1>5. \A m, j, l : j \in Nat /\ l \in Nat /\ Old(m, j) = Old(m, l) /\ (m = i => j # k /\ l # k) => j = l
  BY <1>2
<1>6. \A m, j, l : j \in Nat /\ l \in Nat /\ New(m, j) = New(m, l) => j = l
  BY <1>2
<1> HIDE DEF Old, New
<1>7. r \in Record /\ i \in 1..Len(d) /\ k \in 1..Len(d[i]) /\ r \in Held(d)
  <2>1. i \in 1..Len(d) /\ k \in 1..Len(d[i])
    BY <1>1, <1>2
  <2>2. d[i][k] \in Held(d) /\ d[i][k] \in Record
    BY <2>1, HeldRecords
  <2> QED
    BY <1>2, <2>1, <2>2
<1>8. Held(d) = Held(c) \union {r}
  <2>1. ASSUME NEW x \in Held(d) PROVE x \in Held(c) \union {r}
    <3>1. PICK m \in 1..Len(d) : \E j \in 1..Len(d[m]) : d[m][j] = x
      BY DEF Held
    <3>2. PICK j \in 1..Len(d[m]) : d[m][j] = x
      BY <3>1
    <3>3. CASE m = i /\ j = k
      BY <1>2, <3>2, <3>3
    <3>4. CASE ~(m = i /\ j = k)
      <4>1. Old(m, j) \in 1..Len(c[m]) /\ d[m][j] = c[m][Old(m, j)] /\ m \in 1..Len(c)
        BY <1>1, <1>3, <3>4
      <4> QED
        BY <3>2, <4>1, HeldRecords
    <3> QED
      BY <3>3, <3>4
  <2>2. ASSUME NEW x \in Held(c) PROVE x \in Held(d)
    <3>1. PICK m \in 1..Len(c) : \E j \in 1..Len(c[m]) : c[m][j] = x
      BY DEF Held
    <3>2. PICK j \in 1..Len(c[m]) : c[m][j] = x
      BY <3>1
    <3>3. New(m, j) \in 1..Len(d[m]) /\ d[m][New(m, j)] = x /\ m \in 1..Len(d)
      BY <1>1, <1>4, <3>2
    <3> QED
      BY <3>3, HeldRecords
  <2> QED
    BY <1>7, <2>1, <2>2
<1>9. KeyAt(d, i, k) = r.key
  BY <1>2 DEF KeyAt
<1>10. ASSUME OneEach(c), \A x \in Held(c) : x.key # r.key PROVE OneEach(d)
  <2> SUFFICES ASSUME NEW m \in 1..Len(d), NEW n \in 1..Len(d), NEW j \in 1..Len(d[m]),
                      NEW l \in 1..Len(d[n]), KeyAt(d, m, j) = KeyAt(d, n, l)
               PROVE  m = n /\ j = l
    BY DEF OneEach
  <2>1. ASSUME NEW o \in 1..Len(d), NEW h \in 1..Len(d[o]), ~(o = i /\ h = k)
        PROVE  KeyAt(d, o, h) # r.key
    <3>1. Old(o, h) \in 1..Len(c[o]) /\ d[o][h] = c[o][Old(o, h)] /\ o \in 1..Len(c)
      BY <1>1, <1>3, <2>1
    <3>2. d[o][h] \in Held(c)
      BY <3>1, HeldRecords
    <3> QED
      BY <1>10, <3>2 DEF KeyAt
  <2>2. CASE (m = i /\ j = k) \/ (n = i /\ l = k)
    <3>1. (m = i /\ j = k) /\ (n = i /\ l = k)
      BY <1>9, <2>1, <2>2
    <3> QED
      BY <3>1
  <2>3. CASE ~(m = i /\ j = k) /\ ~(n = i /\ l = k)
    <3>1. /\ Old(m, j) \in 1..Len(c[m]) /\ d[m][j] = c[m][Old(m, j)] /\ m \in 1..Len(c)
          /\ Old(n, l) \in 1..Len(c[n]) /\ d[n][l] = c[n][Old(n, l)] /\ n \in 1..Len(c)
      BY <1>1, <1>3, <2>3
    <3> DEFINE a == Old(m, j)
               b == Old(n, l)
    <3>2. m \in 1..Len(c) /\ n \in 1..Len(c) /\ a \in 1..Len(c[m]) /\ b \in 1..Len(c[n])
          /\ KeyAt(c, m, a) = KeyAt(c, n, b)
      BY <3>1, Zenon DEF KeyAt
    <3> HIDE DEF a, b
    <3>3. m = n /\ a = b
      BY SMTT(30), <1>10, <3>2, OnlyOnce
    <3> USE DEF a, b
    <3>4. j \in Nat /\ l \in Nat
      BY <1>1
    <3> QED
      BY <1>5, <2>3, <3>3, <3>4
  <2> QED
    BY <2>2, <2>3
<1>11. ASSUME OneEach(d) PROVE OneEach(c) /\ \A x \in Held(c) : x.key # r.key
  <2>1. OneEach(c)
    <3> SUFFICES ASSUME NEW m \in 1..Len(c), NEW n \in 1..Len(c), NEW j \in 1..Len(c[m]),
                        NEW l \in 1..Len(c[n]), KeyAt(c, m, j) = KeyAt(c, n, l)
                 PROVE  m = n /\ j = l
      BY DEF OneEach
    <3>1. /\ New(m, j) \in 1..Len(d[m]) /\ d[m][New(m, j)] = c[m][j] /\ m \in 1..Len(d)
          /\ New(n, l) \in 1..Len(d[n]) /\ d[n][New(n, l)] = c[n][l] /\ n \in 1..Len(d)
      BY <1>1, <1>4
    <3> DEFINE a == New(m, j)
               b == New(n, l)
    <3>2. m \in 1..Len(d) /\ n \in 1..Len(d) /\ a \in 1..Len(d[m]) /\ b \in 1..Len(d[n])
          /\ KeyAt(d, m, a) = KeyAt(d, n, b)
      BY <3>1, Zenon DEF KeyAt
    <3> HIDE DEF a, b
    <3>3. m = n /\ a = b
      BY <1>11, <3>2, OnlyOnce
    <3> USE DEF a, b
    <3>4. j \in Nat /\ l \in Nat
      BY <1>1
    <3> QED
      BY <1>6, <3>3, <3>4
  <2>2. ASSUME NEW x \in Held(c) PROVE x.key # r.key
    <3>1. PICK m \in 1..Len(c) : \E j \in 1..Len(c[m]) : c[m][j] = x
      BY DEF Held
    <3>2. PICK j \in 1..Len(c[m]) : c[m][j] = x
      BY <3>1
    <3>3. New(m, j) \in 1..Len(d[m]) /\ d[m][New(m, j)] = x /\ m \in 1..Len(d) /\ (m = i => New(m, j) # k)
      BY <1>1, <1>4, <3>2
    <3> DEFINE a == New(m, j)
    <3>4. a \in 1..Len(d[m]) /\ KeyAt(d, m, a) = x.key /\ m \in 1..Len(d) /\ (m = i => a # k)
      BY <3>3, Zenon DEF KeyAt
    <3> HIDE DEF a
    <3>5. i \in 1..Len(d) /\ k \in 1..Len(d[i])
      BY <1>7
    <3>6. KeyAt(d, m, a) = KeyAt(d, i, k) => m = i /\ a = k
      BY <1>11, <3>4, <3>5, OnlyOnce
    <3> QED
      BY <1>9, <3>4, <3>6
  <2> QED
    BY <2>1, <2>2
<1> QED
  BY <1>7, <1>8, <1>10, <1>11

(***************************************************************************)
(* A record appended to the first bucket with room, or to a new one.       *)
(***************************************************************************)
LEMMA EmptyBucketMore ==
  ASSUME NEW c \in Seq(Seq(Record))
  PROVE  LET d == Append(c, <<>>)
         IN d \in Seq(Seq(Record)) /\ Held(d) = Held(c) /\ (OneEach(c) => OneEach(d))
<1> DEFINE d == Append(c, <<>>)
<1>1. /\ d \in Seq(Seq(Record)) /\ Len(d) = Len(c) + 1 /\ Len(c) \in Nat
      /\ \A i \in 1..Len(c) : d[i] = c[i]
      /\ d[Len(c) + 1] = <<>>
  <2>1. <<>> \in Seq(Record)
    OBVIOUS
  <2> QED
    BY <2>1, AppendProperties
<1> HIDE DEF d
<1>2. ASSUME NEW i \in 1..Len(d), NEW j \in 1..Len(d[i])
      PROVE  i \in 1..Len(c) /\ j \in 1..Len(c[i]) /\ d[i] = c[i]
  <2>1. i # Len(c) + 1
    BY <1>1
  <2>2. i \in 1..Len(c)
    BY <1>1, <2>1
  <2> QED
    BY <1>1, <2>2
<1>3. ASSUME NEW i \in 1..Len(c) PROVE i \in 1..Len(d) /\ d[i] = c[i]
  BY SMTT(30), <1>1
<1>4. Held(d) = Held(c)
  BY <1>2, <1>3 DEF Held
<1>5. ASSUME OneEach(c) PROVE OneEach(d)
  <2> SUFFICES ASSUME NEW i \in 1..Len(d), NEW k \in 1..Len(d), NEW j \in 1..Len(d[i]),
                      NEW l \in 1..Len(d[k]), KeyAt(d, i, j) = KeyAt(d, k, l)
               PROVE  i = k /\ j = l
    BY DEF OneEach
  <2>1. /\ i \in 1..Len(c) /\ j \in 1..Len(c[i]) /\ d[i] = c[i]
        /\ k \in 1..Len(c) /\ l \in 1..Len(c[k]) /\ d[k] = c[k]
    BY <1>2
  <2>2. KeyAt(c, i, j) = KeyAt(c, k, l)
    BY <2>1 DEF KeyAt
  <2> QED
    BY <1>5, <2>1, <2>2, OnlyOnce
<1> QED
  BY <1>1, <1>4, <1>5 DEF d

\* Append inserts behind the last element.
LEMMA AppendInserts ==
  ASSUME NEW S, NEW s \in Seq(S), NEW e \in S
  PROVE  Append(s, e) \in Seq(S) /\ Inserted(Append(s, e), s, Len(s) + 1, e)
<1> DEFINE r == Append(s, e)
<1>1. /\ r \in Seq(S) /\ Len(r) = Len(s) + 1 /\ Len(s) \in Nat
      /\ \A i \in 1..Len(s) : r[i] = s[i]
      /\ r[Len(s) + 1] = e
  BY AppendProperties
<1> HIDE DEF r
<1>2. Inserted(r, s, Len(s) + 1, e)
  BY <1>1 DEF Inserted
<1> QED
  BY <1>1, <1>2 DEF r

\* ChainWith adds its record and keeps the buckets within their capacity.
LEMMA ChainWithFacts ==
  ASSUME NEW c, IsChain(c), NEW r \in Record
  PROVE  LET d == ChainWith(c, r)
         IN /\ IsChain(d) /\ Held(d) = Held(c) \union {r}
            /\ OneEach(c) /\ (\A x \in Held(c) : x.key # r.key) => OneEach(d)
<1> DEFINE roomy == {i \in 1..Len(c) : Len(c[i]) # BucketCapacity}
           d == ChainWith(c, r)
<1>1. /\ c \in Seq(Seq(Record)) /\ Len(c) \in Nat /\ Len(c) > 0 /\ BucketCapacity \in Nat \ {0}
      /\ \A i \in 1..Len(c) : c[i] \in Seq(Record) /\ Len(c[i]) \in Nat /\ Len(c[i]) <= BucketCapacity
  BY HashTableAssumption DEF IsChain
<1>2. CASE roomy = {}
  <2> DEFINE e == Append(c, <<>>)
  <2>1. e \in Seq(Seq(Record)) /\ Held(e) = Held(c) /\ (OneEach(c) => OneEach(e))
    BY <1>1, EmptyBucketMore
  <2>2. d = Append(c, <<r>>)
    BY <1>2 DEF ChainWith
  <2>3. <<r>> \in Seq(Record) /\ Len(<<r>>) = 1 /\ <<r>>[1] = r /\ <<>> \in Seq(Record)
    BY OneElement
  <2>4. /\ d \in Seq(Seq(Record)) /\ Len(d) = Len(c) + 1
        /\ \A i \in 1..Len(c) : d[i] = c[i]
        /\ d[Len(c) + 1] = <<r>>
    BY <1>1, <2>2, <2>3, AppendProperties
  <2>5. /\ Len(e) = Len(c) + 1
        /\ \A i \in 1..Len(c) : e[i] = c[i]
        /\ e[Len(c) + 1] = <<>>
    BY <1>1, <2>3, AppendProperties
  <2>6. Inserted(<<r>>, <<>>, 1, r)
    BY <2>3 DEF Inserted
  <2> HIDE DEF d, e
  <2> DEFINE k == Len(c) + 1
  <2>7. k \in 1..Len(e) /\ \A m \in 1..Len(e) : m # k => m \in 1..Len(c)
    BY <1>1, <2>5
  <2>8. Grown(d, e, k, 1, r)
    BY <2>4, <2>5, <2>6, <2>7 DEF Grown
  <2>9. /\ Held(d) = Held(e) \union {r}
        /\ OneEach(e) /\ (\A x \in Held(e) : x.key # r.key) => OneEach(d)
    BY <2>1, <2>4, <2>8, GrownChain
  <2>10. IsChain(d)
    <3>1. ASSUME NEW i \in 1..Len(d) PROVE Len(d[i]) <= BucketCapacity
      <4>1. CASE i = Len(c) + 1
        <5>1. d[i] = <<r>> /\ 1 <= BucketCapacity
          BY <1>1, <2>4, <4>1
        <5> QED
          BY <2>3, <5>1
      <4>2. CASE i # Len(c) + 1
        <5>1. i \in 1..Len(c)
          BY <1>1, <2>4, <4>2
        <5> QED
          BY <1>1, <2>4, <5>1
      <4> QED
        BY <4>1, <4>2
    <3> QED
      BY <1>1, <2>4, <3>1 DEF IsChain
  <2> QED
    BY <2>1, <2>9, <2>10 DEF d
<1>3. CASE roomy # {}
  <2> DEFINE k == Min(roomy)
             b == Append(c[k], r)
  <2>1. k \in roomy
    <3>1. roomy \in SUBSET Nat
      OBVIOUS
    <3> HIDE DEF roomy
    <3>2. \E m \in roomy : \A j \in roomy : m <= j
      BY <1>3, <3>1, LeastNatural, Zenon
    <3> QED
      BY <3>2 DEF Min
  <2>2. d = [c EXCEPT ![k] = b]
    BY <1>3 DEF ChainWith
  <2> HIDE DEF k, d
  <2>3. k \in 1..Len(c) /\ Len(c[k]) # BucketCapacity
    BY <2>1
  <2>4. b \in Seq(Record) /\ Inserted(b, c[k], Len(c[k]) + 1, r) /\ Len(b) = Len(c[k]) + 1
    BY <1>1, <2>3, AppendInserts, AppendProperties
  <2> HIDE DEF b, roomy
  <2>5. /\ d \in Seq(Seq(Record)) /\ Len(d) = Len(c) /\ d[k] = b
        /\ \A m \in 1..Len(c) : m # k => d[m] = c[m]
    BY <1>1, <2>2, <2>3, <2>4, ExceptSeq
  <2>6. Grown(d, c, k, Len(c[k]) + 1, r)
    BY <2>3, <2>4, <2>5 DEF Grown
  <2>7. /\ Held(d) = Held(c) \union {r}
        /\ OneEach(c) /\ (\A x \in Held(c) : x.key # r.key) => OneEach(d)
    BY <1>1, <2>5, <2>6, GrownChain
  <2>8. IsChain(d)
    <3>1. ASSUME NEW i \in 1..Len(d) PROVE Len(d[i]) <= BucketCapacity
      <4>1. CASE i = k
        BY <1>1, <2>3, <2>4, <2>5, <4>1
      <4>2. CASE i # k
        BY <1>1, <2>5, <4>2
      <4> QED
        BY <4>1, <4>2
    <3> QED
      BY <1>1, <2>5, <3>1 DEF IsChain
  <2> QED
    BY <2>7, <2>8 DEF d
<1> QED
  BY <1>2, <1>3

-----------------------------------------------------------------------------
(***************************************************************************)
(* The tables between calls, and within one between the turns of a loop:   *)
(* n and p are a level with as many buckets, and each record is in the     *)
(* chain of its key, which holds the key once.                             *)
(***************************************************************************)
Tables == [n : Nat, p : Nat, size : Int, chains : Seq(Seq(Seq(Record)))]

Home(t, key) == calculate_bucket_chain(t, key) + 1

GoodChain(t, b, c) == IsChain(c) /\ OneEach(c) /\ \A r \in Held(c) : Home(t, r.key) = b

Sound(t) ==
  /\ t \in Tables /\ Level(t.n, t.p) /\ Len(t.chains) = t.n + t.p
  /\ \A b \in 1..Len(t.chains) : GoodChain(t, b, t.chains[b])

Contents(t) == {r \in Record : \E b \in 1..Len(t.chains) : r \in Held(t.chains[b])}

SameLevel(u, t) == u.n = t.n /\ u.p = t.p

\* Where a key belongs depends on n and p alone.
LEMMA SameHome ==
  ASSUME NEW t, NEW u, SameLevel(u, t), NEW key
  PROVE  Home(u, key) = Home(t, key)
BY DEF Home, calculate_bucket_chain, SameLevel

\* Every key belongs to a bucket that exists.
LEMMA HomeExists ==
  ASSUME NEW t, Sound(t), NEW key \in Keys
  PROVE  Home(t, key) \in 1..Len(t.chains) /\ Len(t.chains) \in Nat
<1>1. Level(t.n, t.p) /\ Len(t.chains) = t.n + t.p
  BY DEF Sound
<1>2. t.n \in Nat /\ t.p \in Nat
  BY <1>1, LevelFacts
<1>3. calculate_bucket_chain(t, key) \in 0..(t.n + t.p - 1)
  BY <1>1, HomeRange
<1> QED
  BY <1>1, <1>2, <1>3 DEF Home

(***************************************************************************)
(* A record of a table is in the chain of its key, and the only one there  *)
(* with that key.                                                          *)
(***************************************************************************)
LEMMA HeldOnce ==
  ASSUME NEW c \in Seq(Seq(Record)), OneEach(c), NEW x \in Held(c), NEW y \in Held(c), x.key = y.key
  PROVE  x = y
<1>1. PICK i \in 1..Len(c) : \E j \in 1..Len(c[i]) : c[i][j] = x
  BY DEF Held
<1>2. PICK j \in 1..Len(c[i]) : c[i][j] = x
  BY <1>1
<1>3. PICK k \in 1..Len(c) : \E l \in 1..Len(c[k]) : c[k][l] = y
  BY DEF Held
<1>4. PICK l \in 1..Len(c[k]) : c[k][l] = y
  BY <1>3
<1>5. KeyAt(c, i, j) = KeyAt(c, k, l)
  BY <1>2, <1>4 DEF KeyAt
<1>6. i = k /\ j = l
  BY <1>5, OnlyOnce
<1> QED
  BY <1>2, <1>4, <1>6

\* The contents of a table are what its chains hold, each key once.
LEMMA ContentsAtHome ==
  ASSUME NEW t, Sound(t)
  PROVE  /\ \A r \in Contents(t) : r \in Record /\ r \in Held(t.chains[Home(t, r.key)])
         /\ \A b \in 1..Len(t.chains) : Held(t.chains[b]) \subseteq Contents(t)
         /\ \A x, y \in Contents(t) : x.key = y.key => x = y
<1>1. ASSUME NEW r \in Contents(t) PROVE r \in Record /\ r \in Held(t.chains[Home(t, r.key)])
  <2>1. PICK b \in 1..Len(t.chains) : r \in Held(t.chains[b])
    BY DEF Contents
  <2>2. Home(t, r.key) = b
    BY <2>1 DEF Sound, GoodChain
  <2> QED
    BY <2>1, <2>2 DEF Contents
<1>2. \A b \in 1..Len(t.chains) : Held(t.chains[b]) \subseteq Contents(t)
  BY DEF Contents, Held
<1>3. ASSUME NEW x \in Contents(t), NEW y \in Contents(t), x.key = y.key PROVE x = y
  <2> DEFINE b == Home(t, x.key)
             c == t.chains[b]
  <2>1. x \in Held(c) /\ y \in Held(c)
    <3>1. Home(t, y.key) = b
      BY <1>3
    <3> QED
      BY <1>1, <3>1
  <2>2. b \in 1..Len(t.chains)
    <3>1. x.key \in Keys
      BY <1>1 DEF Record
    <3> QED
      BY <3>1, HomeExists
  <2>3. OneEach(c) /\ c \in Seq(Seq(Record))
    BY <2>2 DEF Sound, GoodChain, IsChain
  <2> HIDE DEF c
  <2> QED
    BY <1>3, <2>1, <2>3, HeldOnce
<1> QED
  BY <1>1, <1>2, <1>3

(***************************************************************************)
(* Another chain in the place of one.                                      *)
(***************************************************************************)
WithChain(t, b, c) == [t EXCEPT !.chains = [t.chains EXCEPT ![b] = c]]

\* The other chains and fields stay.
LEMMA WithChainFields ==
  ASSUME NEW t \in Tables, NEW b \in 1..Len(t.chains), NEW c \in Seq(Seq(Record))
  PROVE  LET u == WithChain(t, b, c)
         IN /\ u \in Tables /\ SameLevel(u, t) /\ u.size = t.size
            /\ Len(u.chains) = Len(t.chains) /\ Len(t.chains) \in Nat
            /\ u.chains[b] = c
            /\ \A a \in 1..Len(t.chains) : a # b => u.chains[a] = t.chains[a]
<1> DEFINE chains == [t.chains EXCEPT ![b] = c]
           u == WithChain(t, b, c)
<1>1. t.chains \in Seq(Seq(Seq(Record))) /\ t.n \in Nat /\ t.p \in Nat /\ t.size \in Int
  BY DEF Tables
<1>2. /\ chains \in Seq(Seq(Seq(Record))) /\ Len(chains) = Len(t.chains) /\ Len(t.chains) \in Nat
      /\ chains[b] = c /\ \A a \in 1..Len(t.chains) : a # b => chains[a] = t.chains[a]
  BY <1>1, ExceptSeq
<1> HIDE DEF chains
<1>3. u = [t EXCEPT !.chains = chains]
  BY DEF WithChain, chains
<1> HIDE DEF u
<1>4. u.chains = chains /\ u.n = t.n /\ u.p = t.p /\ u.size = t.size /\ u \in Tables
  BY <1>1, <1>2, <1>3 DEF Tables
<1> QED
  BY <1>2, <1>4 DEF u, SameLevel

\* A good chain for another keeps the table sound, and exchanges their records.
LEMMA WithChainFacts ==
  ASSUME NEW t, Sound(t), NEW b \in 1..Len(t.chains), NEW c, GoodChain(t, b, c)
  PROVE  LET u == WithChain(t, b, c)
         IN /\ Sound(u) /\ SameLevel(u, t) /\ u.size = t.size
            /\ Contents(u) = (Contents(t) \ Held(t.chains[b])) \union Held(c)
<1> DEFINE u == WithChain(t, b, c)
<1>1. t \in Tables /\ Level(t.n, t.p) /\ Len(t.chains) = t.n + t.p /\ c \in Seq(Seq(Record))
  BY DEF Sound, GoodChain, IsChain
<1>2. /\ u \in Tables /\ SameLevel(u, t) /\ u.size = t.size
      /\ Len(u.chains) = Len(t.chains) /\ Len(t.chains) \in Nat
      /\ u.chains[b] = c
      /\ \A a \in 1..Len(t.chains) : a # b => u.chains[a] = t.chains[a]
  BY <1>1, WithChainFields
<1> HIDE DEF u
<1>3. Level(u.n, u.p) /\ Len(u.chains) = u.n + u.p
  BY <1>1, <1>2 DEF SameLevel
<1>4. ASSUME NEW a \in 1..Len(u.chains) PROVE GoodChain(u, a, u.chains[a])
  <2>1. GoodChain(t, a, u.chains[a])
    <3>1. CASE a = b
      BY <1>2, <3>1
    <3>2. CASE a # b
      BY <1>2, <3>2 DEF Sound
    <3> QED
      BY <3>1, <3>2
  <2> QED
    BY <1>2, <2>1, SameHome DEF GoodChain
<1>5. Sound(u)
  BY <1>2, <1>3, <1>4 DEF Sound
<1>6. ASSUME NEW a \in 1..Len(t.chains), a # b, NEW r \in Held(t.chains[a])
      PROVE  r \notin Held(t.chains[b])
  <2>1. GoodChain(t, a, t.chains[a]) /\ GoodChain(t, b, t.chains[b])
    BY DEF Sound
  <2>2. Home(t, r.key) = a
    BY <2>1 DEF GoodChain
  <2> QED
    BY <1>6, <2>1, <2>2 DEF GoodChain
<1>7. ASSUME NEW r \in Contents(u) PROVE r \in (Contents(t) \ Held(t.chains[b])) \union Held(c)
  <2>1. PICK a \in 1..Len(u.chains) : r \in Held(u.chains[a])
    BY DEF Contents
  <2>2. CASE a = b
    BY <1>2, <2>1, <2>2
  <2>3. CASE a # b
    <3>1. a \in 1..Len(t.chains) /\ r \in Held(t.chains[a]) /\ r \in Record
      BY <1>2, <2>1, <2>3 DEF Contents
    <3> QED
      BY <1>6, <2>3, <3>1 DEF Contents
  <2> QED
    BY <2>2, <2>3
<1>8. ASSUME NEW r \in (Contents(t) \ Held(t.chains[b])) \union Held(c) PROVE r \in Contents(u)
  <2>1. CASE r \in Held(c)
    <3>1. r \in Record /\ b \in 1..Len(u.chains) /\ r \in Held(u.chains[b])
      BY <1>2, <2>1 DEF Held
    <3> QED
      BY <3>1 DEF Contents
  <2>2. CASE r \notin Held(c)
    <3>1. PICK a \in 1..Len(t.chains) : r \in Held(t.chains[a])
      BY <2>2 DEF Contents
    <3>2. a # b
      BY <2>2, <3>1
    <3>3. r \in Record /\ a \in 1..Len(u.chains) /\ r \in Held(u.chains[a])
      BY <1>2, <2>2, <3>1, <3>2 DEF Contents
    <3> QED
      BY <3>3 DEF Contents
  <2> QED
    BY <2>1, <2>2
<1>9. Contents(u) = (Contents(t) \ Held(t.chains[b])) \union Held(c)
  BY <1>7, <1>8
<1> QED
  BY <1>2, <1>5, <1>9 DEF u

-----------------------------------------------------------------------------
(***************************************************************************)
(* insert_internal adds its record and nothing else.                       *)
(***************************************************************************)
Gained(u, t, S) ==
  /\ Sound(u) /\ SameLevel(u, t) /\ u.size = t.size
  /\ Contents(u) = Contents(t) \union S

KeysOf(S) == {r.key : r \in S}

\* The key is not in the table: insert_internal does not look for it.
LEMMA InsertFacts ==
  ASSUME NEW t, Sound(t), NEW r \in Record, r.key \notin KeysOf(Contents(t))
  PROVE  Gained(insert_internal(t, r), t, {r})
<1> DEFINE b == Home(t, r.key)
           c == t.chains[b]
           d == ChainWith(c, r)
           u == insert_internal(t, r)
<1>1. u = WithChain(t, b, d)
  BY DEF insert_internal, Home, WithChain
<1>2. b \in 1..Len(t.chains)
  <2>1. r.key \in Keys
    BY DEF Record
  <2> QED
    BY <2>1, HomeExists
<1>3. GoodChain(t, b, c)
  BY <1>2 DEF Sound
<1>4. Held(c) \subseteq Contents(t)
  BY <1>2, ContentsAtHome
<1>5. \A x \in Held(c) : x.key # r.key
  BY <1>4 DEF KeysOf
<1> HIDE DEF u, d
<1>6. IsChain(d) /\ Held(d) = Held(c) \union {r} /\ OneEach(d)
  <2>1. IsChain(c) /\ OneEach(c)
    BY <1>3 DEF GoodChain
  <2> HIDE DEF c
  <2> QED
    BY <1>5, <2>1, ChainWithFacts DEF d
<1>7. GoodChain(t, b, d)
  BY <1>3, <1>6 DEF GoodChain
<1>8. /\ Sound(u) /\ SameLevel(u, t) /\ u.size = t.size
      /\ Contents(u) = (Contents(t) \ Held(c)) \union Held(d)
  <2> HIDE DEF b
  <2> QED
    BY <1>1, <1>2, <1>7, WithChainFacts
<1>9. Contents(u) = Contents(t) \union {r}
  BY <1>4, <1>6, <1>8
<1>10. Gained(u, t, {r})
  BY <1>8, <1>9 DEF Gained
<1> QED
  BY <1>10 DEF u

(***************************************************************************)
(* The tables between the turns of the loops of Reinsert.                  *)
(***************************************************************************)
LEMMA BucketRows ==
  ASSUME NEW t, NEW bucket, Len(bucket) \in Nat
  PROVE  \E rows : /\ rows[0] = t
                   /\ \A k \in 1..Len(bucket) : rows[k] = insert_internal(rows[k - 1], bucket[k])
                   /\ ReinsertBucket(t, bucket) = rows[Len(bucket)]
<1> DEFINE n == Len(bucket)
           Row(f, k) == IF k = 0 THEN t ELSE insert_internal(f[k - 1], bucket[k])
           Built(f, m) == f = [k \in 0..m |-> Row(f, k)]
           Exists(m) == \E f : Built(f, m)
           T == {m \in 0..n : Exists(m)}
           rows == CHOOSE f : Built(f, n)
<1>1. n \in Nat
  OBVIOUS
<1>2. Exists(0)
  <2> DEFINE g == [k \in 0..0 |-> t]
  <2>1. g = [k \in 0..0 |-> Row(g, k)]
    <3>1. \A k \in 0..0 : Row(g, k) = t
      OBVIOUS
    <3> HIDE DEF Row
    <3> QED
      BY <3>1
  <2>2. Built(g, 0)
    BY <2>1, Zenon
  <2> HIDE DEF Built
  <2> QED
    BY <2>2
<1>3. ASSUME NEW m \in 1..n, Exists(m - 1) PROVE Exists(m)
  <2>1. PICK f : Built(f, m - 1)
    BY <1>3, Zenon
  <2> DEFINE g == [k \in 0..m |-> Row(f, k)]
  <2>2. ASSUME NEW k \in 0..m PROVE Row(g, k) = Row(f, k)
    <3>1. CASE k = 0
      BY <3>1
    <3>2. CASE k # 0
      <4>1. k - 1 \in 0..(m - 1) /\ k - 1 \in 0..m
        BY <1>1, <3>2
      <4>2. f[k - 1] = Row(f, k - 1)
        BY <2>1, <4>1, Zenon
      <4>3. g[k - 1] = Row(f, k - 1)
        BY <4>1, Zenon
      <4> HIDE DEF g
      <4> QED
        BY <4>2, <4>3, Zenon
    <3> QED
      BY <3>1, <3>2
  <2>3. Built(g, m)
    <3>1. \A k \in 0..m : Row(g, k) = Row(f, k)
      BY <2>2
    <3> HIDE DEF Row
    <3> QED
      BY <3>1
  <2> HIDE DEF Built, g
  <2> QED
    BY <2>3
<1>4. Exists(n)
  <2> HIDE DEF Exists, n
  <2>1. 0 \in T
    BY <1>1, <1>2
  <2>2. \A m \in 1..n : m - 1 \in T => m \in T
    BY <1>1, <1>3
  <2> HIDE DEF T
  <2>3. n \in T
    BY <1>1, <2>1, <2>2, UpTo
  <2> QED
    BY <2>3 DEF T
<1>5. Built(rows, n)
  <2> HIDE DEF Built
  <2> QED
    BY <1>4, Zenon
<1>6. ReinsertBucket(t, bucket) = rows[n]
  BY Zenon DEF ReinsertBucket
<1> HIDE DEF rows
<1>7. \A k \in 0..n : rows[k] = Row(rows, k)
  BY <1>5, Zenon
<1>8. rows[0] = t
  BY <1>1, <1>7
<1>9. ASSUME NEW m \in 1..n PROVE rows[m] = insert_internal(rows[m - 1], bucket[m])
  <2>1. m \in 0..n /\ m # 0
    BY <1>1
  <2> QED
    BY <1>7, <2>1, Zenon
<1> QED
  BY <1>6, <1>8, <1>9, Zenon

\* The tables after each bucket of the chain.
LEMMA ChainRows ==
  ASSUME NEW t, NEW chain, Len(chain) \in Nat
  PROVE  \E rows : /\ rows[0] = t
                   /\ \A k \in 1..Len(chain) : rows[k] = ReinsertBucket(rows[k - 1], chain[k])
                   /\ Reinsert(t, chain) = rows[Len(chain)]
<1> DEFINE n == Len(chain)
           Row(f, k) == IF k = 0 THEN t ELSE ReinsertBucket(f[k - 1], chain[k])
           Built(f, m) == f = [k \in 0..m |-> Row(f, k)]
           Exists(m) == \E f : Built(f, m)
           T == {m \in 0..n : Exists(m)}
           rows == CHOOSE f : Built(f, n)
<1>1. n \in Nat
  OBVIOUS
<1>2. Exists(0)
  <2> DEFINE g == [k \in 0..0 |-> t]
  <2>1. g = [k \in 0..0 |-> Row(g, k)]
    <3>1. \A k \in 0..0 : Row(g, k) = t
      OBVIOUS
    <3> HIDE DEF Row
    <3> QED
      BY <3>1
  <2>2. Built(g, 0)
    BY <2>1, Zenon
  <2> HIDE DEF Built
  <2> QED
    BY <2>2
<1>3. ASSUME NEW m \in 1..n, Exists(m - 1) PROVE Exists(m)
  <2>1. PICK f : Built(f, m - 1)
    BY <1>3, Zenon
  <2> DEFINE g == [k \in 0..m |-> Row(f, k)]
  <2>2. ASSUME NEW k \in 0..m PROVE Row(g, k) = Row(f, k)
    <3>1. CASE k = 0
      BY <3>1
    <3>2. CASE k # 0
      <4>1. k - 1 \in 0..(m - 1) /\ k - 1 \in 0..m
        BY <1>1, <3>2
      <4>2. f[k - 1] = Row(f, k - 1)
        BY <2>1, <4>1, Zenon
      <4>3. g[k - 1] = Row(f, k - 1)
        BY <4>1, Zenon
      <4> HIDE DEF g
      <4> QED
        BY <4>2, <4>3, Zenon
    <3> QED
      BY <3>1, <3>2
  <2>3. Built(g, m)
    <3>1. \A k \in 0..m : Row(g, k) = Row(f, k)
      BY <2>2
    <3> HIDE DEF Row
    <3> QED
      BY <3>1
  <2> HIDE DEF Built, g
  <2> QED
    BY <2>3
<1>4. Exists(n)
  <2> HIDE DEF Exists, n
  <2>1. 0 \in T
    BY <1>1, <1>2
  <2>2. \A m \in 1..n : m - 1 \in T => m \in T
    BY <1>1, <1>3
  <2> HIDE DEF T
  <2>3. n \in T
    BY <1>1, <2>1, <2>2, UpTo
  <2> QED
    BY <2>3 DEF T
<1>5. Built(rows, n)
  <2> HIDE DEF Built
  <2> QED
    BY <1>4, Zenon
<1>6. Reinsert(t, chain) = rows[n]
  BY Zenon DEF Reinsert
<1> HIDE DEF rows
<1>7. \A k \in 0..n : rows[k] = Row(rows, k)
  BY <1>5, Zenon
<1>8. rows[0] = t
  BY <1>1, <1>7
<1>9. ASSUME NEW m \in 1..n PROVE rows[m] = ReinsertBucket(rows[m - 1], chain[m])
  <2>1. m \in 0..n /\ m # 0
    BY <1>1
  <2> QED
    BY <1>7, <2>1, Zenon
<1> QED
  BY <1>6, <1>8, <1>9, Zenon

(***************************************************************************)
(* The records of a chain go back into a table that has none of their      *)
(* keys.                                                                   *)
(***************************************************************************)
LEMMA GainedMore ==
  ASSUME NEW t, NEW u, NEW w, NEW S, NEW R, NEW Q, Gained(u, t, S), Gained(w, u, R), Q = S \union R
  PROVE  Gained(w, t, Q)
<1>1. SameLevel(w, t) /\ w.size = t.size
  BY DEF Gained, SameLevel
<1>2. Contents(w) = Contents(t) \union Q
  BY DEF Gained
<1> QED
  BY <1>1, <1>2 DEF Gained

\* No record more.
LEMMA GainedNothing ==
  ASSUME NEW t, Sound(t), NEW S, S = {}
  PROVE  Gained(t, t, S)
BY DEF Gained, SameLevel

\* One bucket.
LEMMA ReinsertBucketFacts ==
  ASSUME NEW t, Sound(t), NEW bucket \in Seq(Record),
         \A i, j \in 1..Len(bucket) : bucket[i].key = bucket[j].key => i = j,
         \A i \in 1..Len(bucket) : bucket[i].key \notin KeysOf(Contents(t))
  PROVE  Gained(ReinsertBucket(t, bucket), t, {bucket[j] : j \in 1..Len(bucket)})
<1> DEFINE n == Len(bucket)
           First(m) == {bucket[j] : j \in 1..m}
<1>1. n \in Nat /\ \A i \in 1..n : bucket[i] \in Record
  OBVIOUS
<1>2. PICK rows : /\ rows[0] = t
                  /\ \A k \in 1..n : rows[k] = insert_internal(rows[k - 1], bucket[k])
                  /\ ReinsertBucket(t, bucket) = rows[n]
  BY <1>1, BucketRows
<1> DEFINE U == {m \in 0..n : Gained(rows[m], t, First(m))}
<1>3. Gained(rows[0], t, First(0))
  <2>1. First(0) = {}
    OBVIOUS
  <2> HIDE DEF First
  <2> QED
    BY <1>2, <2>1, GainedNothing
<1>4. ASSUME NEW m \in 1..n, Gained(rows[m - 1], t, First(m - 1)) PROVE Gained(rows[m], t, First(m))
  <2> DEFINE before == rows[m - 1]
             r == bucket[m]
  <2>1. r \in Record /\ r.key \notin KeysOf(Contents(t))
    BY <1>1
  <2>2. r.key \notin KeysOf(First(m - 1))
    <3>1. ASSUME NEW j \in 1..(m - 1) PROVE bucket[j].key # r.key
      <4>1. j \in 1..n /\ j # m
        BY <1>1
      <4> QED
        BY <4>1
    <3> QED
      BY <3>1 DEF KeysOf
  <2>3. First(m) = First(m - 1) \union {r}
    BY <1>1
  <2>4. rows[m] = insert_internal(before, r)
    BY <1>2
  <2>5. Gained(before, t, First(m - 1))
    BY <1>4
  <2> HIDE DEF before, r, First
  <2>6. Sound(before) /\ r.key \notin KeysOf(Contents(before))
    BY <2>1, <2>2, <2>5 DEF Gained, KeysOf
  <2>7. Gained(rows[m], before, {r})
    BY <2>1, <2>4, <2>6, InsertFacts
  <2> QED
    BY <2>3, <2>5, <2>7, GainedMore
<1>5. n \in U
  <2> HIDE DEF n, First
  <2>1. 0 \in U /\ \A m \in 1..n : m - 1 \in U => m \in U
    BY <1>1, <1>3, <1>4
  <2> HIDE DEF U
  <2> QED
    BY <1>1, <2>1, UpTo
<1> QED
  BY <1>2, <1>5

\* All buckets of the chain.
LEMMA ReinsertFacts ==
  ASSUME NEW t, Sound(t), NEW chain \in Seq(Seq(Record)), OneEach(chain),
         \A r \in Held(chain) : r.key \notin KeysOf(Contents(t))
  PROVE  Gained(Reinsert(t, chain), t, Held(chain))
<1> DEFINE n == Len(chain)
           In(i) == {chain[i][j] : j \in 1..Len(chain[i])}
           First(m) == UNION {In(i) : i \in 1..m}
<1>1. n \in Nat /\ \A i \in 1..n : chain[i] \in Seq(Record)
  OBVIOUS
<1>2. PICK rows : /\ rows[0] = t
                  /\ \A k \in 1..n : rows[k] = ReinsertBucket(rows[k - 1], chain[k])
                  /\ Reinsert(t, chain) = rows[n]
  BY <1>1, ChainRows
<1> DEFINE U == {m \in 0..n : Gained(rows[m], t, First(m))}
<1>3. Gained(rows[0], t, First(0))
  <2>1. First(0) = {}
    OBVIOUS
  <2> HIDE DEF First
  <2> QED
    BY <1>2, <2>1, GainedNothing
<1>4. ASSUME NEW m \in 1..n, Gained(rows[m - 1], t, First(m - 1)) PROVE Gained(rows[m], t, First(m))
  <2> DEFINE before == rows[m - 1]
             bucket == chain[m]
  <2>1. bucket \in Seq(Record)
    BY <1>1
  <2>2. \A i, j \in 1..Len(bucket) : bucket[i].key = bucket[j].key => i = j
    <3> SUFFICES ASSUME NEW i \in 1..Len(bucket), NEW j \in 1..Len(bucket),
                        bucket[i].key = bucket[j].key
                 PROVE  i = j
      OBVIOUS
    <3>1. KeyAt(chain, m, i) = KeyAt(chain, m, j)
      BY DEF KeyAt
    <3> QED
      BY <3>1, OnlyOnce
  <2>3. \A i \in 1..Len(bucket) : bucket[i].key \notin KeysOf(Contents(t))
    BY HeldRecords
  <2>4. \A i \in 1..Len(bucket) : bucket[i].key \notin KeysOf(First(m - 1))
    <3> SUFFICES ASSUME NEW i \in 1..Len(bucket), NEW k \in 1..(m - 1), NEW j \in 1..Len(chain[k]),
                        bucket[i].key = chain[k][j].key
                 PROVE  FALSE
      BY DEF KeysOf
    <3>1. KeyAt(chain, m, i) = KeyAt(chain, k, j) /\ k \in 1..n /\ k # m
      BY <1>1 DEF KeyAt
    <3> QED
      BY <3>1, OnlyOnce
  <2>5. First(m) = First(m - 1) \union In(m)
    <3>1. 1..m = (1..(m - 1)) \union {m}
      BY <1>1
    <3> HIDE DEF In
    <3> QED
      BY <3>1
  <2>6. rows[m] = ReinsertBucket(before, bucket)
    BY <1>2
  <2>7. Gained(before, t, First(m - 1))
    BY <1>4
  <2>8. In(m) = {bucket[j] : j \in 1..Len(bucket)}
    OBVIOUS
  <2> HIDE DEF before, bucket, First, In
  <2>9. Sound(before) /\ \A i \in 1..Len(bucket) : bucket[i].key \notin KeysOf(Contents(before))
    BY <2>3, <2>4, <2>7 DEF Gained, KeysOf
  <2>10. Gained(rows[m], before, In(m))
    BY <2>1, <2>2, <2>6, <2>8, <2>9, ReinsertBucketFacts
  <2> QED
    BY <2>5, <2>7, <2>10, GainedMore
<1>5. n \in U
  <2> HIDE DEF n, First
  <2>1. 0 \in U /\ \A m \in 1..n : m - 1 \in U => m \in U
    BY <1>1, <1>3, <1>4
  <2> HIDE DEF U
  <2> QED
    BY <1>1, <2>1, UpTo
<1>6. First(n) = Held(chain)
  <2>1. ASSUME NEW i \in 1..n, NEW j \in 1..Len(chain[i]) PROVE chain[i][j] \in Held(chain)
    BY HeldRecords
  <2> QED
    BY <2>1 DEF Held
<1> HIDE DEF First
<1> QED
  BY <1>2, <1>5, <1>6

-----------------------------------------------------------------------------
(***************************************************************************)
(* A split and a merge keep the records, and leave the table sound with    *)
(* one bucket more or less.                                                *)
(***************************************************************************)
Rearranged(u, t) == Sound(u) /\ u.size = t.size /\ Contents(u) = Contents(t)

\* The chain of a new bucket suits every bucket.
LEMMA EmptyChainGood ==
  ASSUME NEW t, NEW b
  PROVE  GoodChain(t, b, EmptyChain) /\ Held(EmptyChain) = {}
<1>1. /\ EmptyChain \in Seq(Seq(Record)) /\ Len(EmptyChain) = 1
      /\ EmptyChain[1] = <<>> /\ Len(EmptyChain[1]) = 0
  BY DEF EmptyChain
<1>2. \A i \in 1..Len(EmptyChain) : \A j \in 1..Len(EmptyChain[i]) : FALSE
  BY <1>1
<1>3. BucketCapacity \in Nat
  BY HashTableAssumption
<1>4. Held(EmptyChain) = {}
  BY <1>2 DEF Held
<1>5. OneEach(EmptyChain)
  BY <1>2 DEF OneEach
<1>6. IsChain(EmptyChain)
  BY <1>1, <1>3 DEF IsChain
<1> QED
  BY <1>4, <1>5, <1>6 DEF GoodChain

AtLevel(e, n, p) == [e EXCEPT !.n = n, !.p = p]

\* A new level keeps the chains.
LEMMA AtLevelFields ==
  ASSUME NEW e \in Tables, NEW n \in Nat, NEW p \in Nat
  PROVE  LET u == AtLevel(e, n, p)
         IN u.n = n /\ u.p = p /\ u.size = e.size /\ u.chains = e.chains /\ u \in Tables
BY DEF AtLevel, Tables

\* NextLevel as a change of level.
LEMMA NextLevelValue ==
  ASSUME NEW e \in Tables
  PROVE  NextLevel(e) = IF e.p + 1 = e.n THEN AtLevel(e, 2 * e.n, 0) ELSE AtLevel(e, e.n, e.p + 1)
BY DEF NextLevel, AtLevel, Tables

\* PreviousLevel as a change of level.
LEMMA PreviousLevelValue ==
  ASSUME NEW e \in Tables
  PROVE  PreviousLevel(e) = IF e.p = 0 THEN AtLevel(e, e.n \div 2, (e.n \div 2) - 1)
                                       ELSE AtLevel(e, e.n, e.p - 1)
BY DEF PreviousLevel, AtLevel, Tables

\* One split.
LEMMA SplitFacts ==
  ASSUME NEW t, Sound(t)
  PROVE  Rearranged(Split(t), t) /\ Len(Split(t).chains) = Len(t.chains) + 1
<1> DEFINE n == t.n
           p == t.p
           old == t.chains
           chains == Append([old EXCEPT ![p + 1] = EmptyChain], EmptyChain)
           emptied == [t EXCEPT !.chains = chains]
           u == NextLevel(emptied)
           c == old[p + 1]
<1>1. /\ n \in Nat /\ p \in Nat /\ t.size \in Int /\ old \in Seq(Seq(Seq(Record)))
      /\ Level(n, p) /\ p < n /\ n > 0 /\ Len(old) = n + p /\ p + 1 \in 1..Len(old)
  BY LevelFacts DEF Sound, Tables
<1>2. Split(t) = Reinsert(u, c)
  BY DEF Split
<1>3. EmptyChain \in Seq(Seq(Record))
  BY EmptyChainGood DEF GoodChain, IsChain
<1>4. /\ chains \in Seq(Seq(Seq(Record))) /\ Len(chains) = n + p + 1
      /\ chains[p + 1] = EmptyChain /\ chains[n + p + 1] = EmptyChain
      /\ \A a \in 1..(n + p) : a # p + 1 => chains[a] = old[a]
  <2> DEFINE s == [old EXCEPT ![p + 1] = EmptyChain]
  <2>1. /\ s \in Seq(Seq(Seq(Record))) /\ Len(s) = n + p
        /\ \A a \in 1..(n + p) : s[a] = IF a = p + 1 THEN EmptyChain ELSE old[a]
    BY <1>1, <1>3, ExceptSeq
  <2> HIDE DEF s
  <2>2. /\ chains \in Seq(Seq(Seq(Record))) /\ Len(chains) = n + p + 1
        /\ \A a \in 1..(n + p) : chains[a] = s[a]
        /\ chains[n + p + 1] = EmptyChain
    BY <1>3, <2>1, AppendProperties DEF s
  <2> QED
    BY <1>1, <2>1, <2>2
<1> HIDE DEF chains
<1>5. /\ emptied.n = n /\ emptied.p = p /\ emptied.size = t.size /\ emptied.chains = chains
      /\ emptied \in Tables
  BY <1>1, <1>4 DEF Tables, Sound
<1> HIDE DEF emptied
<1>6. /\ IF p + 1 = n THEN u.n = 2 * n /\ u.p = 0 ELSE u.n = n /\ u.p = p + 1
      /\ u.size = t.size /\ u.chains = chains /\ u \in Tables
  <2>1. u = IF p + 1 = n THEN AtLevel(emptied, 2 * n, 0) ELSE AtLevel(emptied, n, p + 1)
    BY <1>5, NextLevelValue
  <2> HIDE DEF u
  <2>2. CASE p + 1 = n
    <3> DEFINE a == 2 * n
    <3>1. u = AtLevel(emptied, a, 0)
      BY <2>1, <2>2
    <3>2. a \in Nat /\ 0 \in Nat
      BY <1>1
    <3> HIDE DEF a
    <3>3. u.n = a /\ u.p = 0 /\ u.size = emptied.size /\ u.chains = emptied.chains /\ u \in Tables
      BY <1>5, <3>1, <3>2, AtLevelFields
    <3> QED
      BY <1>5, <2>2, <3>3 DEF a
  <2>3. CASE p + 1 # n
    <3> DEFINE a == p + 1
    <3>1. u = AtLevel(emptied, n, a)
      BY <2>1, <2>3
    <3>2. a \in Nat /\ n \in Nat
      BY <1>1
    <3> HIDE DEF a
    <3>3. u.n = n /\ u.p = a /\ u.size = emptied.size /\ u.chains = emptied.chains /\ u \in Tables
      BY <1>5, <3>1, <3>2, AtLevelFields
    <3> QED
      BY <1>5, <2>3, <3>3 DEF a
  <2> QED
    BY <2>2, <2>3
<1> HIDE DEF u
<1>7. Level(u.n, u.p) /\ Len(u.chains) = u.n + u.p
  <2>1. /\ p + 1 = n => Level(2 * n, 0)
        /\ p + 1 # n => Level(n, p + 1)
    BY <1>1, NextLevelFacts
  <2>2. CASE p + 1 = n
    <3>1. u.n = 2 * n /\ u.p = 0
      BY <1>6, <2>2, Zenon
    <3>2. Level(u.n, u.p)
      BY <2>1, <2>2, <3>1
    <3>3. n \in Nat /\ p \in Nat
      BY <1>1
    <3>4. (2 * n) + 0 = n + p + 1
      BY <2>2, <3>3
    <3>5. u.n + u.p = n + p + 1
      BY <3>1, <3>4, Zenon
    <3> QED
      BY <1>4, <1>6, <3>2, <3>5
  <2>3. CASE p + 1 # n
    BY <1>1, <1>4, <1>6, <2>1, <2>3
  <2> QED
    BY <2>2, <2>3
<1>8. ASSUME NEW a \in 1..Len(old), a # p + 1
      PROVE  u.chains[a] = old[a] /\ GoodChain(u, a, old[a])
  <2>1. u.chains[a] = old[a] /\ GoodChain(t, a, old[a])
    BY <1>1, <1>4, <1>6, <1>8 DEF Sound
  <2>2. ASSUME NEW r \in Held(old[a]) PROVE Home(u, r.key) = a
    <3>1. Home(t, r.key) = a /\ r.key \in Keys
      BY <2>1 DEF GoodChain, Held, Record
    <3>2. calculate_bucket_chain(t, r.key) # t.p
      BY <1>1, <1>8, <3>1 DEF Home
    <3>3. calculate_bucket_chain(u, r.key) = calculate_bucket_chain(t, r.key)
      BY <1>1, <1>6, <3>1, <3>2, HomeAfterSplit
    <3> QED
      BY <3>1, <3>3 DEF Home
  <2> QED
    BY <2>1, <2>2 DEF GoodChain
<1>9. Sound(u)
  <2>1. ASSUME NEW a \in 1..Len(u.chains) PROVE GoodChain(u, a, u.chains[a])
    <3>1. CASE a = p + 1 \/ a = n + p + 1
      <4>1. u.chains[a] = EmptyChain
        BY <1>4, <1>6, <3>1
      <4> QED
        BY <4>1, EmptyChainGood
    <3>2. CASE a # p + 1 /\ a # n + p + 1
      <4>1. a \in 1..Len(old)
        BY SMTT(30), <1>1, <1>4, <1>6, <3>2
      <4> QED
        BY <1>8, <3>2, <4>1
    <3> QED
      BY <3>1, <3>2
  <2> QED
    BY <1>6, <1>7, <2>1 DEF Sound
<1>10. ASSUME NEW r \in Contents(u) PROVE r \in Contents(t) /\ r \notin Held(c)
  <2>1. PICK a \in 1..Len(u.chains) : r \in Held(u.chains[a])
    BY DEF Contents
  <2>2. a # p + 1 /\ a # n + p + 1
    BY <1>4, <1>6, <2>1, EmptyChainGood
  <2>3. a \in 1..Len(old) /\ r \in Held(old[a])
    <3>1. a \in 1..Len(old)
      BY <1>1, <1>4, <1>6, <2>2
    <3> QED
      BY <1>8, <2>1, <2>2, <3>1
  <2>4. GoodChain(t, a, old[a]) /\ GoodChain(t, p + 1, c)
    BY <1>1, <2>3 DEF Sound
  <2>5. Home(t, r.key) = a
    BY <2>3, <2>4 DEF GoodChain
  <2> QED
    BY <2>2, <2>3, <2>4, <2>5 DEF GoodChain, Contents, Held
<1>11. ASSUME NEW r \in Contents(t), r \notin Held(c) PROVE r \in Contents(u)
  <2>1. PICK a \in 1..Len(old) : r \in Held(old[a])
    BY DEF Contents
  <2>2. a # p + 1
    BY <1>11, <2>1
  <2>3. a \in 1..Len(u.chains) /\ r \in Held(u.chains[a])
    BY SMTT(30), <1>1, <1>4, <1>6, <1>8, <2>1, <2>2
  <2> QED
    BY <2>3 DEF Contents
<1>12. GoodChain(t, p + 1, c) /\ c \in Seq(Seq(Record)) /\ OneEach(c) /\ Held(c) \subseteq Contents(t)
  <2>1. GoodChain(t, p + 1, c)
    BY <1>1 DEF Sound
  <2>2. Held(c) \subseteq Contents(t)
    BY <1>1, ContentsAtHome
  <2> QED
    BY <2>1, <2>2 DEF GoodChain, IsChain
<1>13. \A r \in Held(c) : r.key \notin KeysOf(Contents(u))
  <2> SUFFICES ASSUME NEW r \in Held(c), NEW x \in Contents(u), x.key = r.key PROVE FALSE
    BY DEF KeysOf
  <2>1. x \in Contents(t) /\ r \in Contents(t) /\ x \notin Held(c)
    BY <1>10, <1>12
  <2>2. x = r
    BY <2>1, ContentsAtHome
  <2> QED
    BY <2>1, <2>2
<1> HIDE DEF c
<1>14. Gained(Split(t), u, Held(c))
  BY <1>2, <1>9, <1>12, <1>13, ReinsertFacts
<1>15. Contents(Split(t)) = Contents(t)
  <2>1. Contents(Split(t)) = Contents(u) \union Held(c)
    BY <1>14 DEF Gained
  <2> QED
    BY <1>10, <1>11, <1>12, <2>1
<1>16. Len(Split(t).chains) = Len(t.chains) + 1
  <2>1. Len(Split(t).chains) = u.n + u.p
    BY <1>14 DEF Gained, SameLevel, Sound
  <2> QED
    BY <1>1, <1>4, <1>6, <1>7, <2>1
<1> QED
  BY <1>6, <1>14, <1>15, <1>16 DEF Gained, Rearranged

\* One merge.
LEMMA MergeFacts ==
  ASSUME NEW t, Sound(t), Len(t.chains) > MinBucketCount
  PROVE  Rearranged(Merge(t), t) /\ Len(Merge(t).chains) = Len(t.chains) - 1
<1> DEFINE n == t.n
           p == t.p
           m == n \div 2
           old == t.chains
           chains == Front(old)
           shrunk == [t EXCEPT !.chains = chains]
           u == PreviousLevel(shrunk)
           c == Last(old)
           last == n + p
<1>1. /\ n \in Nat /\ p \in Nat /\ t.size \in Int /\ old \in Seq(Seq(Seq(Record)))
      /\ Level(n, p) /\ p < n /\ n > 0 /\ Len(old) = last /\ last \in Nat /\ last > 0
      /\ n + p > MinBucketCount
  BY LevelFacts DEF Sound, Tables
<1>2. Merge(t) = Reinsert(u, c) /\ c = old[last]
  BY <1>1 DEF Merge, Last
<1>3. /\ chains \in Seq(Seq(Seq(Record))) /\ Len(chains) = last - 1
      /\ \A a \in 1..(last - 1) : chains[a] = old[a]
  <2>1. chains = SubSeq(old, 1, last - 1)
    BY <1>1 DEF Front
  <2>2. \A a \in 1..(last - 1) : old[a] \in Seq(Seq(Record))
    BY <1>1
  <2> HIDE DEF chains
  <2> QED
    BY <1>1, <2>1, <2>2, SubSeqProperties
<1> HIDE DEF chains
<1>4. /\ shrunk.n = n /\ shrunk.p = p /\ shrunk.size = t.size /\ shrunk.chains = chains
      /\ shrunk \in Tables
  BY <1>1, <1>3 DEF Tables, Sound
<1> HIDE DEF shrunk
<1>5. /\ p = 0 => n = 2 * m /\ m \in Nat \ {0} /\ Level(m, m - 1)
      /\ p # 0 => Level(n, p - 1)
  BY <1>1, PreviousLevelFacts
<1> HIDE DEF m
<1>6. /\ IF p = 0 THEN u.n = m /\ u.p = m - 1 ELSE u.n = n /\ u.p = p - 1
      /\ u.size = t.size /\ u.chains = chains /\ u \in Tables
  <2>1. u = IF p = 0 THEN AtLevel(shrunk, m, m - 1) ELSE AtLevel(shrunk, n, p - 1)
    BY <1>4, PreviousLevelValue DEF m
  <2> HIDE DEF u
  <2>2. CASE p = 0
    <3>1. u = AtLevel(shrunk, m, m - 1) /\ m \in Nat /\ m - 1 \in Nat
      BY <1>5, <2>1, <2>2
    <3> QED
      BY ZenonT(40), <1>4, <2>2, <3>1, AtLevelFields
  <2>3. CASE p # 0
    <3>1. u = AtLevel(shrunk, n, p - 1) /\ p - 1 \in Nat
      BY <1>1, <2>1, <2>3
    <3> QED
      BY ZenonT(40), <1>1, <1>4, <2>3, <3>1, AtLevelFields
  <2> QED
    BY <2>2, <2>3
<1> HIDE DEF u
<1>7. Level(u.n, u.p) /\ Len(u.chains) = u.n + u.p
  <2>1. CASE p = 0
    <3>1. u.n = m /\ u.p = m - 1
      BY <1>6, <2>1, Zenon
    <3>2. Level(u.n, u.p)
      BY <1>5, <2>1, <3>1
    <3>3. m + (m - 1) = last - 1
      BY <1>5, <2>1
    <3> QED
      BY <1>3, <1>6, <3>1, <3>2, <3>3
  <2>2. CASE p # 0
    <3>1. u.n = n /\ u.p = p - 1
      BY <1>6, <2>2, Zenon
    <3>2. Level(u.n, u.p)
      BY <1>5, <2>2, <3>1
    <3>3. n + (p - 1) = last - 1
      BY <1>1
    <3> QED
      BY <1>3, <1>6, <3>1, <3>2, <3>3
  <2> QED
    BY <2>1, <2>2
<1>8. ASSUME NEW a \in 1..(last - 1)
      PROVE  a \in 1..Len(old) /\ u.chains[a] = old[a] /\ GoodChain(u, a, old[a])
  <2>1. a \in 1..Len(old) /\ u.chains[a] = old[a] /\ GoodChain(t, a, old[a])
    BY <1>1, <1>3, <1>6 DEF Sound
  <2>2. ASSUME NEW r \in Held(old[a]) PROVE Home(u, r.key) = a
    <3>1. Home(t, r.key) = a /\ r.key \in Keys
      BY <2>1 DEF GoodChain, Held, Record
    <3>2. calculate_bucket_chain(t, r.key) # t.n + t.p - 1
      <4>1. calculate_bucket_chain(t, r.key) + 1 # last
        BY <1>1, <3>1 DEF Home
      <4> QED
        BY <1>1, <4>1
    <3>3. IF t.p = 0 THEN u.n = t.n \div 2 /\ u.p = (t.n \div 2) - 1
                     ELSE u.n = t.n /\ u.p = t.p - 1
      BY <1>6 DEF m
    <3>4. calculate_bucket_chain(u, r.key) = calculate_bucket_chain(t, r.key)
      BY <1>1, <3>1, <3>2, <3>3, HomeAfterMerge
    <3> QED
      BY <3>1, <3>4 DEF Home
  <2> QED
    BY <2>1, <2>2 DEF GoodChain
<1>9. Sound(u)
  <2>1. ASSUME NEW a \in 1..Len(u.chains) PROVE GoodChain(u, a, u.chains[a])
    <3>1. a \in 1..(last - 1)
      BY <1>3, <1>6
    <3> QED
      BY <1>8, <3>1
  <2> QED
    BY <1>6, <1>7, <2>1 DEF Sound
<1>10. ASSUME NEW r \in Contents(u) PROVE r \in Contents(t) /\ r \notin Held(c)
  <2>1. PICK a \in 1..Len(u.chains) : r \in Held(u.chains[a])
    BY DEF Contents
  <2>2. a \in 1..(last - 1) /\ a \in 1..Len(old) /\ r \in Held(old[a]) /\ a # last
    <3>1. a \in 1..(last - 1)
      BY <1>3, <1>6
    <3> QED
      BY <1>1, <1>8, <2>1, <3>1
  <2>3. GoodChain(t, a, old[a]) /\ GoodChain(t, last, c)
    <3>1. last \in 1..Len(old)
      BY <1>1
    <3>2. GoodChain(t, a, old[a]) /\ GoodChain(t, last, old[last])
      BY <2>2, <3>1 DEF Sound
    <3> QED
      BY <1>2, <3>2
  <2>4. Home(t, r.key) = a
    BY <2>2, <2>3 DEF GoodChain
  <2> HIDE DEF c, last
  <2> QED
    BY <2>2, <2>3, <2>4 DEF GoodChain, Contents, Held
<1>11. ASSUME NEW r \in Contents(t), r \notin Held(c) PROVE r \in Contents(u)
  <2>1. PICK a \in 1..Len(old) : r \in Held(old[a])
    BY DEF Contents
  <2>2. a # last
    BY <1>2, <1>11, <2>1
  <2>3. a \in 1..(last - 1)
    BY <1>1, <2>2
  <2>4. a \in 1..Len(u.chains) /\ r \in Held(u.chains[a])
    BY <1>3, <1>6, <1>8, <2>1, <2>3
  <2> QED
    BY <2>4 DEF Contents
<1>12. c \in Seq(Seq(Record)) /\ OneEach(c) /\ Held(c) \subseteq Contents(t)
  <2>1. last \in 1..Len(old)
    BY <1>1
  <2>2. GoodChain(t, last, c)
    BY <1>2, <2>1 DEF Sound
  <2>3. Held(c) \subseteq Contents(t)
    BY <1>2, <2>1, ContentsAtHome
  <2> QED
    BY <2>2, <2>3 DEF GoodChain, IsChain
<1>13. \A r \in Held(c) : r.key \notin KeysOf(Contents(u))
  <2> SUFFICES ASSUME NEW r \in Held(c), NEW x \in Contents(u), x.key = r.key PROVE FALSE
    BY DEF KeysOf
  <2>1. x \in Contents(t) /\ r \in Contents(t) /\ x \notin Held(c)
    BY <1>10, <1>12
  <2>2. x = r
    BY <2>1, ContentsAtHome
  <2> QED
    BY <2>1, <2>2
<1> HIDE DEF c
<1>14. Gained(Merge(t), u, Held(c))
  BY <1>2, <1>9, <1>12, <1>13, ReinsertFacts
<1>15. Contents(Merge(t)) = Contents(t)
  <2>1. Contents(Merge(t)) = Contents(u) \union Held(c)
    BY <1>14 DEF Gained
  <2> QED
    BY <1>10, <1>11, <1>12, <2>1
<1>16. Len(Merge(t).chains) = Len(t.chains) - 1
  <2>1. Len(Merge(t).chains) = u.n + u.p
    BY <1>14 DEF Gained, SameLevel, Sound
  <2> QED
    BY <1>1, <1>3, <1>6, <1>7, <2>1
<1> QED
  BY <1>6, <1>14, <1>15, <1>16 DEF Gained, Rearranged

-----------------------------------------------------------------------------
(***************************************************************************)
(* The loops of rebalance_split and rebalance_merge: how full the table is *)
(* when they end.                                                          *)
(***************************************************************************)
Full(size, buckets) == 100 * size > 95 * (BucketCapacity * buckets)

Low(size, buckets) == 100 * size < 75 * (BucketCapacity * buckets)

SplitTurn(t) == IF IsOverloaded(t) THEN Split(t) ELSE t

MergeTurn(t) == IF CanMerge(t) THEN Merge(t) ELSE t

\* The tables after each turn of rebalance_split.
LEMMA SplitRows ==
  ASSUME NEW t, MaxTurns(t) \in Nat
  PROVE  \E rows : /\ rows[0] = t
                   /\ \A k \in 1..MaxTurns(t) : rows[k] = SplitTurn(rows[k - 1])
                   /\ rebalance_split(t) = rows[MaxTurns(t)]
<1> DEFINE n == MaxTurns(t)
           Row(f, k) == IF k = 0 THEN t ELSE SplitTurn(f[k - 1])
           Built(f, m) == f = [k \in 0..m |-> Row(f, k)]
           Exists(m) == \E f : Built(f, m)
           T == {m \in 0..n : Exists(m)}
           rows == CHOOSE f : Built(f, n)
<1>1. n \in Nat
  OBVIOUS
<1>2. Exists(0)
  <2> DEFINE g == [k \in 0..0 |-> t]
  <2>1. g = [k \in 0..0 |-> Row(g, k)]
    <3>1. \A k \in 0..0 : Row(g, k) = t
      OBVIOUS
    <3> HIDE DEF Row
    <3> QED
      BY <3>1
  <2>2. Built(g, 0)
    BY <2>1, Zenon
  <2> HIDE DEF Built
  <2> QED
    BY <2>2
<1>3. ASSUME NEW m \in 1..n, Exists(m - 1) PROVE Exists(m)
  <2>1. PICK f : Built(f, m - 1)
    BY <1>3, Zenon
  <2> DEFINE g == [k \in 0..m |-> Row(f, k)]
  <2>2. ASSUME NEW k \in 0..m PROVE Row(g, k) = Row(f, k)
    <3>1. CASE k = 0
      BY <3>1
    <3>2. CASE k # 0
      <4>1. k - 1 \in 0..(m - 1) /\ k - 1 \in 0..m
        BY <1>1, <3>2
      <4>2. f[k - 1] = Row(f, k - 1)
        BY <2>1, <4>1, Zenon
      <4>3. g[k - 1] = Row(f, k - 1)
        BY <4>1, Zenon
      <4> HIDE DEF g
      <4> QED
        BY <4>2, <4>3, Zenon
    <3> QED
      BY <3>1, <3>2
  <2>3. Built(g, m)
    <3>1. \A k \in 0..m : Row(g, k) = Row(f, k)
      BY <2>2
    <3> HIDE DEF Row
    <3> QED
      BY <3>1
  <2> HIDE DEF Built, g
  <2> QED
    BY <2>3
<1>4. Exists(n)
  <2> HIDE DEF Exists, n
  <2>1. 0 \in T
    BY <1>1, <1>2
  <2>2. \A m \in 1..n : m - 1 \in T => m \in T
    BY <1>1, <1>3
  <2> HIDE DEF T
  <2>3. n \in T
    BY <1>1, <2>1, <2>2, UpTo
  <2> QED
    BY <2>3 DEF T
<1>5. Built(rows, n)
  <2> HIDE DEF Built
  <2> QED
    BY <1>4, Zenon
<1>6. rebalance_split(t) = rows[n]
  BY Zenon DEF rebalance_split, SplitTurn
<1> HIDE DEF rows
<1>7. \A k \in 0..n : rows[k] = Row(rows, k)
  BY <1>5, Zenon
<1>8. rows[0] = t
  BY <1>1, <1>7
<1>9. ASSUME NEW m \in 1..n PROVE rows[m] = SplitTurn(rows[m - 1])
  <2>1. m \in 0..n /\ m # 0
    BY <1>1
  <2> QED
    BY <1>7, <2>1, Zenon
<1> QED
  BY <1>6, <1>8, <1>9, Zenon

\* The tables after each turn of rebalance_merge.
LEMMA MergeRows ==
  ASSUME NEW t, MaxTurns(t) \in Nat
  PROVE  \E rows : /\ rows[0] = t
                   /\ \A k \in 1..MaxTurns(t) : rows[k] = MergeTurn(rows[k - 1])
                   /\ rebalance_merge(t) = rows[MaxTurns(t)]
<1> DEFINE n == MaxTurns(t)
           Row(f, k) == IF k = 0 THEN t ELSE MergeTurn(f[k - 1])
           Built(f, m) == f = [k \in 0..m |-> Row(f, k)]
           Exists(m) == \E f : Built(f, m)
           T == {m \in 0..n : Exists(m)}
           rows == CHOOSE f : Built(f, n)
<1>1. n \in Nat
  OBVIOUS
<1>2. Exists(0)
  <2> DEFINE g == [k \in 0..0 |-> t]
  <2>1. g = [k \in 0..0 |-> Row(g, k)]
    <3>1. \A k \in 0..0 : Row(g, k) = t
      OBVIOUS
    <3> HIDE DEF Row
    <3> QED
      BY <3>1
  <2>2. Built(g, 0)
    BY <2>1, Zenon
  <2> HIDE DEF Built
  <2> QED
    BY <2>2
<1>3. ASSUME NEW m \in 1..n, Exists(m - 1) PROVE Exists(m)
  <2>1. PICK f : Built(f, m - 1)
    BY <1>3, Zenon
  <2> DEFINE g == [k \in 0..m |-> Row(f, k)]
  <2>2. ASSUME NEW k \in 0..m PROVE Row(g, k) = Row(f, k)
    <3>1. CASE k = 0
      BY <3>1
    <3>2. CASE k # 0
      <4>1. k - 1 \in 0..(m - 1) /\ k - 1 \in 0..m
        BY <1>1, <3>2
      <4>2. f[k - 1] = Row(f, k - 1)
        BY <2>1, <4>1, Zenon
      <4>3. g[k - 1] = Row(f, k - 1)
        BY <4>1, Zenon
      <4> HIDE DEF g
      <4> QED
        BY <4>2, <4>3, Zenon
    <3> QED
      BY <3>1, <3>2
  <2>3. Built(g, m)
    <3>1. \A k \in 0..m : Row(g, k) = Row(f, k)
      BY <2>2
    <3> HIDE DEF Row
    <3> QED
      BY <3>1
  <2> HIDE DEF Built, g
  <2> QED
    BY <2>3
<1>4. Exists(n)
  <2> HIDE DEF Exists, n
  <2>1. 0 \in T
    BY <1>1, <1>2
  <2>2. \A m \in 1..n : m - 1 \in T => m \in T
    BY <1>1, <1>3
  <2> HIDE DEF T
  <2>3. n \in T
    BY <1>1, <2>1, <2>2, UpTo
  <2> QED
    BY <2>3 DEF T
<1>5. Built(rows, n)
  <2> HIDE DEF Built
  <2> QED
    BY <1>4, Zenon
<1>6. rebalance_merge(t) = rows[n]
  BY Zenon DEF rebalance_merge, MergeTurn
<1> HIDE DEF rows
<1>7. \A k \in 0..n : rows[k] = Row(rows, k)
  BY <1>5, Zenon
<1>8. rows[0] = t
  BY <1>1, <1>7
<1>9. ASSUME NEW m \in 1..n PROVE rows[m] = MergeTurn(rows[m - 1])
  <2>1. m \in 0..n /\ m # 0
    BY <1>1
  <2> QED
    BY <1>7, <2>1, Zenon
<1> QED
  BY <1>6, <1>8, <1>9, Zenon

\* How the load grows with the size and falls with the buckets.
LEMMA LoadFacts ==
  ASSUME NEW s \in Nat, NEW b \in Nat
  PROVE  /\ Full(s, b) => Full(s + 1, b)
         /\ Low(s + 1, b) => Low(s, b)
         /\ s <= 2 * (BucketCapacity * b) => ~Full(s, b + b + s)
         /\ b > 0 /\ (Full(s, b) => Low(s, b + 1)) => s + 1 <= 2 * (BucketCapacity * b)
<1> DEFINE c == BucketCapacity
<1>1. c \in Nat \ {0}
  BY HashTableAssumption
<1> HIDE DEF c
<1>2. (Full(s, b) => Full(s + 1, b)) /\ (Low(s + 1, b) => Low(s, b))
  <2> DEFINE w == c * b
  <2>1. w \in Nat
    BY <1>1
  <2>2. /\ Full(s, b) <=> 100 * s > 95 * w
        /\ Full(s + 1, b) <=> 100 * (s + 1) > 95 * w
        /\ Low(s, b) <=> 100 * s < 75 * w
        /\ Low(s + 1, b) <=> 100 * (s + 1) < 75 * w
    BY DEF Full, Low, c
  <2> HIDE DEF w
  <2> QED
    BY <2>1, <2>2
<1>3. ASSUME s <= 2 * (BucketCapacity * b) PROVE ~Full(s, b + b + s)
  <2> DEFINE w == c * b
             v == c * s
  <2>1. w \in Nat /\ v \in Nat /\ v >= s /\ s <= 2 * w
    BY <1>1, <1>3 DEF c
  <2>2. c * (b + b + s) = 2 * w + v
    BY <1>1
  <2>3. Full(s, b + b + s) <=> 100 * s > 95 * (2 * w + v)
    BY <2>2 DEF Full, c
  <2> HIDE DEF w, v
  <2> QED
    BY <2>1, <2>3
<1>4. ASSUME b > 0, Full(s, b) => Low(s, b + 1) PROVE s + 1 <= 2 * (BucketCapacity * b)
  <2> DEFINE w == c * b
  <2>1. w \in Nat /\ w >= c
    BY <1>1, <1>4
  <2>2. c * (b + 1) = w + c
    BY <1>1
  <2>3. (Full(s, b) <=> 100 * s > 95 * w) /\ (Low(s, b + 1) <=> 100 * s < 75 * (w + c))
    BY <2>2 DEF Full, Low, c
  <2>4. BucketCapacity * b = w
    BY DEF c
  <2> HIDE DEF w
  <2>5. s + 1 <= 2 * w
    BY <1>1, <1>4, <2>1, <2>3
  <2> QED
    BY <2>4, <2>5
<1> QED
  BY <1>2, <1>3, <1>4

\* A table has buckets, and the guards of the two loops compare its load.
LEMMA SizeOfTable ==
  ASSUME NEW t, Sound(t), t.size \in Nat
  PROVE  /\ Len(t.chains) \in Nat /\ Len(t.chains) > 0 /\ Len(t.chains) >= MinBucketCount
         /\ MinBucketCount \in Nat
         /\ MaxTurns(t) = Len(t.chains) + t.size /\ MaxTurns(t) \in Nat
         /\ IsOverloaded(t) <=> Full(t.size, Len(t.chains))
         /\ CanMerge(t) <=> Len(t.chains) > MinBucketCount /\ Low(t.size, Len(t.chains))
<1>1. /\ t.n \in Nat /\ t.n > 0 /\ t.p \in Nat /\ t.n >= MinBucketCount /\ MinBucketCount \in Nat
      /\ Len(t.chains) = t.n + t.p
  BY LevelFacts DEF Sound
<1>2. Len(t.chains) \in Nat /\ Len(t.chains) > 0 /\ Len(t.chains) >= MinBucketCount
  BY <1>1
<1>3. MaxTurns(t) = Len(t.chains) + t.size /\ MaxTurns(t) \in Nat
  BY <1>2 DEF MaxTurns
<1>4. IsOverloaded(t) <=> Full(t.size, Len(t.chains))
  BY DEF IsOverloaded, Full, Slots
<1>5. CanMerge(t) <=> Len(t.chains) > MinBucketCount /\ Low(t.size, Len(t.chains))
  BY DEF CanMerge, IsUnderloaded, Low, Slots
<1> QED
  BY <1>1, <1>2, <1>3, <1>4, <1>5

\* Two turns.
LEMMA RearrangedTwice ==
  ASSUME NEW t, NEW u, NEW w, Rearranged(u, t), Rearranged(w, u)
  PROVE  Rearranged(w, t)
BY DEF Rearranged

\* rebalance_split ends below the maximum, and splits no further than it must.
LEMMA RebalanceSplitFacts ==
  ASSUME NEW t, Sound(t), t.size \in Nat
  PROVE  LET u == rebalance_split(t)
         IN /\ Rearranged(u, t)
            /\ Len(u.chains) = Len(t.chains) \/ Full(t.size, Len(u.chains) - 1)
            /\ t.size <= 2 * (BucketCapacity * Len(t.chains)) => ~Full(t.size, Len(u.chains))
<1> DEFINE n == MaxTurns(t)
           b == Len(t.chains)
           s == t.size
           At(u, k) == /\ Rearranged(u, t)
                       /\ Len(u.chains) = b \/ Full(s, Len(u.chains) - 1)
                       /\ Full(s, Len(u.chains)) => Len(u.chains) = b + k
<1>1. n = b + s /\ n \in Nat /\ b \in Nat /\ b > 0 /\ s \in Nat
  BY SizeOfTable
<1>2. PICK rows : /\ rows[0] = t
                  /\ \A k \in 1..n : rows[k] = SplitTurn(rows[k - 1])
                  /\ rebalance_split(t) = rows[n]
  BY <1>1, SplitRows
<1> HIDE DEF n
<1> DEFINE U == {m \in 0..n : At(rows[m], m)}
<1>3. At(rows[0], 0)
  <2>1. Rearranged(t, t)
    BY DEF Rearranged
  <2> QED
    BY <1>1, <1>2, <2>1
<1>4. ASSUME NEW m \in 1..n, At(rows[m - 1], m - 1) PROVE At(rows[m], m)
  <2> DEFINE u == rows[m - 1]
  <2>1. rows[m] = SplitTurn(u)
    BY <1>2
  <2>2. At(u, m - 1)
    BY <1>4
  <2> HIDE DEF u
  <2>3. Sound(u) /\ u.size = s
    BY <2>2 DEF Rearranged
  <2>4. IsOverloaded(u) <=> Full(s, Len(u.chains))
    BY <1>1, <2>3, SizeOfTable
  <2>5. Len(u.chains) \in Nat
    BY <1>1, <2>3, SizeOfTable
  <2>6. CASE IsOverloaded(u)
    <3> DEFINE w == Split(u)
    <3>1. Rearranged(w, u) /\ Len(w.chains) = Len(u.chains) + 1
      BY <2>3, SplitFacts
    <3> HIDE DEF w
    <3>2. Rearranged(w, t)
      BY <2>2, <3>1, RearrangedTwice
    <3>3. Len(w.chains) - 1 = Len(u.chains)
      BY <2>5, <3>1
    <3>4. Full(s, Len(w.chains) - 1)
      BY <2>4, <2>6, <3>3
    <3>5. Len(w.chains) = b + m
      BY <1>1, <2>2, <2>4, <2>6, <3>1
    <3>6. rows[m] = w
      BY <2>1, <2>6 DEF SplitTurn, w
    <3> QED
      BY <3>2, <3>4, <3>5, <3>6
  <2>7. CASE ~IsOverloaded(u)
    <3>1. rows[m] = u
      BY <2>1, <2>7 DEF SplitTurn
    <3> QED
      BY <2>2, <2>4, <2>7, <3>1
  <2> QED
    BY <2>6, <2>7
<1>5. n \in U
  <2> HIDE DEF At
  <2>1. 0 \in U /\ \A m \in 1..n : m - 1 \in U => m \in U
    BY <1>1, <1>3, <1>4
  <2> HIDE DEF U
  <2> QED
    BY <1>1, <2>1, UpTo
<1> DEFINE u == rows[n]
<1>6. At(u, n)
  BY <1>5
<1> HIDE DEF u
<1>7. ASSUME s <= 2 * (BucketCapacity * b) PROVE ~Full(s, Len(u.chains))
  <2>1. ~Full(s, b + b + s)
    BY <1>1, <1>7, LoadFacts
  <2>2. b + n = b + b + s
    BY <1>1
  <2> QED
    BY <1>6, <2>1, <2>2
<1> QED
  BY <1>2, <1>6, <1>7 DEF u

\* rebalance_merge ends above the minimum, and merges no further than it must.
LEMMA RebalanceMergeFacts ==
  ASSUME NEW t, Sound(t), t.size \in Nat
  PROVE  LET u == rebalance_merge(t)
         IN /\ Rearranged(u, t)
            /\ Len(u.chains) = Len(t.chains) \/ Low(t.size, Len(u.chains) + 1)
            /\ Low(t.size, Len(u.chains)) => Len(u.chains) = MinBucketCount
<1> DEFINE n == MaxTurns(t)
           b == Len(t.chains)
           s == t.size
           Done(u) == Low(s, Len(u.chains)) => Len(u.chains) = MinBucketCount
           At(u, k) == /\ Rearranged(u, t)
                       /\ Len(u.chains) = b \/ Low(s, Len(u.chains) + 1)
                       /\ Done(u) \/ Len(u.chains) = b - k
<1>1. n = b + s /\ n \in Nat /\ b \in Nat /\ b > 0 /\ s \in Nat
  BY SizeOfTable
<1>2. PICK rows : /\ rows[0] = t
                  /\ \A k \in 1..n : rows[k] = MergeTurn(rows[k - 1])
                  /\ rebalance_merge(t) = rows[n]
  BY <1>1, MergeRows
<1> HIDE DEF n
<1> DEFINE U == {m \in 0..n : At(rows[m], m)}
<1>3. At(rows[0], 0)
  <2>1. Rearranged(t, t)
    BY DEF Rearranged
  <2> QED
    BY <1>1, <1>2, <2>1
<1>4. ASSUME NEW m \in 1..n, At(rows[m - 1], m - 1) PROVE At(rows[m], m)
  <2> DEFINE u == rows[m - 1]
  <2>1. rows[m] = MergeTurn(u)
    BY <1>2
  <2>2. At(u, m - 1)
    BY <1>4
  <2> HIDE DEF u
  <2>3. Sound(u) /\ u.size = s
    BY <2>2 DEF Rearranged
  <2>4. /\ CanMerge(u) <=> Len(u.chains) > MinBucketCount /\ Low(s, Len(u.chains))
        /\ Len(u.chains) \in Nat /\ Len(u.chains) >= MinBucketCount /\ MinBucketCount \in Nat
    BY <1>1, <2>3, SizeOfTable
  <2>5. CASE CanMerge(u)
    <3> DEFINE w == Merge(u)
    <3>1. Rearranged(w, u) /\ Len(w.chains) = Len(u.chains) - 1
      BY <2>3, <2>4, <2>5, MergeFacts
    <3> HIDE DEF w
    <3>2. Rearranged(w, t)
      BY <2>2, <3>1, RearrangedTwice
    <3>3. Len(w.chains) + 1 = Len(u.chains)
      BY <2>4, <3>1
    <3>4. Low(s, Len(w.chains) + 1)
      BY <2>4, <2>5, <3>3
    <3>5. Len(w.chains) = b - m
      <4>1. Len(u.chains) = b - (m - 1)
        BY <2>2, <2>4, <2>5
      <4> QED
        BY <1>1, <3>1, <4>1
    <3>6. rows[m] = w
      BY <2>1, <2>5 DEF MergeTurn, w
    <3> QED
      BY <3>2, <3>4, <3>5, <3>6
  <2>6. CASE ~CanMerge(u)
    <3>1. rows[m] = u
      BY <2>1, <2>6 DEF MergeTurn
    <3>2. Done(u)
      BY <2>4, <2>6
    <3> QED
      BY <2>2, <3>1, <3>2
  <2> QED
    BY <2>5, <2>6
<1>5. n \in U
  <2> HIDE DEF At
  <2>1. 0 \in U /\ \A m \in 1..n : m - 1 \in U => m \in U
    BY <1>1, <1>3, <1>4
  <2> HIDE DEF U
  <2> QED
    BY <1>1, <2>1, UpTo
<1> DEFINE u == rows[n]
<1>6. At(u, n)
  BY <1>5
<1> HIDE DEF u
<1>7. Done(u)
  <2>1. Sound(u) /\ u.size = s
    BY <1>6 DEF Rearranged
  <2>2. Len(u.chains) \in Nat /\ Len(u.chains) > 0
    BY <1>1, <2>1, SizeOfTable
  <2>3. Len(u.chains) # b - n
    BY <1>1, <2>2
  <2> QED
    BY <1>6, <2>3
<1> QED
  BY <1>2, <1>6, <1>7 DEF u

-----------------------------------------------------------------------------
(***************************************************************************)
(* A lookup finds the record of its key, if the table has one.             *)
(***************************************************************************)
LEMMA FirstOf ==
  ASSUME NEW I \in SUBSET Nat, I # {}
  PROVE  Min(I) \in I
<1>1. \E m \in I : \A k \in I : m <= k
  BY LeastNatural, Zenon
<1> QED
  BY <1>1 DEF Min

\* The lookup in one bucket.
LEMMA IndexInFacts ==
  ASSUME NEW s \in Seq(Record), NEW key
  PROVE  LET j == IndexIn(s, key)
         IN /\ j # 0 => j \in 1..Len(s) /\ s[j].key = key
            /\ j = 0 => \A k \in 1..Len(s) : s[k].key # key
<1> DEFINE I == {k \in 1..Len(s) : s[k].key = key}
<1>1. IndexIn(s, key) = IF I # {} THEN Min(I) ELSE 0
  BY DEF IndexIn, SelectInSeq
<1>2. I \in SUBSET Nat /\ 0 \notin I
  OBVIOUS
<1>3. CASE I # {}
  <2>1. IndexIn(s, key) \in I
    <3> HIDE DEF I
    <3> QED
      BY <1>1, <1>2, <1>3, FirstOf
  <2> QED
    BY <2>1
<1>4. CASE I = {}
  <2>1. IndexIn(s, key) = 0
    BY <1>1, <1>4, Zenon
  <2> QED
    BY <1>4, <2>1
<1> QED
  BY <1>3, <1>4

\* The lookup in one chain.
LEMMA BucketWithFacts ==
  ASSUME NEW c \in Seq(Seq(Record)), NEW key
  PROVE  LET i == BucketWith(c, key)
             j == IndexIn(c[i], key)
         IN /\ i # 0 => i \in 1..Len(c) /\ j \in 1..Len(c[i]) /\ KeyAt(c, i, j) = key
            /\ i = 0 => \A r \in Held(c) : r.key # key
<1> DEFINE I == {k \in 1..Len(c) : IndexIn(c[k], key) # 0}
           i == BucketWith(c, key)
<1>1. i = IF I # {} THEN Min(I) ELSE 0
  BY DEF BucketWith, SelectInSeq
<1>2. I \in SUBSET Nat /\ 0 \notin I
  OBVIOUS
<1>3. \A k \in 1..Len(c) : c[k] \in Seq(Record)
  OBVIOUS
<1>4. CASE I # {}
  <2>1. i \in I
    <3> HIDE DEF I
    <3> QED
      BY <1>1, <1>2, <1>4, FirstOf
  <2> DEFINE s == c[i]
             j == IndexIn(s, key)
  <2>2. i \in 1..Len(c) /\ j # 0 /\ s \in Seq(Record) /\ i # 0
    BY <1>2, <1>3, <2>1
  <2> HIDE DEF s
  <2>3. j \in 1..Len(s) /\ s[j].key = key
    BY <2>2, IndexInFacts
  <2> QED
    BY <2>2, <2>3 DEF KeyAt, s
<1>5. CASE I = {}
  <2>1. i = 0
    BY <1>1, <1>5, Zenon
  <2>2. ASSUME NEW r \in Held(c) PROVE r.key # key
    <3>1. PICK k \in 1..Len(c) : \E j \in 1..Len(c[k]) : c[k][j] = r
      BY DEF Held
    <3> DEFINE s == c[k]
    <3>2. s \in Seq(Record) /\ IndexIn(s, key) = 0 /\ \E j \in 1..Len(s) : s[j] = r
      BY <1>3, <1>5, <3>1
    <3> HIDE DEF s
    <3>3. \A j \in 1..Len(s) : s[j].key # key
      BY <3>2, IndexInFacts
    <3> QED
      BY <3>2, <3>3
  <2> QED
    BY <2>1, <2>2
<1> QED
  BY <1>4, <1>5

\* The lookup in the table.
LEMMA LookupFacts ==
  ASSUME NEW t, Sound(t), NEW key \in Keys
  PROVE  /\ contains(t, key) <=> key \in KeysOf(Contents(t))
         /\ \A r \in Contents(t) : r.key = key => find(t, key) = r.value
         /\ ~contains(t, key) => find(t, key) = Absent
<1> DEFINE b == Home(t, key)
           c == t.chains[b]
           i == BucketWith(c, key)
           s == c[i]
           j == IndexIn(s, key)
<1>1. /\ contains(t, key) <=> i # 0
      /\ find(t, key) = IF i = 0 THEN Absent ELSE s[j].value
  BY DEF contains, find, ChainOf, Home
<1>2. b \in 1..Len(t.chains)
  BY HomeExists
<1>3. c \in Seq(Seq(Record)) /\ Held(c) \subseteq Contents(t)
  BY <1>2, ContentsAtHome DEF Sound, GoodChain, IsChain
<1>4. \A r \in Contents(t) : r.key = key => r \in Held(c)
  BY ContentsAtHome
<1> HIDE DEF c
<1>5. /\ i # 0 => i \in 1..Len(c) /\ j \in 1..Len(s) /\ KeyAt(c, i, j) = key
      /\ i = 0 => \A r \in Held(c) : r.key # key
  BY <1>3, BucketWithFacts
<1> HIDE DEF i, j
<1>6. CASE i = 0
  <2>1. key \notin KeysOf(Contents(t))
    BY <1>4, <1>5, <1>6 DEF KeysOf
  <2> QED
    BY <1>1, <1>6, <2>1 DEF KeysOf
<1>7. CASE i # 0
  <2> DEFINE x == s[j]
  <2>1. x \in Held(c) /\ x.key = key
    BY <1>3, <1>5, <1>7, HeldRecords DEF KeyAt
  <2>2. x \in Contents(t)
    BY <1>3, <2>1
  <2>3. contains(t, key) /\ find(t, key) = x.value
    BY <1>1, <1>7, Zenon
  <2> HIDE DEF x
  <2>4. \A r \in Contents(t) : r.key = key => r = x
    BY <2>1, <2>2, ContentsAtHome
  <2> QED
    BY <2>1, <2>2, <2>3, <2>4 DEF KeysOf
<1> QED
  BY <1>6, <1>7

-----------------------------------------------------------------------------
(***************************************************************************)
(* A record taken out of its bucket, and one exchanged for another of its  *)
(* key.                                                                    *)
(***************************************************************************)
LEMMA ChainWithoutFacts ==
  ASSUME NEW c, IsChain(c), OneEach(c), NEW i \in 1..Len(c), NEW j \in 1..Len(c[i])
  PROVE  LET d == ChainWithout(c, i, j)
         IN IsChain(d) /\ OneEach(d) /\ Held(d) = Held(c) \ {c[i][j]}
<1> DEFINE s == c[i]
           e == RemoveAt(s, j)
           d == ChainWithout(c, i, j)
           r == s[j]
<1>1. /\ c \in Seq(Seq(Record)) /\ Len(c) \in Nat /\ Len(c) > 0 /\ BucketCapacity \in Nat
      /\ \A k \in 1..Len(c) : c[k] \in Seq(Record) /\ Len(c[k]) \in Nat /\ Len(c[k]) <= BucketCapacity
  BY HashTableAssumption DEF IsChain
<1>2. s \in Seq(Record) /\ j \in 1..Len(s)
  BY <1>1
<1>3. d = [c EXCEPT ![i] = e]
  BY DEF ChainWithout
<1> HIDE DEF s
<1>4. e \in Seq(Record) /\ Inserted(s, e, j, r)
  BY <1>2, RemoveAtRemoves
<1> HIDE DEF e, d, r
<1>5. /\ d \in Seq(Seq(Record)) /\ Len(d) = Len(c) /\ d[i] = e
      /\ \A m \in 1..Len(c) : m # i => d[m] = c[m]
  BY <1>1, <1>3, <1>4, ExceptSeq
<1>6. Grown(c, d, i, j, r)
  <2>1. i \in 1..Len(d) /\ \A m \in 1..Len(d) : m # i => c[m] = d[m]
    BY <1>5
  <2>2. Inserted(c[i], d[i], j, r)
    BY <1>4, <1>5 DEF s
  <2> QED
    BY <1>5, <2>1, <2>2 DEF Grown
<1>7. /\ Held(c) = Held(d) \union {r}
      /\ OneEach(d) /\ \A x \in Held(d) : x.key # r.key
  BY <1>1, <1>5, <1>6, GrownChain
<1>8. IsChain(d)
  <2>1. ASSUME NEW k \in 1..Len(d) PROVE Len(d[k]) <= BucketCapacity
    <3>1. CASE k = i
      <4>1. Len(s) = Len(e) + 1 /\ Len(e) \in Nat /\ Len(s) <= BucketCapacity
        BY <1>1, <1>4 DEF Inserted, s
      <4> QED
        BY <1>1, <1>5, <3>1, <4>1
    <3>2. CASE k # i
      BY <1>1, <1>5, <3>2
    <3> QED
      BY <3>1, <3>2
  <2> QED
    BY <1>1, <1>5, <2>1 DEF IsChain
<1>9. Held(d) = Held(c) \ {r}
  BY <1>7
<1> QED
  BY <1>7, <1>8, <1>9 DEF d, r, s

ChainChanged(c, i, j, x) == [c EXCEPT ![i] = [c[i] EXCEPT ![j] = x]]

\* The other records keep their places.
LEMMA ChainChangedFacts ==
  ASSUME NEW c, IsChain(c), OneEach(c), NEW i \in 1..Len(c), NEW j \in 1..Len(c[i]),
         NEW x \in Record, x.key = c[i][j].key
  PROVE  LET d == ChainChanged(c, i, j, x)
         IN IsChain(d) /\ OneEach(d) /\ Held(d) = (Held(c) \ {c[i][j]}) \union {x}
<1> DEFINE s == c[i]
           e == [s EXCEPT ![j] = x]
           d == ChainChanged(c, i, j, x)
           r == s[j]
<1>1. /\ c \in Seq(Seq(Record)) /\ Len(c) \in Nat /\ Len(c) > 0
      /\ \A k \in 1..Len(c) : c[k] \in Seq(Record) /\ Len(c[k]) <= BucketCapacity
  BY DEF IsChain
<1>2. s \in Seq(Record) /\ j \in 1..Len(s)
  BY <1>1
<1>3. d = [c EXCEPT ![i] = e]
  BY DEF ChainChanged
<1>4. x.key = r.key
  OBVIOUS
<1> HIDE DEF s
<1>5. /\ e \in Seq(Record) /\ Len(e) = Len(s) /\ e[j] = x
      /\ \A l \in 1..Len(s) : l # j => e[l] = s[l]
  BY <1>2, ExceptSeq
<1> HIDE DEF e, d, r
<1>6. /\ d \in Seq(Seq(Record)) /\ Len(d) = Len(c) /\ d[i] = e
      /\ \A m \in 1..Len(c) : m # i => d[m] = c[m]
  BY <1>1, <1>3, <1>5, ExceptSeq
<1>7. ASSUME NEW m \in 1..Len(c)
      PROVE  /\ Len(d[m]) = Len(c[m])
             /\ \A l \in 1..Len(c[m]) : d[m][l] = IF m = i /\ l = j THEN x ELSE c[m][l]
  <2>1. CASE m = i
    <3>1. d[m] = e /\ c[m] = s
      BY <1>6, <2>1 DEF s
    <3> QED
      BY <1>5, <2>1, <3>1
  <2>2. CASE m # i
    BY <1>6, <2>2
  <2> QED
    BY <2>1, <2>2
<1>8. IsChain(d)
  BY <1>1, <1>6, <1>7 DEF IsChain
<1>9. c[i][j] = r
  BY DEF r, s
<1>10. \A m \in 1..Len(c) : \A l \in 1..Len(c[m]) : KeyAt(d, m, l) = KeyAt(c, m, l)
  <2> SUFFICES ASSUME NEW m \in 1..Len(c), NEW l \in 1..Len(c[m]) PROVE KeyAt(d, m, l) = KeyAt(c, m, l)
    OBVIOUS
  <2>1. d[m][l] = IF m = i /\ l = j THEN x ELSE c[m][l]
    BY <1>7
  <2> QED
    BY <1>4, <1>9, <2>1 DEF KeyAt
<1>11. OneEach(d)
  <2> SUFFICES ASSUME NEW m \in 1..Len(d), NEW n \in 1..Len(d), NEW k \in 1..Len(d[m]),
                      NEW l \in 1..Len(d[n]), KeyAt(d, m, k) = KeyAt(d, n, l)
               PROVE  m = n /\ k = l
    BY DEF OneEach
  <2>1. m \in 1..Len(c) /\ n \in 1..Len(c) /\ k \in 1..Len(c[m]) /\ l \in 1..Len(c[n])
    BY <1>6, <1>7
  <2>2. KeyAt(c, m, k) = KeyAt(c, n, l)
    BY <1>10, <2>1
  <2> QED
    BY <2>1, <2>2, OnlyOnce
<1>12. ASSUME NEW y \in Held(d) PROVE y \in (Held(c) \ {r}) \union {x}
  <2>1. PICK m \in 1..Len(d) : \E l \in 1..Len(d[m]) : d[m][l] = y
    BY DEF Held
  <2>2. PICK l \in 1..Len(d[m]) : d[m][l] = y
    BY <2>1
  <2>3. m \in 1..Len(c) /\ l \in 1..Len(c[m]) /\ y = IF m = i /\ l = j THEN x ELSE c[m][l]
    BY <1>6, <1>7, <2>2
  <2>4. CASE m = i /\ l = j
    BY <2>3, <2>4
  <2>5. CASE ~(m = i /\ l = j)
    <3>1. y = c[m][l]
      BY <2>3, <2>5
    <3>2. y \in Held(c)
      BY <1>1, <2>3, <3>1, HeldRecords
    <3>3. y # r
      <4>1. SUFFICES ASSUME y = r PROVE FALSE
        OBVIOUS
      <4>2. KeyAt(c, m, l) = KeyAt(c, i, j)
        BY <1>9, <3>1, <4>1 DEF KeyAt
      <4>3. m = i /\ l = j
        BY <2>3, <4>2, OnlyOnce
      <4> QED
        BY <2>5, <4>3
    <3> QED
      BY <3>2, <3>3
  <2> QED
    BY <2>4, <2>5
<1>13. ASSUME NEW y \in (Held(c) \ {r}) \union {x} PROVE y \in Held(d)
  <2>1. CASE y = x
    <3>1. i \in 1..Len(d) /\ j \in 1..Len(d[i]) /\ d[i][j] = x
      BY <1>6, <1>7
    <3> QED
      BY <1>6, <2>1, <3>1, HeldRecords
  <2>2. CASE y \in Held(c) /\ y # r
    <3>1. PICK m \in 1..Len(c) : \E l \in 1..Len(c[m]) : c[m][l] = y
      BY <2>2 DEF Held
    <3>2. PICK l \in 1..Len(c[m]) : c[m][l] = y
      BY <3>1
    <3>3. ~(m = i /\ l = j)
      BY <1>9, <2>2, <3>2
    <3>4. m \in 1..Len(d) /\ l \in 1..Len(d[m]) /\ d[m][l] = y
      BY <1>6, <1>7, <3>2, <3>3
    <3> QED
      BY <1>6, <3>4, HeldRecords
  <2> QED
    BY <2>1, <2>2
<1>14. Held(d) = (Held(c) \ {r}) \union {x}
  BY <1>12, <1>13
<1> QED
  BY <1>8, <1>9, <1>11, <1>14 DEF d

\* A table without one of its records.
LEMMA SmallerTable ==
  ASSUME NEW t, Sound(t), NEW b \in 1..Len(t.chains),
         NEW i \in 1..Len(t.chains[b]), NEW j \in 1..Len(t.chains[b][i])
  PROVE  LET u == WithChain(t, b, ChainWithout(t.chains[b], i, j))
         IN /\ Sound(u) /\ SameLevel(u, t) /\ u.size = t.size
            /\ Contents(u) = Contents(t) \ {t.chains[b][i][j]}
            /\ t.chains[b][i][j] \in Contents(t)
<1> DEFINE c == t.chains[b]
           r == c[i][j]
           d == ChainWithout(c, i, j)
           u == WithChain(t, b, d)
<1>1. GoodChain(t, b, c) /\ IsChain(c) /\ OneEach(c) /\ c \in Seq(Seq(Record))
  BY DEF Sound, GoodChain, IsChain
<1>2. i \in 1..Len(c) /\ j \in 1..Len(c[i])
  OBVIOUS
<1>3. Held(c) \subseteq Contents(t)
  BY ContentsAtHome
<1> HIDE DEF c
<1>4. IsChain(d) /\ OneEach(d) /\ Held(d) = Held(c) \ {r}
  BY <1>1, <1>2, ChainWithoutFacts
<1>5. r \in Held(c)
  BY <1>1, <1>2, HeldRecords
<1> HIDE DEF d, r
<1>6. GoodChain(t, b, d)
  BY <1>1, <1>4 DEF GoodChain
<1>7. /\ Sound(u) /\ SameLevel(u, t) /\ u.size = t.size
      /\ Contents(u) = (Contents(t) \ Held(t.chains[b])) \union Held(d)
  BY <1>6, WithChainFacts
<1>8. Contents(u) = Contents(t) \ {r}
  BY <1>3, <1>4, <1>5, <1>7 DEF c
<1> QED
  BY <1>3, <1>5, <1>7, <1>8 DEF c, r, d

\* A table with a record exchanged.
LEMMA ChangedTable ==
  ASSUME NEW t, Sound(t), NEW b \in 1..Len(t.chains),
         NEW i \in 1..Len(t.chains[b]), NEW j \in 1..Len(t.chains[b][i]),
         NEW x \in Record, x.key = t.chains[b][i][j].key
  PROVE  LET u == WithChain(t, b, ChainChanged(t.chains[b], i, j, x))
         IN /\ Sound(u) /\ SameLevel(u, t) /\ u.size = t.size
            /\ Contents(u) = (Contents(t) \ {t.chains[b][i][j]}) \union {x}
            /\ t.chains[b][i][j] \in Contents(t)
<1> DEFINE c == t.chains[b]
           r == c[i][j]
           d == ChainChanged(c, i, j, x)
           u == WithChain(t, b, d)
<1>1. GoodChain(t, b, c) /\ IsChain(c) /\ OneEach(c) /\ c \in Seq(Seq(Record))
  BY DEF Sound, GoodChain, IsChain
<1>2. i \in 1..Len(c) /\ j \in 1..Len(c[i]) /\ x.key = c[i][j].key
  OBVIOUS
<1>3. Held(c) \subseteq Contents(t)
  BY ContentsAtHome
<1> HIDE DEF c
<1>4. IsChain(d) /\ OneEach(d) /\ Held(d) = (Held(c) \ {r}) \union {x}
  BY <1>1, <1>2, ChainChangedFacts
<1>5. r \in Held(c) /\ x.key = r.key
  BY <1>1, <1>2, HeldRecords
<1> HIDE DEF d, r
<1>6. GoodChain(t, b, d)
  BY <1>1, <1>4, <1>5 DEF GoodChain
<1>7. /\ Sound(u) /\ SameLevel(u, t) /\ u.size = t.size
      /\ Contents(u) = (Contents(t) \ Held(t.chains[b])) \union Held(d)
  BY <1>6, WithChainFacts
<1>8. Contents(u) = (Contents(t) \ {r}) \union {x}
  BY <1>3, <1>4, <1>5, <1>7 DEF c
<1> QED
  BY <1>3, <1>5, <1>7, <1>8 DEF c, r, d

-----------------------------------------------------------------------------
(***************************************************************************)
(* The tables between calls: they count their records, and their load is   *)
(* within the bounds that the two loops leave.                             *)
(***************************************************************************)
Resized(t, k) == [t EXCEPT !.size = k]

\* The size counts, it places nothing.
LEMMA ResizedFacts ==
  ASSUME NEW t, Sound(t), NEW k \in Int
  PROVE  LET u == Resized(t, k)
         IN Sound(u) /\ u.size = k /\ u.chains = t.chains /\ Contents(u) = Contents(t)
<1> DEFINE u == Resized(t, k)
<1>1. t \in Tables
  BY DEF Sound
<1>2. u.n = t.n /\ u.p = t.p /\ u.size = k /\ u.chains = t.chains /\ u \in Tables
  BY <1>1 DEF Resized, Tables
<1> HIDE DEF u
<1>3. \A b \in 1..Len(u.chains) : GoodChain(u, b, u.chains[b])
  <2> SUFFICES ASSUME NEW b \in 1..Len(u.chains) PROVE GoodChain(u, b, u.chains[b])
    OBVIOUS
  <2>1. GoodChain(t, b, u.chains[b])
    BY <1>2 DEF Sound
  <2>2. SameLevel(u, t)
    BY <1>2 DEF SameLevel
  <2> QED
    BY <2>1, <2>2, SameHome DEF GoodChain
<1>4. Sound(u)
  BY <1>2, <1>3 DEF Sound
<1>5. Contents(u) = Contents(t)
  BY <1>2 DEF Contents
<1> QED
  BY <1>2, <1>4, <1>5 DEF u

LoadOK(size, buckets) ==
  /\ Full(size, buckets) => Low(size, buckets + 1)
  /\ Low(size, buckets) => buckets = MinBucketCount \/ Full(size, buckets - 1)

Counted(t) == IsFiniteSet(Contents(t)) /\ t.size = Cardinality(Contents(t))

Good(t) == Sound(t) /\ Counted(t) /\ LoadOK(t.size, Len(t.chains))

\* What such a table is.
LEMMA GoodFacts ==
  ASSUME NEW t, Good(t)
  PROVE  /\ Sound(t) /\ t.size \in Nat /\ Len(t.chains) \in Nat /\ Len(t.chains) > 0
         /\ IsFiniteSet(Contents(t)) /\ t.size = Cardinality(Contents(t))
         /\ LoadOK(t.size, Len(t.chains))
<1>1. Sound(t) /\ IsFiniteSet(Contents(t)) /\ t.size = Cardinality(Contents(t))
  BY DEF Good, Counted
<1>2. t.size \in Nat
  BY <1>1, FS_CardinalityType
<1> QED
  BY <1>1, <1>2, SizeOfTable DEF Good

\* The bounds after one record more and the splits it calls for.
LEMMA LoadAfterSplits ==
  ASSUME NEW s \in Nat, NEW b \in Nat, b > 0, LoadOK(s, b), NEW d \in Nat, d > 0,
         d = b \/ Full(s + 1, d - 1),
         s + 1 <= 2 * (BucketCapacity * b) => ~Full(s + 1, d)
  PROVE  LoadOK(s + 1, d)
<1>1. ~Full(s + 1, d)
  BY LoadFacts DEF LoadOK
<1>2. ASSUME Low(s + 1, d) PROVE d = MinBucketCount \/ Full(s + 1, d - 1)
  <2>1. CASE d = b
    <3>1. Low(s, b)
      BY <1>2, <2>1, LoadFacts
    <3>2. CASE b = MinBucketCount
      BY <2>1, <3>2
    <3>3. CASE Full(s, b - 1)
      <4>1. b - 1 \in Nat
        OBVIOUS
      <4> DEFINE a == b - 1
      <4> HIDE DEF a
      <4>2. Full(s, a) => Full(s + 1, a)
        BY <4>1, LoadFacts DEF a
      <4> QED
        BY <2>1, <3>3, <4>2 DEF a
    <3> QED
      BY <3>1, <3>2, <3>3 DEF LoadOK
  <2>2. CASE Full(s + 1, d - 1)
    BY <2>2
  <2> QED
    BY <2>1, <2>2
<1> QED
  BY <1>1, <1>2 DEF LoadOK

\* The bounds after one record less and the merges it calls for.
LEMMA LoadAfterMerges ==
  ASSUME NEW s \in Nat, NEW b \in Nat, LoadOK(s + 1, b), NEW d \in Nat,
         d = b \/ Low(s, d + 1),
         Low(s, d) => d = MinBucketCount
  PROVE  LoadOK(s, d)
<1>1. ASSUME Full(s, d) PROVE Low(s, d + 1)
  <2>1. CASE d = b
    <3>1. Full(s + 1, b)
      BY <1>1, <2>1, LoadFacts
    <3>2. Low(s + 1, b + 1)
      BY <3>1 DEF LoadOK
    <3> DEFINE a == b + 1
    <3>3. a \in Nat
      OBVIOUS
    <3> HIDE DEF a
    <3>4. Low(s + 1, a) => Low(s, a)
      BY <3>3, LoadFacts
    <3> QED
      BY <2>1, <3>2, <3>4 DEF a
  <2> QED
    BY <2>1
<1> QED
  BY <1>1 DEF LoadOK

(***************************************************************************)
(* remove takes the record of its key out, and nothing else.               *)
(***************************************************************************)
LEMMA RemoveFacts ==
  ASSUME NEW t, Good(t), NEW key \in Keys
  PROVE  LET u == remove(t, key)
         IN Good(u) /\ Contents(u) = {r \in Contents(t) : r.key # key}
<1> DEFINE b == Home(t, key)
           c == t.chains[b]
           i == BucketWith(c, key)
           j == IndexIn(c[i], key)
           r == c[i][j]
           w == WithChain(t, b, ChainWithout(c, i, j))
           v == Resized(w, t.size - 1)
           u == remove(t, key)
<1>1. /\ Sound(t) /\ t.size \in Nat /\ Len(t.chains) \in Nat
      /\ IsFiniteSet(Contents(t)) /\ t.size = Cardinality(Contents(t))
      /\ LoadOK(t.size, Len(t.chains))
  BY GoodFacts
<1>2. contains(t, key) <=> i # 0
  BY DEF contains, ChainOf, Home
<1>3. contains(t, key) <=> key \in KeysOf(Contents(t))
  BY <1>1, LookupFacts
<1>4. CASE ~contains(t, key)
  <2>1. u = t
    BY <1>4 DEF remove
  <2>2. Contents(t) = {x \in Contents(t) : x.key # key}
    BY <1>3, <1>4 DEF KeysOf
  <2> QED
    BY <2>1, <2>2
<1>5. CASE contains(t, key)
  <2>1. b \in 1..Len(t.chains)
    BY <1>1, HomeExists
  <2>2. c \in Seq(Seq(Record))
    BY <1>1, <2>1 DEF Sound, GoodChain, IsChain
  <2>3. i \in 1..Len(c) /\ j \in 1..Len(c[i]) /\ KeyAt(c, i, j) = key
    <3> HIDE DEF c
    <3> QED
      BY <1>2, <1>5, <2>2, BucketWithFacts
  <2>4. r.key = key
    BY <2>3 DEF KeyAt
  <2>5. u = rebalance_merge([t EXCEPT !.chains = [t.chains EXCEPT ![b] = ChainWithout(c, i, j)],
                                      !.size = t.size - 1])
    BY <1>5 DEF remove, Home
  <2>6. [t EXCEPT !.chains = [t.chains EXCEPT ![b] = ChainWithout(c, i, j)], !.size = t.size - 1] = v
    BY DEF Resized, WithChain
  <2>7. u = rebalance_merge(v)
    BY <2>5, <2>6, Zenon
  <2>8. /\ Sound(w) /\ w.size = t.size /\ SameLevel(w, t) /\ Contents(w) = Contents(t) \ {r}
        /\ r \in Contents(t)
    <3> HIDE DEF i, j, b
    <3>1. i \in 1..Len(t.chains[b]) /\ j \in 1..Len(t.chains[b][i])
      BY <2>3
    <3>2. LET z == WithChain(t, b, ChainWithout(t.chains[b], i, j))
          IN /\ Sound(z) /\ SameLevel(z, t) /\ z.size = t.size
             /\ Contents(z) = Contents(t) \ {t.chains[b][i][j]}
             /\ t.chains[b][i][j] \in Contents(t)
      BY <1>1, <2>1, <3>1, SmallerTable
    <3> QED
      BY <3>2
  <2>9. Contents(t) \ {r} = {x \in Contents(t) : x.key # key}
    BY <1>1, <2>4, <2>8, ContentsAtHome
  <2>10. Len(w.chains) = Len(t.chains)
    BY <1>1, <2>8 DEF Sound, SameLevel
  <2> DEFINE s == t.size - 1
             d == Len(u.chains)
  <2>11. /\ IsFiniteSet(Contents(t) \ {r}) /\ Cardinality(Contents(t) \ {r}) = s
         /\ s \in Nat /\ s + 1 = t.size
    <3>1. IsFiniteSet(Contents(t) \ {r}) /\ Cardinality(Contents(t) \ {r}) = s
      <4> DEFINE S == Contents(t)
      <4>1. IsFiniteSet(S) /\ Cardinality(S) = t.size /\ r \in S
        BY <1>1, <2>8
      <4> HIDE DEF r, S
      <4>2. IsFiniteSet(S \ {r}) /\ Cardinality(S \ {r}) = Cardinality(S) - 1
        BY <4>1, FS_RemoveElement
      <4> QED
        BY <4>1, <4>2 DEF S
    <3>2. s \in Nat
      BY <3>1, FS_CardinalityType
    <3> QED
      BY <1>1, <3>1, <3>2
  <2> HIDE DEF u, w, r, b
  <2>12. Sound(v) /\ v.size = s /\ v.chains = w.chains /\ Contents(v) = Contents(w)
    <3> DEFINE k == t.size - 1
    <3>1. k \in Int
      BY <1>1
    <3> HIDE DEF k
    <3>2. LET z == Resized(w, k)
          IN Sound(z) /\ z.size = k /\ z.chains = w.chains /\ Contents(z) = Contents(w)
      BY <2>8, <3>1, ResizedFacts
    <3> QED
      BY <3>2 DEF k
  <2> HIDE DEF s, v
  <2>13. /\ Rearranged(u, v)
         /\ d = Len(v.chains) \/ Low(v.size, d + 1)
         /\ Low(v.size, d) => d = MinBucketCount
    <3>1. v.size \in Nat
      BY <2>11, <2>12
    <3> QED
      BY <2>7, <2>12, <3>1, RebalanceMergeFacts
  <2>14. Sound(u) /\ u.size = s /\ Contents(u) = Contents(t) \ {r}
    BY <2>8, <2>12, <2>13 DEF Rearranged
  <2>15. d \in Nat
    BY <2>11, <2>14, SizeOfTable
  <2>16. /\ d = Len(t.chains) \/ Low(s, d + 1)
         /\ Low(s, d) => d = MinBucketCount
         /\ LoadOK(s + 1, Len(t.chains))
    BY <1>1, <2>10, <2>11, <2>12, <2>13
  <2> HIDE DEF d
  <2>17. LoadOK(s, d)
    BY <1>1, <2>11, <2>15, <2>16, LoadAfterMerges
  <2>18. Good(u)
    BY <2>11, <2>14, <2>17 DEF Good, Counted, d
  <2> QED
    BY <2>9, <2>14, <2>18 DEF u
<1> QED
  BY <1>4, <1>5

(***************************************************************************)
(* insert of a key that the table does not have adds its record, and drops *)
(* at most an expired one.                                                 *)
(***************************************************************************)
LEMMA FirstExpiredFacts ==
  ASSUME NEW s \in Seq(Record)
  PROVE  LET j == FirstExpired(s)
         IN j # 0 => j \in 1..Len(s) /\ s[j].value = Expired
<1> DEFINE I == {k \in 1..Len(s) : s[k].value = Expired}
<1>1. FirstExpired(s) = IF I # {} THEN Min(I) ELSE 0
  BY DEF FirstExpired, SelectInSeq
<1>2. I \in SUBSET Nat
  OBVIOUS
<1>3. CASE I # {}
  <2>1. FirstExpired(s) \in I
    <3> HIDE DEF I
    <3> QED
      BY <1>1, <1>2, <1>3, FirstOf
  <2> QED
    BY <2>1
<1>4. CASE I = {}
  BY <1>1, <1>4, Zenon
<1> QED
  BY <1>3, <1>4

Purged(u, t, r) ==
  \E X \in SUBSET Contents(t) :
    /\ \A x \in X : x.value = Expired
    /\ Contents(u) = (Contents(t) \ X) \union {r}

\* An insert that purges an expired record keeps the size.
LEMMA InsertPurging ==
  ASSUME NEW t, Good(t), NEW r \in Record, r.key \notin KeysOf(Contents(t)),
         NEW b \in 1..Len(t.chains),
         NEW j \in 1..Len(t.chains[b][1]), t.chains[b][1][j].value = Expired,
         NEW u, u = insert_internal(WithChain(t, b, ChainWithout(t.chains[b], 1, j)), r)
  PROVE  Good(u) /\ Purged(u, t, r)
<1> DEFINE w == WithChain(t, b, ChainWithout(t.chains[b], 1, j))
           x == t.chains[b][1][j]
<1>1. /\ Sound(t) /\ t.size \in Nat /\ Len(t.chains) \in Nat
      /\ IsFiniteSet(Contents(t)) /\ t.size = Cardinality(Contents(t))
      /\ LoadOK(t.size, Len(t.chains))
  BY GoodFacts
<1>2. 1 \in 1..Len(t.chains[b])
  <2>1. IsChain(t.chains[b])
    BY <1>1 DEF Sound, GoodChain
  <2> DEFINE c == t.chains[b]
  <2>2. c \in Seq(Seq(Record)) /\ Len(c) > 0
    BY <2>1 DEF IsChain
  <2> HIDE DEF c
  <2>3. 1 \in 1..Len(c)
    BY <2>2
  <2> QED
    BY <2>3 DEF c
<1>3. LET z == WithChain(t, b, ChainWithout(t.chains[b], 1, j))
      IN /\ Sound(z) /\ SameLevel(z, t) /\ z.size = t.size
         /\ Contents(z) = Contents(t) \ {t.chains[b][1][j]}
         /\ t.chains[b][1][j] \in Contents(t)
  BY <1>1, <1>2, SmallerTable
<1>4. /\ Sound(w) /\ SameLevel(w, t) /\ w.size = t.size
      /\ Contents(w) = Contents(t) \ {x} /\ x \in Contents(t)
  BY <1>3
<1>5. u = insert_internal(w, r) /\ x.value = Expired
  OBVIOUS
<1> HIDE DEF w, x
<1>6. r.key \notin KeysOf(Contents(w))
  BY <1>4 DEF KeysOf
<1>7. Gained(u, w, {r})
  BY <1>4, <1>5, <1>6, InsertFacts
<1>8. Sound(u) /\ u.size = t.size /\ Contents(u) = (Contents(t) \ {x}) \union {r}
  BY <1>4, <1>7 DEF Gained
<1>9. Len(u.chains) = Len(t.chains)
  BY <1>1, <1>4, <1>7 DEF Gained, Sound, SameLevel
<1>10. Counted(u)
  <2> DEFINE S == Contents(t)
  <2>1. IsFiniteSet(S) /\ Cardinality(S) = t.size /\ x \in S /\ r \notin S
    BY <1>1, <1>4 DEF KeysOf
  <2>2. Contents(u) = (S \ {x}) \union {r}
    BY <1>8
  <2> HIDE DEF S
  <2>3. IsFiniteSet(S \ {x}) /\ Cardinality(S \ {x}) = Cardinality(S) - 1
    BY <2>1, FS_RemoveElement
  <2>4. IsFiniteSet(Contents(u)) /\ Cardinality(Contents(u)) = Cardinality(S \ {x}) + 1
    <3> DEFINE R == S \ {x}
    <3>1. IsFiniteSet(R) /\ r \notin R /\ Contents(u) = R \union {r}
      BY <2>1, <2>2, <2>3
    <3> HIDE DEF R
    <3>2. IsFiniteSet(R \union {r}) /\ Cardinality(R \union {r}) = Cardinality(R) + 1
      BY <3>1, FS_AddElement
    <3> QED
      BY <3>1, <3>2 DEF R
  <2>5. Cardinality(S) - 1 + 1 = t.size
    BY <1>1, <2>1
  <2> QED
    BY <1>8, <2>3, <2>4, <2>5 DEF Counted
<1>11. Good(u)
  BY <1>1, <1>8, <1>9, <1>10 DEF Good
<1>12. Purged(u, t, r)
  <2>1. {x} \in SUBSET Contents(t) /\ \A y \in {x} : y.value = Expired
    BY <1>4, <1>5
  <2> QED
    BY <1>8, <2>1 DEF Purged
<1> QED
  BY <1>11, <1>12

\* An insert that purges none may split.
LEMMA InsertGrowing ==
  ASSUME NEW t, Good(t), NEW r \in Record, r.key \notin KeysOf(Contents(t)),
         NEW u, u = rebalance_split(Resized(insert_internal(t, r), t.size + 1))
  PROVE  Good(u) /\ Purged(u, t, r)
<1> DEFINE w == insert_internal(t, r)
           s == t.size
           k == s + 1
           v == Resized(w, k)
           b == Len(t.chains)
           d == Len(u.chains)
<1>1. /\ Sound(t) /\ s \in Nat /\ b \in Nat /\ b > 0
      /\ IsFiniteSet(Contents(t)) /\ s = Cardinality(Contents(t))
      /\ LoadOK(s, b)
  BY GoodFacts
<1>2. u = rebalance_split(v)
  OBVIOUS
<1>3. Gained(w, t, {r})
  BY <1>1, InsertFacts
<1>4. k \in Nat /\ k = s + 1
  BY <1>1
<1> HIDE DEF w, k
<1>5. Len(w.chains) = b
  BY <1>1, <1>3 DEF Gained, Sound, SameLevel
<1>6. Sound(v) /\ v.size = k /\ v.chains = w.chains /\ Contents(v) = Contents(t) \union {r}
  <2>1. Sound(w) /\ k \in Int /\ Contents(w) = Contents(t) \union {r}
    BY <1>3, <1>4 DEF Gained
  <2>2. Sound(v) /\ v.size = k /\ v.chains = w.chains /\ Contents(v) = Contents(w)
    BY <2>1, ResizedFacts
  <2> QED
    BY <2>1, <2>2
<1> HIDE DEF v
<1>7. v.size \in Nat /\ Len(v.chains) = b
  BY <1>4, <1>5, <1>6
<1>8. /\ Rearranged(u, v)
      /\ d = Len(v.chains) \/ Full(v.size, d - 1)
      /\ v.size <= 2 * (BucketCapacity * Len(v.chains)) => ~Full(v.size, d)
  BY <1>2, <1>6, <1>7, RebalanceSplitFacts
<1>9. Sound(u) /\ u.size = k /\ Contents(u) = Contents(t) \union {r}
  BY <1>6, <1>8 DEF Rearranged
<1>10. d \in Nat /\ d > 0
  BY <1>4, <1>9, SizeOfTable
<1>11. /\ d = b \/ Full(s + 1, d - 1)
       /\ s + 1 <= 2 * (BucketCapacity * b) => ~Full(s + 1, d)
  BY <1>4, <1>6, <1>7, <1>8
<1> HIDE DEF b, d, s
<1>12. LoadOK(k, d)
  BY <1>1, <1>4, <1>10, <1>11, LoadAfterSplits
<1>13. r \notin Contents(t)
  BY DEF KeysOf
<1>14. Counted(u)
  BY <1>1, <1>4, <1>9, <1>13, FS_AddElement DEF Counted
<1>15. Good(u)
  BY <1>9, <1>12, <1>14 DEF Good, d
<1>16. Purged(u, t, r)
  <2>1. /\ {} \in SUBSET Contents(t) /\ \A x \in {} : x.value = Expired
        /\ Contents(u) = (Contents(t) \ {}) \union {r}
    BY <1>9
  <2> QED
    BY <2>1, Zenon DEF Purged
<1> QED
  BY <1>15, <1>16

\* Either way.
LEMMA InsertNewFacts ==
  ASSUME NEW t, Good(t), NEW key \in Keys, NEW value \in Values,
         key \notin KeysOf(Contents(t))
  PROVE  LET u == insert(t, key, value)
         IN Good(u) /\ Purged(u, t, [key |-> key, value |-> value])
<1> DEFINE r == [key |-> key, value |-> value]
           b == Home(t, key)
           s == t.chains[b][1]
           j == FirstExpired(s)
           u == insert(t, key, value)
<1>1. Sound(t) /\ t.size \in Nat
  BY GoodFacts
<1>2. b \in 1..Len(t.chains)
  BY <1>1, HomeExists
<1>3. s \in Seq(Record)
  <2> DEFINE c == t.chains[b]
  <2>1. c \in Seq(Seq(Record)) /\ Len(c) > 0
    BY <1>1, <1>2 DEF Sound, GoodChain, IsChain
  <2> HIDE DEF c
  <2>2. c[1] \in Seq(Record)
    BY <2>1
  <2> QED
    BY <2>2 DEF c
<1>4. ~contains(t, key)
  BY <1>1, LookupFacts
<1>5. r \in Record /\ r.key = key
  BY DEF Record
<1>6. CASE j = 0
  <2>1. u = rebalance_split([insert_internal(t, r) EXCEPT !.size = insert_internal(t, r).size + 1])
    BY <1>4, <1>6 DEF insert, Home
  <2> HIDE DEF r, u
  <2>2. Gained(insert_internal(t, r), t, {r})
    BY <1>1, <1>5, InsertFacts
  <2>3. insert_internal(t, r).size = t.size
    BY <2>2 DEF Gained
  <2>4. u = rebalance_split(Resized(insert_internal(t, r), t.size + 1))
    BY <2>1, <2>3 DEF Resized
  <2>5. Good(u) /\ Purged(u, t, r)
    BY <1>5, <2>4, InsertGrowing
  <2> QED
    BY <2>5 DEF u, r
<1>7. CASE j # 0
  <2> DEFINE w == WithChain(t, b, ChainWithout(t.chains[b], 1, j))
  <2>1. u = insert_internal(w, r)
    BY <1>4, <1>7 DEF insert, Home, WithChain
  <2> HIDE DEF r, u, b
  <2>2. j \in 1..Len(s) /\ s[j].value = Expired
    <3> HIDE DEF s
    <3> QED
      BY <1>3, <1>7, FirstExpiredFacts
  <2> HIDE DEF j
  <2>3. Good(u) /\ Purged(u, t, r)
    BY <1>2, <1>5, <2>1, <2>2, InsertPurging
  <2> QED
    BY <2>3 DEF u, r
<1> QED
  BY <1>6, <1>7

(***************************************************************************)
(* The places of a table are those of its records.                         *)
(***************************************************************************)
LEMMA PlaceFacts ==
  ASSUME NEW t, NEW place
  PROVE  place \in Places(t) <=>
           \E b \in DOMAIN t.chains : \E i \in DOMAIN t.chains[b] : \E j \in DOMAIN t.chains[b][i] :
             place = <<b, i, j>>
BY DEF Places

\* A place is inside the table, and its record in the chain of its key.
LEMMA PlaceOfRecord ==
  ASSUME NEW t, Sound(t), NEW place \in Places(t)
  PROVE  /\ place[1] \in 1..Len(t.chains)
         /\ place[2] \in 1..Len(t.chains[place[1]])
         /\ place[3] \in 1..Len(t.chains[place[1]][place[2]])
         /\ place = <<place[1], place[2], place[3]>>
         /\ RecordAt(t, place) \in Contents(t)
         /\ RecordAt(t, place) \in Record
         /\ Home(t, RecordAt(t, place).key) = place[1]
<1>1. PICK b \in DOMAIN t.chains :
        \E i \in DOMAIN t.chains[b] : \E j \in DOMAIN t.chains[b][i] : place = <<b, i, j>>
  BY PlaceFacts
<1>2. PICK i \in DOMAIN t.chains[b] : \E j \in DOMAIN t.chains[b][i] : place = <<b, i, j>>
  BY <1>1
<1>3. PICK j \in DOMAIN t.chains[b][i] : place = <<b, i, j>>
  BY <1>2
<1>4. place[1] = b /\ place[2] = i /\ place[3] = j /\ place = <<place[1], place[2], place[3]>>
  BY <1>3
<1>5. t.chains \in Seq(Seq(Seq(Record)))
  BY DEF Sound, Tables
<1>6. b \in 1..Len(t.chains)
  BY <1>5
<1> DEFINE c == t.chains[b]
<1>7. GoodChain(t, b, c) /\ c \in Seq(Seq(Record)) /\ Held(c) \subseteq Contents(t)
  BY <1>6, ContentsAtHome DEF Sound, GoodChain, IsChain
<1>8. i \in DOMAIN c /\ j \in DOMAIN c[i]
  OBVIOUS
<1>9. RecordAt(t, place) = c[i][j]
  BY <1>4 DEF RecordAt
<1> HIDE DEF c
<1>10. i \in 1..Len(c)
  BY <1>7, <1>8
<1> DEFINE s == c[i]
<1>11. s \in Seq(Record) /\ j \in DOMAIN s
  BY <1>7, <1>8, <1>10
<1> HIDE DEF s
<1>12. j \in 1..Len(s)
  BY <1>11
<1>13. c[i][j] \in Held(c) /\ c[i][j] \in Record
  BY <1>7, <1>10, <1>12, HeldRecords DEF s
<1>14. Home(t, c[i][j].key) = b
  BY <1>7, <1>13 DEF GoodChain
<1> QED
  BY <1>4, <1>6, <1>7, <1>9, <1>10, <1>12, <1>13, <1>14 DEF c, s

(***************************************************************************)
(* A record that expires keeps its place.                                  *)
(***************************************************************************)
Aged(t, place) == [t EXCEPT !.chains[place[1]][place[2]][place[3]].value = Expired]

\* Only the value of the record changes.
LEMMA ExpireFacts ==
  ASSUME NEW t, Good(t), NEW place \in Places(t), NEW u, u = Aged(t, place)
  PROVE  LET r == RecordAt(t, place)
             x == [key |-> r.key, value |-> Expired]
         IN /\ Good(u) /\ r \in Contents(t) /\ r \in Record
            /\ Contents(u) = (Contents(t) \ {r}) \union {x}
<1> DEFINE b == place[1]
           i == place[2]
           j == place[3]
           r == RecordAt(t, place)
           x == [key |-> r.key, value |-> Expired]
<1>1. /\ Sound(t) /\ t.size \in Nat /\ IsFiniteSet(Contents(t)) /\ t.size = Cardinality(Contents(t))
      /\ LoadOK(t.size, Len(t.chains))
  BY GoodFacts
<1>2. /\ b \in 1..Len(t.chains) /\ i \in 1..Len(t.chains[b]) /\ j \in 1..Len(t.chains[b][i])
      /\ r \in Contents(t) /\ r \in Record
  BY <1>1, PlaceOfRecord
<1>3. x \in Record /\ x.key = r.key /\ r = t.chains[b][i][j]
  BY <1>2 DEF Record, RecordAt
<1>4. [r EXCEPT !.value = Expired] = x
  BY <1>2 DEF Record
<1>5. u = WithChain(t, b, ChainChanged(t.chains[b], i, j, [r EXCEPT !.value = Expired]))
  BY DEF WithChain, ChainChanged, RecordAt, Aged
<1>6. u = WithChain(t, b, ChainChanged(t.chains[b], i, j, x))
  BY <1>4, <1>5, Zenon
<1> HIDE DEF b, i, j, r, x
<1>7. /\ Sound(u) /\ SameLevel(u, t) /\ u.size = t.size
      /\ Contents(u) = (Contents(t) \ {r}) \union {x}
  <2>1. x.key = t.chains[b][i][j].key
    BY <1>3
  <2>2. LET z == WithChain(t, b, ChainChanged(t.chains[b], i, j, x))
        IN /\ Sound(z) /\ SameLevel(z, t) /\ z.size = t.size
           /\ Contents(z) = (Contents(t) \ {t.chains[b][i][j]}) \union {x}
           /\ t.chains[b][i][j] \in Contents(t)
    BY <1>1, <1>2, <1>3, <2>1, ChangedTable
  <2> QED
    BY <1>3, <1>6, <2>2
<1>8. Len(u.chains) = Len(t.chains)
  BY <1>1, <1>7 DEF Sound, SameLevel
<1>9. Counted(u)
  <2> DEFINE S == Contents(t)
  <2>1. x \notin S \ {r}
    BY <1>1, <1>2, <1>3, ContentsAtHome
  <2>2. IsFiniteSet(S) /\ Cardinality(S) = t.size /\ r \in S /\ Contents(u) = (S \ {r}) \union {x}
    BY <1>1, <1>2, <1>7
  <2> HIDE DEF S
  <2>3. IsFiniteSet(S \ {r}) /\ Cardinality(S \ {r}) = Cardinality(S) - 1
    BY <2>2, FS_RemoveElement
  <2>4. IsFiniteSet(Contents(u)) /\ Cardinality(Contents(u)) = Cardinality(S \ {r}) + 1
    <3> DEFINE R == S \ {r}
    <3>1. IsFiniteSet(R) /\ x \notin R /\ Contents(u) = R \union {x}
      BY <2>1, <2>2, <2>3
    <3> HIDE DEF R
    <3>2. IsFiniteSet(R \union {x}) /\ Cardinality(R \union {x}) = Cardinality(R) + 1
      BY <3>1, FS_AddElement
    <3> QED
      BY <3>1, <3>2 DEF R
  <2>5. Cardinality(S) - 1 + 1 = t.size
    BY <1>1, <2>2
  <2> QED
    BY <1>7, <2>3, <2>4, <2>5 DEF Counted
<1>10. Good(u)
  BY <1>1, <1>7, <1>8, <1>9 DEF Good
<1> QED
  BY <1>2, <1>7, <1>10 DEF r, x

-----------------------------------------------------------------------------
(***************************************************************************)
(* The table in which a storage starts.                                    *)
(***************************************************************************)
LEMMA NewTableGood == Good(NewTable) /\ Contents(NewTable) = {}
<1> DEFINE chains == [b \in 1..MinBucketCount |-> EmptyChain]
           t == NewTable
<1>1. Level(MinBucketCount, 0) /\ MinBucketCount \in Nat /\ MinBucketCount > 0
  BY FirstLevel, LevelFacts
<1>2. EmptyChain \in Seq(Seq(Record))
  BY EmptyChainGood DEF GoodChain, IsChain
<1>3. /\ chains \in Seq(Seq(Seq(Record))) /\ Len(chains) = MinBucketCount
      /\ \A b \in 1..MinBucketCount : chains[b] = EmptyChain
  BY <1>1, <1>2
<1>4. /\ t.n = MinBucketCount /\ t.p = 0 /\ t.size = 0 /\ t.chains = chains
      /\ t = [n |-> MinBucketCount, p |-> 0, size |-> 0, chains |-> chains]
  BY DEF NewTable
<1> HIDE DEF chains, t
<1>5. t \in Tables
  BY <1>1, <1>3, <1>4 DEF Tables
<1>6. \A b \in 1..Len(t.chains) : GoodChain(t, b, t.chains[b]) /\ Held(t.chains[b]) = {}
  BY <1>3, <1>4, EmptyChainGood
<1>7. Sound(t)
  BY <1>1, <1>3, <1>4, <1>5, <1>6 DEF Sound
<1>8. Contents(t) = {}
  BY <1>6 DEF Contents
<1>9. Counted(t)
  BY <1>4, <1>8, FS_EmptySet DEF Counted
<1>10. LoadOK(t.size, Len(t.chains))
  <2>1. BucketCapacity * MinBucketCount \in Nat
    BY <1>1, HashTableAssumption
  <2> DEFINE w == BucketCapacity * MinBucketCount
  <2>2. w \in Nat /\ (Full(0, MinBucketCount) <=> 100 * 0 > 95 * w)
    BY <2>1 DEF Full
  <2> HIDE DEF w
  <2>3. ~Full(0, MinBucketCount)
    BY <2>2
  <2> QED
    BY <1>3, <1>4, <2>3 DEF LoadOK
<1> QED
  BY <1>7, <1>8, <1>9, <1>10 DEF Good, t

-----------------------------------------------------------------------------
(***************************************************************************)
(* What the lookups of a table show, and how the calls change it.          *)
(***************************************************************************)
LEMMA LookupOf ==
  ASSUME NEW t, Good(t), NEW key \in Keys
  PROVE  /\ \A r \in Contents(t) : r.key = key => Lookups(t)[key] = r.value
         /\ key \notin KeysOf(Contents(t)) => Lookups(t)[key] = Absent
<1>1. Lookups(t)[key] = find(t, key)
  BY DEF Lookups
<1>2. Sound(t)
  BY GoodFacts
<1> QED
  BY <1>1, <1>2, LookupFacts

\* A lookup finds a value, nothing or an expired record.
LEMMA LookupsType ==
  ASSUME NEW t, Good(t)
  PROVE  Lookups(t) \in [Keys -> Values \union {Absent, Expired}]
<1>1. ASSUME NEW key \in Keys PROVE find(t, key) \in Values \union {Absent, Expired}
  <2>1. Lookups(t)[key] = find(t, key)
    BY DEF Lookups
  <2>2. CASE key \in KeysOf(Contents(t))
    <3>1. PICK r \in Contents(t) : r.key = key
      BY <2>2 DEF KeysOf
    <3>2. r.value \in Values \union {Expired}
      BY DEF Contents, Record
    <3> QED
      BY <2>1, <3>1, <3>2, LookupOf
  <2>3. CASE key \notin KeysOf(Contents(t))
    BY <2>1, <2>3, LookupOf
  <2> QED
    BY <2>2, <2>3
<1> QED
  BY <1>1 DEF Lookups

\* A put changes its key, and drops expired records of others at most.
LEMMA PutFacts ==
  ASSUME NEW t, Good(t), NEW key \in Keys, NEW value \in Values,
         NEW u, u = insert(remove(t, key), key, value)
  PROVE  /\ Good(u)
         /\ Lookups(u)[key] = value
         /\ \A k \in Keys \ {key} :
              \/ Lookups(u)[k] = Lookups(t)[k]
              \/ Lookups(u)[k] = Absent /\ Lookups(t)[k] = Expired
<1> DEFINE w == remove(t, key)
           r == [key |-> key, value |-> value]
<1>1. Good(w) /\ Contents(w) = {x \in Contents(t) : x.key # key}
  BY RemoveFacts
<1>2. u = insert(w, key, value)
  OBVIOUS
<1>3. r.key = key /\ r.value = value
  OBVIOUS
<1> HIDE DEF w
<1>4. key \notin KeysOf(Contents(w))
  BY <1>1 DEF KeysOf
<1>5. Good(u) /\ Purged(u, w, r)
  BY <1>1, <1>2, <1>4, InsertNewFacts
<1> HIDE DEF r
<1>6. PICK X \in SUBSET Contents(w) :
        /\ \A x \in X : x.value = Expired
        /\ Contents(u) = (Contents(w) \ X) \union {r}
  BY <1>5 DEF Purged
<1>7. Lookups(u)[key] = value
  BY <1>3, <1>5, <1>6, LookupOf
<1>8. ASSUME NEW k \in Keys \ {key}
      PROVE  \/ Lookups(u)[k] = Lookups(t)[k]
             \/ Lookups(u)[k] = Absent /\ Lookups(t)[k] = Expired
  <2>1. CASE k \in KeysOf(Contents(u))
    <3>1. PICK y \in Contents(u) : y.key = k
      BY <2>1 DEF KeysOf
    <3>2. y \in Contents(t)
      BY <1>1, <1>3, <1>6, <3>1
    <3> QED
      BY <1>5, <3>1, <3>2, LookupOf
  <2>2. CASE k \notin KeysOf(Contents(u))
    <3>1. Lookups(u)[k] = Absent
      BY <1>5, <2>2, LookupOf
    <3>2. CASE k \notin KeysOf(Contents(t))
      BY <3>1, <3>2, LookupOf
    <3>3. CASE k \in KeysOf(Contents(t))
      <4>1. PICK y \in Contents(t) : y.key = k
        BY <3>3 DEF KeysOf
      <4>2. y \in Contents(w) /\ y \notin Contents(u)
        BY <1>1, <2>2, <4>1 DEF KeysOf
      <4>3. y.value = Expired
        BY <1>6, <4>2
      <4> QED
        BY <3>1, <4>1, <4>3, LookupOf
    <3> QED
      BY <3>2, <3>3
  <2> QED
    BY <2>1, <2>2
<1> QED
  BY <1>5, <1>7, <1>8

\* A delete changes its key alone.
LEMMA DeleteFacts ==
  ASSUME NEW t, Good(t), NEW key \in Keys, NEW u, u = remove(t, key)
  PROVE  /\ Good(u)
         /\ Lookups(u)[key] = Absent
         /\ \A k \in Keys \ {key} : Lookups(u)[k] = Lookups(t)[k]
<1>1. Good(u) /\ Contents(u) = {x \in Contents(t) : x.key # key}
  BY RemoveFacts
<1>2. Lookups(u)[key] = Absent
  <2>1. key \notin KeysOf(Contents(u))
    BY <1>1 DEF KeysOf
  <2> QED
    BY <1>1, <2>1, LookupOf
<1>3. ASSUME NEW k \in Keys \ {key} PROVE Lookups(u)[k] = Lookups(t)[k]
  <2>1. CASE k \in KeysOf(Contents(t))
    <3>1. PICK y \in Contents(t) : y.key = k
      BY <2>1 DEF KeysOf
    <3>2. y \in Contents(u)
      BY <1>1, <3>1
    <3> QED
      BY <1>1, <3>1, <3>2, LookupOf
  <2>2. CASE k \notin KeysOf(Contents(t))
    <3>1. k \notin KeysOf(Contents(u))
      BY <1>1, <2>2 DEF KeysOf
    <3> QED
      BY <1>1, <2>2, <3>1, LookupOf
  <2> QED
    BY <2>1, <2>2
<1> QED
  BY <1>1, <1>2, <1>3

\* An expiration changes its key alone.
LEMMA ExpirationFacts ==
  ASSUME NEW t, Good(t), NEW place \in Places(t), RecordAt(t, place).value \in Expiring,
         NEW u, u = Aged(t, place),
         NEW key \in Keys, RecordAt(t, place).key = key
  PROVE  /\ Good(u)
         /\ Lookups(u)[key] = Expired /\ Lookups(t)[key] \in Expiring
         /\ \A k \in Keys \ {key} : Lookups(u)[k] = Lookups(t)[k]
<1> DEFINE r == RecordAt(t, place)
           x == [key |-> r.key, value |-> Expired]
<1>1. /\ Good(u) /\ r \in Contents(t) /\ r \in Record
      /\ Contents(u) = (Contents(t) \ {r}) \union {x}
  BY ExpireFacts
<1>2. x.key = key /\ x.value = Expired /\ r.key = key /\ r.value \in Expiring
  OBVIOUS
<1> HIDE DEF r, x
<1>3. Lookups(u)[key] = Expired /\ Lookups(t)[key] \in Expiring
  BY <1>1, <1>2, LookupOf
<1>4. ASSUME NEW k \in Keys \ {key} PROVE Lookups(u)[k] = Lookups(t)[k]
  <2>1. CASE k \in KeysOf(Contents(t))
    <3>1. PICK y \in Contents(t) : y.key = k
      BY <2>1 DEF KeysOf
    <3>2. y \in Contents(u)
      BY <1>1, <1>2, <3>1
    <3>3. Lookups(u)[k] = y.value
      BY <1>1, <3>1, <3>2, LookupOf
    <3>4. Lookups(t)[k] = y.value
      BY <3>1, LookupOf
    <3> QED
      BY <3>3, <3>4
  <2>2. CASE k \notin KeysOf(Contents(t))
    <3>1. k \notin KeysOf(Contents(u))
      BY <1>1, <1>2, <2>2 DEF KeysOf
    <3> QED
      BY <1>1, <2>2, <3>1, LookupOf
  <2> QED
    BY <2>1, <2>2
<1> QED
  BY <1>1, <1>3, <1>4

(***************************************************************************)
(* No two places hold the same key, so there are as many as records.       *)
(***************************************************************************)
LEMMA PlacesOfKeys ==
  ASSUME NEW t, Sound(t), NEW p1 \in Places(t), NEW p2 \in Places(t),
         RecordAt(t, p1).key = RecordAt(t, p2).key
  PROVE  p1 = p2
<1>1. /\ p1[1] \in 1..Len(t.chains) /\ p1[2] \in 1..Len(t.chains[p1[1]])
      /\ p1[3] \in 1..Len(t.chains[p1[1]][p1[2]]) /\ p1 = <<p1[1], p1[2], p1[3]>>
      /\ Home(t, RecordAt(t, p1).key) = p1[1]
  BY PlaceOfRecord
<1>2. /\ p2[2] \in 1..Len(t.chains[p2[1]])
      /\ p2[3] \in 1..Len(t.chains[p2[1]][p2[2]]) /\ p2 = <<p2[1], p2[2], p2[3]>>
      /\ Home(t, RecordAt(t, p2).key) = p2[1]
  BY PlaceOfRecord
<1>3. p1[1] = p2[1]
  BY <1>1, <1>2
<1> DEFINE c == t.chains[p1[1]]
<1>4. OneEach(c)
  BY <1>1 DEF Sound, GoodChain
<1>5. KeyAt(c, p1[2], p1[3]) = KeyAt(c, p2[2], p2[3])
  BY <1>3 DEF KeyAt, RecordAt
<1>6. /\ p1[2] \in 1..Len(c) /\ p1[3] \in 1..Len(c[p1[2]])
      /\ p2[2] \in 1..Len(c) /\ p2[3] \in 1..Len(c[p2[2]])
  BY <1>1, <1>2, <1>3
<1> HIDE DEF c
<1>7. p1[2] = p2[2] /\ p1[3] = p2[3]
  BY <1>4, <1>5, <1>6, OnlyOnce
<1> QED
  BY <1>1, <1>2, <1>3, <1>7, Zenon

\* A bijection from the places to the records counts the places.
LEMMA PlacesCounted ==
  ASSUME NEW t, Good(t)
  PROVE  t.size = Cardinality(Places(t))
<1> DEFINE S == Contents(t)
           P == Places(t)
           f == [place \in P |-> RecordAt(t, place)]
<1>1. Sound(t) /\ IsFiniteSet(S) /\ t.size = Cardinality(S)
  BY GoodFacts
<1>2. f \in [P -> S]
  BY <1>1, PlaceOfRecord
<1>3. \A p1, p2 \in P : f[p1] = f[p2] => p1 = p2
  <2> SUFFICES ASSUME NEW p1 \in P, NEW p2 \in P, f[p1] = f[p2] PROVE p1 = p2
    OBVIOUS
  <2>1. RecordAt(t, p1) = RecordAt(t, p2)
    OBVIOUS
  <2> QED
    BY <1>1, <2>1, PlacesOfKeys
<1>4. ASSUME NEW r \in S PROVE \E place \in P : f[place] = r
  <2>1. PICK b \in 1..Len(t.chains) : r \in Held(t.chains[b])
    BY DEF Contents
  <2>2. PICK i \in 1..Len(t.chains[b]) : \E j \in 1..Len(t.chains[b][i]) : t.chains[b][i][j] = r
    BY <2>1 DEF Held
  <2>3. PICK j \in 1..Len(t.chains[b][i]) : t.chains[b][i][j] = r
    BY <2>2
  <2>4. t.chains \in Seq(Seq(Seq(Record)))
    BY <1>1 DEF Sound, Tables
  <2>5. b \in DOMAIN t.chains
    BY <2>4
  <2>6. t.chains[b] \in Seq(Seq(Record))
    BY <2>4
  <2>7. i \in DOMAIN t.chains[b]
    BY <2>6
  <2>8. t.chains[b][i] \in Seq(Record)
    BY <2>6
  <2>9. j \in DOMAIN t.chains[b][i]
    BY <2>8
  <2> DEFINE place == <<b, i, j>>
  <2>10. place \in P
    BY <2>5, <2>7, <2>9, PlaceFacts
  <2>11. RecordAt(t, place) = r
    BY <2>3 DEF RecordAt
  <2> QED
    BY <2>10, <2>11
<1>5. f \in Bijection(P, S)
  <2> HIDE DEF f, P, S
  <2> QED
    BY <1>2, <1>3, <1>4, Fun_IsBij
<1>6. ExistsBijection(S, P)
  <2>1. ExistsBijection(P, S)
    BY <1>5 DEF ExistsBijection
  <2> HIDE DEF P, S
  <2> QED
    BY <2>1, Fun_ExistsBijSymmetric
<1>7. Cardinality(P) = Cardinality(S)
  <2> HIDE DEF P, S
  <2> QED
    BY <1>1, <1>6, FS_Bijection
<1> QED
  BY <1>1, <1>7

-----------------------------------------------------------------------------
(***************************************************************************)
(* The keys of a range are keys of the table, and no more than asked for.  *)
(***************************************************************************)
AliveTurn(keys, record) == IF record.value = Expired THEN keys ELSE Append(keys, record.key)

\* The walk over the records of a bucket, one by one.
LEMMA AliveRows ==
  ASSUME NEW bucket, Len(bucket) \in Nat
  PROVE  \E rows : /\ rows[0] = <<>>
                   /\ \A k \in 1..Len(bucket) : rows[k] = AliveTurn(rows[k - 1], bucket[k])
                   /\ AliveKeys(bucket) = rows[Len(bucket)]
<1> DEFINE n == Len(bucket)
           Row(f, k) == IF k = 0 THEN <<>> ELSE AliveTurn(f[k - 1], bucket[k])
           Built(f, m) == f = [k \in 0..m |-> Row(f, k)]
           Exists(m) == \E f : Built(f, m)
           T == {m \in 0..n : Exists(m)}
           rows == CHOOSE f : Built(f, n)
<1>1. n \in Nat
  OBVIOUS
<1>2. Exists(0)
  <2> DEFINE g == [k \in 0..0 |-> <<>>]
  <2>1. g = [k \in 0..0 |-> Row(g, k)]
    <3>1. \A k \in 0..0 : Row(g, k) = <<>>
      OBVIOUS
    <3> HIDE DEF Row
    <3> QED
      BY <3>1
  <2>2. Built(g, 0)
    BY <2>1, Zenon
  <2> HIDE DEF Built
  <2> QED
    BY <2>2
<1>3. ASSUME NEW m \in 1..n, Exists(m - 1) PROVE Exists(m)
  <2>1. PICK f : Built(f, m - 1)
    BY <1>3, Zenon
  <2> DEFINE g == [k \in 0..m |-> Row(f, k)]
  <2>2. ASSUME NEW k \in 0..m PROVE Row(g, k) = Row(f, k)
    <3>1. CASE k = 0
      BY <3>1
    <3>2. CASE k # 0
      <4>1. k - 1 \in 0..(m - 1) /\ k - 1 \in 0..m
        BY <1>1, <3>2
      <4>2. f[k - 1] = Row(f, k - 1)
        BY <2>1, <4>1, Zenon
      <4>3. g[k - 1] = Row(f, k - 1)
        BY <4>1, Zenon
      <4> HIDE DEF g
      <4> QED
        BY <4>2, <4>3, Zenon
    <3> QED
      BY <3>1, <3>2
  <2>3. Built(g, m)
    <3>1. \A k \in 0..m : Row(g, k) = Row(f, k)
      BY <2>2
    <3> HIDE DEF Row
    <3> QED
      BY <3>1
  <2> HIDE DEF Built, g
  <2> QED
    BY <2>3
<1>4. Exists(n)
  <2> HIDE DEF Exists, n
  <2>1. 0 \in T
    BY <1>1, <1>2
  <2>2. \A m \in 1..n : m - 1 \in T => m \in T
    BY <1>1, <1>3
  <2> HIDE DEF T
  <2>3. n \in T
    BY <1>1, <2>1, <2>2, UpTo
  <2> QED
    BY <2>3 DEF T
<1>5. Built(rows, n)
  <2> HIDE DEF Built
  <2> QED
    BY <1>4, Zenon
<1>6. AliveKeys(bucket) = rows[n]
  BY Zenon DEF AliveKeys, AliveTurn
<1> HIDE DEF rows
<1>7. \A k \in 0..n : rows[k] = Row(rows, k)
  BY <1>5, Zenon
<1>8. rows[0] = <<>>
  BY <1>1, <1>7
<1>9. ASSUME NEW m \in 1..n PROVE rows[m] = AliveTurn(rows[m - 1], bucket[m])
  <2>1. m \in 0..n /\ m # 0
    BY <1>1
  <2> QED
    BY <1>7, <2>1, Zenon
<1> QED
  BY <1>6, <1>8, <1>9, Zenon

\* The keys of a bucket are a sequence of keys.
LEMMA AliveFacts ==
  ASSUME NEW bucket \in Seq(Record)
  PROVE  AliveKeys(bucket) \in Seq(Keys)
<1> DEFINE n == Len(bucket)
<1>1. n \in Nat /\ \A j \in 1..n : bucket[j] \in Record
  OBVIOUS
<1>2. PICK rows : /\ rows[0] = <<>>
                  /\ \A k \in 1..n : rows[k] = AliveTurn(rows[k - 1], bucket[k])
                  /\ AliveKeys(bucket) = rows[n]
  BY <1>1, AliveRows
<1> DEFINE T == {m \in 0..n : rows[m] \in Seq(Keys)}
<1> HIDE DEF n
<1>3. 0 \in T
  <2>1. rows[0] \in Seq(Keys)
    BY <1>2, EmptySeq
  <2> QED
    BY <1>1, <2>1
<1>4. ASSUME NEW m \in 1..n, m - 1 \in T PROVE m \in T
  <2>1. rows[m - 1] \in Seq(Keys) /\ bucket[m].key \in Keys
    BY <1>1, <1>4 DEF Record
  <2> DEFINE old == rows[m - 1]
             key == bucket[m].key
  <2>2. rows[m] = IF bucket[m].value = Expired THEN old ELSE Append(old, key)
    BY <1>2, Zenon DEF AliveTurn
  <2>3. old \in Seq(Keys) /\ key \in Keys
    BY <2>1
  <2> HIDE DEF old, key
  <2>4. Append(old, key) \in Seq(Keys)
    BY <2>3
  <2>5. rows[m] \in Seq(Keys)
    BY <2>2, <2>3, <2>4
  <2> QED
    BY <1>1, <2>5
<1> HIDE DEF T
<1>5. n \in T
  BY <1>1, <1>3, <1>4, UpTo
<1> QED
  BY <1>2, <1>5 DEF T

\* getKeysRange hands out at most as many keys as it is asked for.
LEMMA KeysRangeFacts ==
  ASSUME NEW t, Sound(t), NEW from \in Nat, NEW count \in Nat
  PROVE  /\ ListableKeys(t) \in Seq(Keys)
         /\ getKeysRange(t, from, count) \in Seq(Keys)
         /\ Len(getKeysRange(t, from, count)) <= count
<1> DEFINE lists == [b \in DOMAIN t.chains |-> AliveKeys(t.chains[b][1])]
           all == ListableKeys(t)
<1>1. t.chains \in Seq(Seq(Seq(Record))) /\ DOMAIN t.chains = 1..Len(t.chains)
  BY DEF Sound, Tables
<1>2. ASSUME NEW b \in DOMAIN t.chains PROVE AliveKeys(t.chains[b][1]) \in Seq(Keys)
  <2>1. t.chains[b] \in Seq(Seq(Record)) /\ Len(t.chains[b]) > 0
    BY <1>1 DEF Sound, GoodChain, IsChain
  <2>2. t.chains[b][1] \in Seq(Record)
    BY <2>1
  <2> QED
    BY <2>2, AliveFacts
<1>3. lists \in Seq(Seq(Keys))
  BY <1>1, <1>2
<1>4. all = FlattenSeq(lists)
  BY DEF ListableKeys
<1> HIDE DEF lists, all
<1>5. all \in Seq(Keys)
  BY <1>3, <1>4, FlattenFacts
<1> DEFINE last == Min({from + count, Len(all)})
<1>6. last \in Int /\ last <= from + count /\ last <= Len(all)
  <2>1. {from + count, Len(all)} \in SUBSET Nat
    BY <1>5
  <2>2. \E m \in {from + count, Len(all)} : \A k \in {from + count, Len(all)} : m <= k
    BY <2>1, LeastNatural
  <2> QED
    BY <2>1, <2>2 DEF Min
<1>7. getKeysRange(t, from, count) = SubSeq(all, from + 1, last)
  BY DEF getKeysRange, all
<1> HIDE DEF last
<1>8. \A i \in (from + 1)..last : all[i] \in Keys
  BY <1>5, <1>6
<1>9. /\ SubSeq(all, from + 1, last) \in Seq(Keys)
      /\ Len(SubSeq(all, from + 1, last)) = IF from + 1 <= last THEN last - (from + 1) + 1 ELSE 0
  BY <1>6, <1>8, SubSeqProperties
<1> QED
  BY <1>5, <1>6, <1>7, <1>9 DEF all

\* No key is twice among those of a bucket that holds each once.
LEMMA AliveOnce ==
  ASSUME NEW bucket \in Seq(Record),
         \A i, j \in 1..Len(bucket) : bucket[i].key = bucket[j].key => i = j
  PROVE  LET keys == AliveKeys(bucket)
         IN /\ \A x \in 1..Len(keys) : \E j \in 1..Len(bucket) : keys[x] = bucket[j].key
            /\ \A x, y \in 1..Len(keys) : keys[x] = keys[y] => x = y
<1> DEFINE n == Len(bucket)
<1>1. n \in Nat /\ \A j \in 1..n : bucket[j] \in Record
  OBVIOUS
<1>2. PICK rows : /\ rows[0] = <<>>
                  /\ \A k \in 1..n : rows[k] = AliveTurn(rows[k - 1], bucket[k])
                  /\ AliveKeys(bucket) = rows[n]
  BY <1>1, AliveRows
<1> DEFINE From(keys, m) == \A x \in 1..Len(keys) : \E j \in 1..m : keys[x] = bucket[j].key
           Once(keys) == \A x, y \in 1..Len(keys) : keys[x] = keys[y] => x = y
           Good1(m) == rows[m] \in Seq(Keys) /\ From(rows[m], m) /\ Once(rows[m])
           T == {m \in 0..n : Good1(m)}
<1>3. Good1(0)
  <2>1. rows[0] \in Seq(Keys) /\ Len(rows[0]) = 0
    BY <1>2
  <2> QED
    BY <2>1
<1> HIDE DEF n
<1>4. ASSUME NEW m \in 1..n, Good1(m - 1) PROVE Good1(m)
  <2> DEFINE old == rows[m - 1]
             key == bucket[m].key
             new == rows[m]
  <2>1. old \in Seq(Keys) /\ From(old, m - 1) /\ Once(old) /\ key \in Keys
    BY <1>1, <1>4 DEF Record
  <2>2. new = IF bucket[m].value = Expired THEN old ELSE Append(old, key)
    BY <1>2 DEF AliveTurn
  <2>3. m \in Nat /\ m > 0
    BY <1>1
  <2> HIDE DEF old, new
  <2>4. CASE bucket[m].value = Expired
    <3>1. From(old, m)
      <4> SUFFICES ASSUME NEW x \in 1..Len(old) PROVE \E j \in 1..m : old[x] = bucket[j].key
        OBVIOUS
      <4>1. PICK j \in 1..(m - 1) : old[x] = bucket[j].key
        BY <2>1
      <4>2. j \in 1..m
        BY <2>3
      <4> QED
        BY <4>1, <4>2
    <3> HIDE DEF From, Once
    <3> QED
      BY <2>1, <2>2, <2>4, <3>1 DEF new
  <2>5. CASE bucket[m].value # Expired
    <3>1. /\ new \in Seq(Keys) /\ Len(new) = Len(old) + 1 /\ new[Len(old) + 1] = key
          /\ \A x \in 1..Len(old) : new[x] = old[x]
          /\ Len(old) \in Nat
      BY <2>1, <2>2, <2>5
    <3>2. ASSUME NEW x \in 1..Len(old) PROVE \E j \in 1..m : new[x] = bucket[j].key /\ new[x] # key
      <4>1. PICK j \in 1..(m - 1) : old[x] = bucket[j].key
        BY <2>1
      <4>2. j \in 1..m /\ j # m /\ j \in 1..n /\ m \in 1..n
        BY <1>1, <2>3
      <4>3. bucket[j].key # bucket[m].key
        BY <4>2 DEF n
      <4> QED
        BY <3>1, <4>1, <4>2, <4>3
    <3>3. From(new, m)
      <4> SUFFICES ASSUME NEW x \in 1..Len(new) PROVE \E j \in 1..m : new[x] = bucket[j].key
        OBVIOUS
      <4>1. CASE x \in 1..Len(old)
        BY <3>2, <4>1
      <4>2. CASE x \notin 1..Len(old)
        <5>1. x = Len(old) + 1 /\ m \in 1..m
          BY <2>3, <3>1, <4>2
        <5> QED
          BY <3>1, <5>1
      <4> QED
        BY <4>1, <4>2
    <3>4. Once(new)
      <4> SUFFICES ASSUME NEW x \in 1..Len(new), NEW y \in 1..Len(new), new[x] = new[y] PROVE x = y
        OBVIOUS
      <4>1. CASE x \in 1..Len(old) /\ y \in 1..Len(old)
        BY <2>1, <3>1, <4>1
      <4>2. CASE x \in 1..Len(old) /\ y \notin 1..Len(old)
        <5>1. y = Len(old) + 1
          BY <3>1, <4>2
        <5>2. new[x] # key
          BY <3>2, <4>2, Zenon
        <5> QED
          BY <3>1, <5>1, <5>2
      <4>3. CASE x \notin 1..Len(old) /\ y \in 1..Len(old)
        <5>1. x = Len(old) + 1
          BY <3>1, <4>3
        <5>2. new[y] # key
          BY <3>2, <4>3, Zenon
        <5> QED
          BY <3>1, <5>1, <5>2
      <4>4. CASE x \notin 1..Len(old) /\ y \notin 1..Len(old)
        BY <3>1, <4>4
      <4> QED
        BY <4>1, <4>2, <4>3, <4>4
    <3> HIDE DEF From, Once
    <3> QED
      BY <3>1, <3>3, <3>4 DEF new
  <2> QED
    BY <2>4, <2>5
<1>5. Good1(n)
  <2> HIDE DEF Good1
  <2>1. 0 \in T
    BY <1>1, <1>3
  <2>2. \A m \in 1..n : m - 1 \in T => m \in T
    BY <1>1, <1>4
  <2> HIDE DEF T
  <2>3. n \in T
    BY <1>1, <2>1, <2>2, UpTo
  <2> QED
    BY <2>3 DEF T
<1> QED
  BY <1>2, <1>5 DEF n

(***************************************************************************)
(* What a storage lists are keys of its table, each once, and never more   *)
(* than its size.                                                          *)
(***************************************************************************)
LEMMA ListableFacts ==
  ASSUME NEW t, Good(t)
  PROVE  LET all == ListableKeys(t)
         IN /\ all \in Seq(Keys) /\ IsInjective(all) /\ ToSet(all) \subseteq KeysOf(Contents(t))
            /\ Len(all) <= t.size
<1> DEFINE Listed1(b) == AliveKeys(t.chains[b][1])
           lists == [b \in DOMAIN t.chains |-> Listed1(b)]
           all == ListableKeys(t)
           K == KeysOf(Contents(t))
<1>1. Sound(t) /\ IsFiniteSet(Contents(t)) /\ t.size = Cardinality(Contents(t))
  BY GoodFacts
<1>2. t.chains \in Seq(Seq(Seq(Record))) /\ DOMAIN t.chains = 1..Len(t.chains)
  BY <1>1 DEF Sound, Tables
<1>3. ASSUME NEW b \in 1..Len(t.chains)
      PROVE  /\ Listed1(b) \in Seq(Keys)
             /\ \A x \in 1..Len(Listed1(b)) : \E r \in Contents(t) :
                  Listed1(b)[x] = r.key /\ Home(t, r.key) = b
             /\ \A x, y \in 1..Len(Listed1(b)) : Listed1(b)[x] = Listed1(b)[y] => x = y
  <2> DEFINE c == t.chains[b]
             s == c[1]
  <2>1. /\ c \in Seq(Seq(Record)) /\ Len(c) > 0 /\ OneEach(c)
        /\ \A r \in Held(c) : Home(t, r.key) = b
    BY <1>1 DEF Sound, GoodChain, IsChain
  <2>2. Held(c) \subseteq Contents(t)
    BY <1>1, ContentsAtHome
  <2> HIDE DEF c
  <2>3. 1 \in 1..Len(c) /\ s \in Seq(Record)
    BY <2>1
  <2>4. \A i, j \in 1..Len(s) : s[i].key = s[j].key => i = j
    <3> SUFFICES ASSUME NEW i \in 1..Len(s), NEW j \in 1..Len(s), s[i].key = s[j].key PROVE i = j
      OBVIOUS
    <3>1. KeyAt(c, 1, i) = KeyAt(c, 1, j)
      BY DEF KeyAt
    <3> QED
      BY <2>1, <2>3, <3>1, OnlyOnce
  <2>5. \A j \in 1..Len(s) : s[j] \in Held(c)
    BY <2>1, <2>3, HeldRecords
  <2> HIDE DEF s
  <2> DEFINE keys == AliveKeys(s)
  <2>6. /\ keys \in Seq(Keys)
        /\ \A x \in 1..Len(keys) : \E j \in 1..Len(s) : keys[x] = s[j].key
        /\ \A x, y \in 1..Len(keys) : keys[x] = keys[y] => x = y
    BY <2>3, <2>4, AliveFacts, AliveOnce
  <2> HIDE DEF keys
  <2>7. \A x \in 1..Len(keys) : \E r \in Contents(t) : keys[x] = r.key /\ Home(t, r.key) = b
    BY <2>1, <2>2, <2>5, <2>6
  <2>8. Listed1(b) = keys
    BY DEF keys, s, c
  <2> HIDE DEF Listed1
  <2> QED
    BY <2>6, <2>7, <2>8
<1> HIDE DEF Listed1
<1>4. lists \in Seq(Seq(Keys)) /\ Len(lists) = Len(t.chains)
  BY <1>2, <1>3
<1>5. \A b \in 1..Len(lists) : lists[b] = Listed1(b)
  BY <1>2, <1>4
<1>6. all = FlattenSeq(lists)
  BY DEF ListableKeys, Listed1
<1> HIDE DEF lists, all
<1>7. all \in Seq(Keys)
  BY <1>4, <1>6, FlattenFacts
<1>8. \A k, l \in 1..Len(lists) : \A i \in 1..Len(lists[k]) : \A j \in 1..Len(lists[l]) :
        lists[k][i] = lists[l][j] => k = l /\ i = j
  <2> SUFFICES ASSUME NEW k \in 1..Len(lists), NEW l \in 1..Len(lists),
                      NEW i \in 1..Len(lists[k]), NEW j \in 1..Len(lists[l]),
                      lists[k][i] = lists[l][j]
               PROVE  k = l /\ i = j
    OBVIOUS
  <2>1. lists[k] = Listed1(k) /\ lists[l] = Listed1(l)
    BY <1>5
  <2>2. PICK x \in Contents(t) : lists[k][i] = x.key /\ Home(t, x.key) = k
    BY <1>3, <1>4, <2>1
  <2>3. PICK y \in Contents(t) : lists[l][j] = y.key /\ Home(t, y.key) = l
    BY <1>3, <1>4, <2>1
  <2>4. k = l
    BY <2>2, <2>3
  <2> QED
    BY <1>3, <1>4, <2>1, <2>4
<1>9. IsInjective(all)
  BY <1>4, <1>6, <1>8, FlattenInjective
<1>10. \A x \in 1..Len(all) : all[x] \in K
  <2> SUFFICES ASSUME NEW x \in 1..Len(all) PROVE all[x] \in K
    OBVIOUS
  <2>1. PICK b : Bases(b, lists)
    BY <1>4, FlattenBases
  <2>2. PICK k \in 1..Len(lists) : \E j \in 1..Len(lists[k]) : x = b[k - 1] + j
    BY <1>6, <2>1 DEF Bases
  <2>3. PICK j \in 1..Len(lists[k]) : x = b[k - 1] + j
    BY <2>2
  <2>4. all[x] = lists[k][j]
    BY <1>6, <2>1, <2>3 DEF Bases
  <2>5. lists[k] = Listed1(k)
    BY <1>5
  <2>6. PICK r \in Contents(t) : lists[k][j] = r.key
    BY SMTT(30), <1>3, <1>4, <2>5
  <2> QED
    BY <2>4, <2>6 DEF KeysOf
<1>11. ToSet(all) \subseteq K
  BY <1>7, <1>10 DEF ToSet
<1>12. IsFiniteSet(K) /\ Cardinality(K) <= t.size /\ Cardinality(K) \in Nat
  <2> DEFINE S == Contents(t)
             f == [r \in S |-> r.key]
  <2>1. f \in [S -> K]
    BY DEF KeysOf
  <2>2. \A k \in K : \E r \in S : f[r] = k
    BY DEF KeysOf
  <2> HIDE DEF f, K, S
  <2>3. f \in Surjection(S, K)
    BY <2>1, <2>2, Fun_IsSurj
  <2>4. IsFiniteSet(S) /\ t.size = Cardinality(S)
    BY <1>1 DEF S
  <2>5. IsFiniteSet(K) /\ Cardinality(K) <= Cardinality(S)
    BY <2>3, <2>4, FS_Surjection
  <2> QED
    BY <2>4, <2>5, FS_CardinalityType
<1>13. Len(all) <= Cardinality(K)
  <2> DEFINE n == Len(all)
             I == 1..n
  <2>1. n \in Nat
    BY <1>7
  <2>2. all \in [I -> K]
    <3>1. all = [i \in I |-> all[i]]
      BY <1>7
    <3> HIDE DEF I, K
    <3> QED
      BY <1>10, <3>1 DEF I
  <2>3. \A i, j \in I : all[i] = all[j] => i = j
    BY <1>7, <1>9 DEF IsInjective
  <2> HIDE DEF n, K
  <2>4. IsFiniteSet(I) /\ Cardinality(I) = n
    BY <2>1, FS_Interval
  <2> HIDE DEF I
  <2>5. all \in Injection(I, K)
    BY <2>2, <2>3, Fun_IsInj
  <2>6. Cardinality(I) <= Cardinality(K)
    BY <1>12, <2>5, FS_Injection
  <2> QED
    BY <2>4, <2>6 DEF n
<1>14. Len(all) <= t.size
  <2>1. Len(all) \in Nat /\ t.size \in Nat
    BY <1>1, <1>7, FS_CardinalityType
  <2> HIDE DEF K
  <2> QED
    BY <1>12, <1>13, <2>1
<1> QED
  BY <1>7, <1>9, <1>11, <1>14 DEF all
=============================================================================
