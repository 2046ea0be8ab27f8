-------------------------- MODULE KeysRange_proofs --------------------------
(***************************************************************************)
(* What a client gets from getKeysRange, for any storages, requests and    *)
(* changes by other threads: no key twice, no more keys than it asked for, *)
(* and an exception only for a huge request; without changes exactly the   *)
(* page of the storages' lists; and with one change all keys that stay, if *)
(* it asked for all.                                                       *)
(***************************************************************************)
EXTENDS KeysRange, HashTable_proofs
-----------------------------------------------------------------------------
(***************************************************************************)
(* The locals of a call.                                                   *)
(***************************************************************************)
Numbers == 0..(Word - 1)

Phases == {"call", "size", "keys", "again", "return", "throw"}

Calls ==
  [phase : Phases, from : Numbers, count : Numbers, indicesToSkip : Numbers,
   storage : 1..(Len(KeysAt) + 1), storageKeyIndex : Numbers, keysToRead : Numbers,
   excludeKeys : SUBSET Keys, result : Seq(Keys)]

(***************************************************************************)
(* The keys in the result are remembered, so that none is listed again,    *)
(* and nothing is listed before all is skipped.                            *)
(***************************************************************************)
Listed(c) ==
  /\ Len(c.result) <= c.count
  /\ IsInjective(c.result) /\ ToSet(c.result) \subseteq c.excludeKeys
  /\ c.indicesToSkip <= c.from
  /\ c.indicesToSkip > 0 => c.result = <<>>

(***************************************************************************)
(* While nobody changes the storages, the index does not run ahead of the  *)
(* size, and the difference of the two does not wrap.                      *)
(***************************************************************************)
Quiet(c, tables) ==
  c.storage \in Storages =>
    /\ c.phase = "keys" => c.storageKeyIndex + c.keysToRead <= tables[c.storage].size
    /\ c.phase # "keys" => c.storageKeyIndex <= tables[c.storage].size

Guarded(c) ==
  /\ c.phase \in {"size", "keys", "again"} => c.storage \in Storages
  /\ c.phase \in {"size", "keys"} => c.indicesToSkip > 0 \/ c.count <= MaxReserve
  /\ c.phase = "keys" => c.keysToRead <= Wanted(c)

Excused(c, n) ==
  \/ c.count > MaxReserve
  \/ c.from > MaxReserve /\ n > 0

(***************************************************************************)
(* A call after n changes, and the hash tables of the node.                *)
(***************************************************************************)
CallSound(c, n, tables) ==
  /\ c \in Calls
  /\ Listed(c)
  /\ Guarded(c)
  /\ n = 0 => Quiet(c, tables)
  /\ c.phase = "throw" => Excused(c, n)

TablesGood(tables) ==
  /\ DOMAIN tables = Storages
  /\ \A i \in Storages : Good(tables[i]) /\ KeysOf(Contents(tables[i])) \subseteq KeysAt[i]

IInv ==
  /\ TablesGood(storages)
  /\ changes \in 0..MaxChanges
  /\ call # Idle => CallSound(call, changes, storages)

-----------------------------------------------------------------------------
(***************************************************************************)
(* A storage has no more records than there are keys for it.               *)
(***************************************************************************)
LEMMA SizeBounded ==
  ASSUME NEW t, Good(t), NEW S, IsFiniteSet(S), KeysOf(Contents(t)) \subseteq S
  PROVE  t.size \in Nat /\ t.size <= Cardinality(S)
<1> DEFINE C == Contents(t)
           f == [r \in C |-> r.key]
<1>1. IsFiniteSet(C) /\ t.size = Cardinality(C) /\ t.size \in Nat /\ Sound(t)
  BY GoodFacts
<1>2. f \in [C -> S]
  BY DEF KeysOf
<1>3. \A x, y \in C : x.key = y.key => x = y
  BY <1>1, ContentsAtHome
<1>4. f \in Injection(C, S)
  <2>1. \A x, y \in C : f[x] = f[y] => x = y
    BY <1>3
  <2> HIDE DEF f, C
  <2> QED
    BY <1>2, <2>1, Fun_IsInj
<1> HIDE DEF f, C
<1>5. Cardinality(C) <= Cardinality(S)
  BY <1>4, FS_Injection
<1> QED
  BY <1>1, <1>5

\* The storages of the node, and how many records each has.
LEMMA StorageFacts ==
  ASSUME NEW tables, TablesGood(tables), NEW i \in Storages
  PROVE  /\ Good(tables[i]) /\ Sound(tables[i])
         /\ tables[i].size \in Nat /\ tables[i].size <= MaxReserve
<1>1. Good(tables[i]) /\ KeysOf(Contents(tables[i])) \subseteq KeysAt[i]
  BY DEF TablesGood
<1>2. IsFiniteSet(KeysAt[i]) /\ Cardinality(KeysAt[i]) <= MaxReserve /\ MaxReserve \in Nat
  BY KeysRangeAssumption DEF Storages
<1>3. Cardinality(KeysAt[i]) \in Nat
  BY <1>2, FS_CardinalityType
<1>4. tables[i].size \in Nat /\ tables[i].size <= Cardinality(KeysAt[i])
  BY <1>1, <1>2, SizeBounded
<1> QED
  BY <1>1, <1>2, <1>3, <1>4, GoodFacts

\* The smaller of two numbers.
LEMMA MinOfTwo ==
  ASSUME NEW a \in Int, NEW b \in Int
  PROVE  Min({a, b}) = IF a <= b THEN a ELSE b
<1> DEFINE m == IF a <= b THEN a ELSE b
<1>1. m \in {a, b} /\ \A k \in {a, b} : m <= k
  OBVIOUS
<1>2. \A k \in {a, b} : k \in Int
  OBVIOUS
<1>3. \A k \in {a, b} : (\A l \in {a, b} : k <= l) => k = m
  BY <1>1, <1>2
<1> HIDE DEF m
<1> QED
  BY <1>1, <1>3 DEF Min, m

-----------------------------------------------------------------------------
(***************************************************************************)
(* Listing the keys of a storage, one by one.                              *)
(***************************************************************************)
LEMMA ListRows ==
  ASSUME NEW c, NEW keys, Len(keys) \in Nat
  PROVE  \E rows : /\ rows[0] = c
                   /\ \A k \in 1..Len(keys) : rows[k] = ListKey(rows[k - 1], keys[k])
                   /\ ListKeys(c, keys) = rows[Len(keys)]
<1> DEFINE n == Len(keys)
           Row(f, k) == IF k = 0 THEN c ELSE ListKey(f[k - 1], keys[k])
           Built(f, m) == f = [k \in 0..m |-> Row(f, k)]
           Exists(m) == \E f : Built(f, m)
           T == {m \in 0..n : Exists(m)}
           rows == CHOOSE f : Built(f, n)
<1>1. n \in Nat
  OBVIOUS
<1>2. Exists(0)
  <2> DEFINE g == [k \in 0..0 |-> c]
  <2>1. g = [k \in 0..0 |-> Row(g, k)]
    <3>1. \A k \in 0..0 : Row(g, k) = c
      OBVIOUS
    <3> HIDE DEF Row
    <3> QED
      BY <3>1
  <2>2. Built(g, 0)
    BY <2>1, Zenon
  <2> HIDE DEF Built
  <2> QED
    BY <2>2
<1>3. ASSUME NEW m \in 1..n, Exists(m - 1) PROVE Exists(m)
  <2>1. PICK f : Built(f, m - 1)
    BY <1>3, Zenon
  <2> DEFINE g == [k \in 0..m |-> Row(f, k)]
  <2>2. ASSUME NEW k \in 0..m PROVE Row(g, k) = Row(f, k)
    <3>1. CASE k = 0
      BY <3>1
    <3>2. CASE k # 0
      <4>1. k - 1 \in 0..(m - 1) /\ k - 1 \in 0..m
        BY <1>1, <3>2
      <4>2. f[k - 1] = Row(f, k - 1)
        BY <2>1, <4>1, Zenon
      <4>3. g[k - 1] = Row(f, k - 1)
        BY <4>1, Zenon
      <4> HIDE DEF g
      <4> QED
        BY <4>2, <4>3, Zenon
    <3> QED
      BY <3>1, <3>2
  <2>3. Built(g, m)
    <3>1. \A k \in 0..m : Row(g, k) = Row(f, k)
      BY <2>2
    <3> HIDE DEF Row
    <3> QED
      BY <3>1
  <2> HIDE DEF Built, g
  <2> QED
    BY <2>3
<1>4. Exists(n)
  <2> HIDE DEF Exists, n
  <2>1. 0 \in T
    BY <1>1, <1>2
  <2>2. \A m \in 1..n : m - 1 \in T => m \in T
    BY <1>1, <1>3
  <2> HIDE DEF T
  <2>3. n \in T
    BY <1>1, <2>1, <2>2, UpTo
  <2> QED
    BY <2>3 DEF T
<1>5. Built(rows, n)
  <2> HIDE DEF Built
  <2> QED
    BY <1>4, Zenon
<1>6. ListKeys(c, keys) = rows[n]
  BY Zenon DEF ListKeys
<1> HIDE DEF rows
<1>7. \A k \in 0..n : rows[k] = Row(rows, k)
  BY <1>5, Zenon
<1>8. rows[0] = c
  BY <1>1, <1>7
<1>9. ASSUME NEW m \in 1..n PROVE rows[m] = ListKey(rows[m - 1], keys[m])
  <2>1. m \in 0..n /\ m # 0
    BY <1>1
  <2> QED
    BY <1>7, <2>1, Zenon
<1> QED
  BY <1>6, <1>8, <1>9, Zenon

\* What listing leaves alone.
SameCall(u, c) ==
  /\ u.phase = c.phase /\ u.from = c.from /\ u.count = c.count
  /\ u.indicesToSkip = c.indicesToSkip /\ u.storage = c.storage
  /\ u.storageKeyIndex = c.storageKeyIndex /\ u.keysToRead = c.keysToRead

Distinct(c) == IsInjective(c.result) /\ ToSet(c.result) \subseteq c.excludeKeys

\* The call with another result and other keys to exclude.
Holding(c, r, X) == [c EXCEPT !.result = r, !.excludeKeys = X]

\* Its fields.
LEMMA HoldingFields ==
  ASSUME NEW c \in Calls, NEW r \in Seq(Keys), NEW X \in SUBSET Keys
  PROVE  LET u == Holding(c, r, X)
         IN u \in Calls /\ SameCall(u, c) /\ u.result = r /\ u.excludeKeys = X
<1> DEFINE u == Holding(c, r, X)
<1>1. u \in Calls
  BY DEF Holding, Calls
<1>2. SameCall(u, c)
  BY DEF Holding, Calls, SameCall
<1>3. u.result = r /\ u.excludeKeys = X
  BY DEF Holding, Calls
<1> QED
  BY <1>1, <1>2, <1>3

\* One key more in the result.
LEMMA ListKeyFacts ==
  ASSUME NEW c \in Calls, Distinct(c), NEW key \in Keys
  PROVE  LET u == ListKey(c, key)
         IN /\ u \in Calls /\ SameCall(u, c) /\ Distinct(u)
            /\ Len(u.result) <= Len(c.result) + 1
<1> DEFINE u == ListKey(c, key)
           s == c.result
           r == Append(s, key)
           X == c.excludeKeys
<1>1. s \in Seq(Keys) /\ Len(s) \in Nat /\ X \in SUBSET Keys
  BY DEF Calls
<1>2. CASE key \in X
  BY <1>1, <1>2 DEF ListKey, SameCall
<1>3. CASE key \notin X
  <2>1. u = Holding(c, r, X \union {key})
    BY <1>3 DEF ListKey, Holding
  <2>2. /\ r \in Seq(Keys) /\ Len(r) = Len(s) + 1 /\ r[Len(s) + 1] = key
        /\ \A i \in 1..Len(s) : r[i] = s[i]
    BY <1>1
  <2>3. \A i, j \in 1..Len(s) : s[i] = s[j] => i = j
    BY <1>1 DEF Distinct, IsInjective
  <2>4. \A i \in 1..Len(s) : s[i] \in X
    BY <1>1 DEF Distinct, ToSet
  <2> HIDE DEF r, s, X
  <2>5. \A i, j \in 1..Len(r) : r[i] = r[j] => i = j
    BY <1>1, <1>3, <2>2, <2>3, <2>4
  <2>6. \A i \in 1..Len(r) : r[i] \in X \union {key}
    BY <1>1, <2>2, <2>4
  <2>7. DOMAIN r = 1..Len(r)
    BY <2>2
  <2>8. IsInjective(r) /\ ToSet(r) \subseteq X \union {key}
    BY <2>5, <2>6, <2>7 DEF IsInjective, ToSet
  <2>9. /\ u.result = r /\ u.excludeKeys = X \union {key} /\ u \in Calls /\ SameCall(u, c)
    <3> DEFINE Y == X \union {key}
    <3>1. Y \in SUBSET Keys
      BY <1>1
    <3> HIDE DEF Y, u
    <3>2. u = Holding(c, r, Y)
      BY <2>1 DEF Y
    <3> QED
      BY <2>2, <3>1, <3>2, HoldingFields DEF Y
  <2> HIDE DEF u
  <2>10. Distinct(u)
    BY <2>8, <2>9 DEF Distinct
  <2> QED
    BY <1>1, <2>2, <2>9, <2>10 DEF u, s
<1> QED
  BY <1>2, <1>3

\* All the keys that a storage returned.
LEMMA ListKeysFacts ==
  ASSUME NEW c \in Calls, Distinct(c), NEW keys \in Seq(Keys)
  PROVE  LET u == ListKeys(c, keys)
         IN /\ u \in Calls /\ SameCall(u, c) /\ Distinct(u)
            /\ Len(u.result) <= Len(c.result) + Len(keys)
<1> DEFINE n == Len(keys)
           a == Len(c.result)
<1>1. n \in Nat /\ a \in Nat /\ \A j \in 1..n : keys[j] \in Keys
  BY DEF Calls
<1>2. PICK rows : /\ rows[0] = c
                  /\ \A k \in 1..n : rows[k] = ListKey(rows[k - 1], keys[k])
                  /\ ListKeys(c, keys) = rows[n]
  BY <1>1, ListRows
<1> DEFINE Good1(u, m) == u \in Calls /\ SameCall(u, c) /\ Distinct(u) /\ Len(u.result) <= a + m
           T == {m \in 0..n : Good1(rows[m], m)}
<1>3. 0 \in T
  BY <1>1, <1>2 DEF SameCall
<1> HIDE DEF n, a
<1>4. ASSUME NEW m \in 1..n, m - 1 \in T PROVE m \in T
  <2> DEFINE old == rows[m - 1]
             new == ListKey(old, keys[m])
  <2>1. /\ old \in Calls /\ SameCall(old, c) /\ Distinct(old)
        /\ Len(old.result) <= a + (m - 1) /\ keys[m] \in Keys
    BY <1>1, <1>4
  <2>2. rows[m] = new
    BY <1>2
  <2> HIDE DEF old
  <2>3. /\ new \in Calls /\ SameCall(new, old) /\ Distinct(new)
        /\ Len(new.result) <= Len(old.result) + 1
    BY <2>1, ListKeyFacts
  <2> HIDE DEF new
  <2>4. SameCall(new, c)
    BY <2>1, <2>3 DEF SameCall
  <2>5. Len(new.result) <= a + m
    <3>1. Len(new.result) \in Nat /\ Len(old.result) \in Nat
      BY <2>1, <2>3 DEF Calls
    <3> QED
      BY <1>1, <2>1, <2>3, <3>1
  <2>6. m \in 0..n
    BY <1>1
  <2> QED
    BY <2>2, <2>3, <2>4, <2>5, <2>6
<1> HIDE DEF T
<1>5. n \in T
  BY <1>1, <1>3, <1>4, UpTo
<1> QED
  BY <1>2, <1>5 DEF T, n, a

-----------------------------------------------------------------------------
(***************************************************************************)
(* The other changes of a call's locals.                                   *)
(***************************************************************************)
InPhase(c, phase) == [c EXCEPT !.phase = phase]

At(c, storage, index) == [c EXCEPT !.storage = storage, !.storageKeyIndex = index]

Reading(c, n) == [c EXCEPT !.phase = "keys", !.keysToRead = n]

\* What concerns the keys alone.
SameKeys(u, c) ==
  /\ u.from = c.from /\ u.count = c.count /\ u.indicesToSkip = c.indicesToSkip
  /\ u.excludeKeys = c.excludeKeys /\ u.result = c.result

\* The fields of a call in another phase.
LEMMA InPhaseFields ==
  ASSUME NEW c \in Calls, NEW phase \in Phases
  PROVE  LET u == InPhase(c, phase)
         IN /\ u \in Calls /\ SameKeys(u, c) /\ u.phase = phase /\ u.storage = c.storage
            /\ u.storageKeyIndex = c.storageKeyIndex /\ u.keysToRead = c.keysToRead
<1> DEFINE u == InPhase(c, phase)
<1>1. u \in Calls
  BY DEF InPhase, Calls
<1>2. SameKeys(u, c)
  BY DEF InPhase, Calls, SameKeys
<1>3. /\ u.phase = phase /\ u.storage = c.storage
      /\ u.storageKeyIndex = c.storageKeyIndex /\ u.keysToRead = c.keysToRead
  BY DEF InPhase, Calls
<1> QED
  BY <1>1, <1>2, <1>3

\* The fields of a call at another place.
LEMMA AtFields ==
  ASSUME NEW c \in Calls, NEW storage \in 1..(Len(KeysAt) + 1), NEW index \in Numbers
  PROVE  LET u == At(c, storage, index)
         IN /\ u \in Calls /\ SameKeys(u, c) /\ u.phase = c.phase /\ u.storage = storage
            /\ u.storageKeyIndex = index /\ u.keysToRead = c.keysToRead
<1> DEFINE u == At(c, storage, index)
<1>1. u \in Calls
  BY DEF At, Calls
<1>2. SameKeys(u, c)
  BY DEF At, Calls, SameKeys
<1>3. /\ u.phase = c.phase /\ u.storage = storage
      /\ u.storageKeyIndex = index /\ u.keysToRead = c.keysToRead
  BY DEF At, Calls
<1> QED
  BY <1>1, <1>2, <1>3

\* The fields of a call that is about to read keys.
LEMMA ReadingFields ==
  ASSUME NEW c \in Calls, NEW n \in Numbers
  PROVE  LET u == Reading(c, n)
         IN /\ u \in Calls /\ SameKeys(u, c) /\ u.phase = "keys" /\ u.storage = c.storage
            /\ u.storageKeyIndex = c.storageKeyIndex /\ u.keysToRead = n
<1> DEFINE u == Reading(c, n)
<1>1. u \in Calls
  BY DEF Reading, Calls, Phases
<1>2. SameKeys(u, c)
  BY DEF Reading, Calls, SameKeys
<1>3. /\ u.phase = "keys" /\ u.storage = c.storage
      /\ u.storageKeyIndex = c.storageKeyIndex /\ u.keysToRead = n
  BY DEF Reading, Calls
<1> QED
  BY <1>1, <1>2, <1>3

\* Whether the listing is right depends on the keys alone.
LEMMA SameListed ==
  ASSUME NEW u, NEW c, SameKeys(u, c), Listed(c)
  PROVE  Listed(u)
BY DEF SameKeys, Listed

\* Skipping the keys that a storage returned.
LEMMA SkipKeysFacts ==
  ASSUME NEW c \in Calls, Listed(c), c.indicesToSkip > 0, NEW keys \in Seq(Keys),
         Len(keys) <= c.indicesToSkip
  PROVE  LET u == SkipKeys(c, keys)
         IN /\ u \in Calls /\ Listed(u)
            /\ u.phase = c.phase /\ u.from = c.from /\ u.count = c.count
            /\ u.storage = c.storage /\ u.storageKeyIndex = c.storageKeyIndex
            /\ u.keysToRead = c.keysToRead
<1> DEFINE u == SkipKeys(c, keys)
           X == c.excludeKeys \union ToSet(keys)
           k == c.indicesToSkip - Len(keys)
<1>1. /\ c.indicesToSkip \in Numbers /\ Len(keys) \in Nat /\ Word \in Nat
      /\ c.from \in Numbers /\ c.indicesToSkip <= c.from /\ c.result = <<>>
      /\ c.count \in Numbers
  BY KeysRangeAssumption DEF Calls, Listed
<1>2. k \in Numbers /\ k <= c.from
  BY <1>1 DEF Numbers
<1>3. X \in SUBSET Keys
  <2>1. c.excludeKeys \in SUBSET Keys /\ ToSet(keys) \subseteq Keys
    BY DEF Calls, ToSet
  <2> QED
    BY <2>1
<1>4. u = [c EXCEPT !.excludeKeys = X, !.indicesToSkip = k]
  BY DEF SkipKeys
<1> HIDE DEF X, k, u
<1>5. u \in Calls
  BY <1>2, <1>3, <1>4 DEF Calls
<1>6. /\ u.phase = c.phase /\ u.from = c.from /\ u.count = c.count
      /\ u.storage = c.storage /\ u.storageKeyIndex = c.storageKeyIndex
      /\ u.keysToRead = c.keysToRead
  BY <1>4 DEF Calls
<1>7. u.result = <<>> /\ u.indicesToSkip = k
  BY <1>1, <1>4 DEF Calls
<1>8. Len(<<>>) = 0 /\ IsInjective(<<>>) /\ ToSet(<<>>) = {}
  BY DEF IsInjective, ToSet
<1>9. Listed(u)
  BY <1>1, <1>2, <1>6, <1>7, <1>8 DEF Listed, Numbers
<1> QED
  BY <1>5, <1>6, <1>9 DEF u

(***************************************************************************)
(* A storage's keys are taken: at most as many as the call still wants.    *)
(***************************************************************************)
LEMMA TakeKeysFacts ==
  ASSUME NEW c \in Calls, Listed(c), NEW keys \in Seq(Keys), Len(keys) <= Wanted(c)
  PROVE  LET u == TakeKeys(c, keys)
         IN /\ u \in Calls /\ Listed(u)
            /\ u.from = c.from /\ u.count = c.count /\ u.storage = c.storage
            /\ u.storageKeyIndex = (c.storageKeyIndex + c.keysToRead) % Word
<1> DEFINE v == IF c.indicesToSkip > 0 THEN SkipKeys(c, keys) ELSE ListKeys(c, keys)
           k == (c.storageKeyIndex + c.keysToRead) % Word
           u == TakeKeys(c, keys)
<1>1. /\ v \in Calls /\ Listed(v)
      /\ v.from = c.from /\ v.count = c.count /\ v.storage = c.storage
      /\ v.storageKeyIndex = c.storageKeyIndex /\ v.keysToRead = c.keysToRead
  <2>1. CASE c.indicesToSkip > 0
    <3>1. Len(keys) <= c.indicesToSkip
      BY <2>1 DEF Wanted
    <3> QED
      BY <2>1, <3>1, SkipKeysFacts
  <2>2. CASE ~(c.indicesToSkip > 0)
    <3>1. /\ c.indicesToSkip \in Nat /\ c.from \in Nat /\ c.count \in Nat /\ Len(c.result) \in Nat
          /\ Len(keys) \in Nat
      BY KeysRangeAssumption DEF Calls, Numbers
    <3>2. Len(keys) <= c.count - Len(c.result)
      BY <2>2 DEF Wanted, keysLeft
    <3>3. Distinct(c)
      BY DEF Listed, Distinct
    <3> DEFINE w == ListKeys(c, keys)
    <3>4. /\ w \in Calls /\ SameCall(w, c) /\ Distinct(w)
          /\ Len(w.result) <= Len(c.result) + Len(keys)
      BY <3>3, ListKeysFacts
    <3>5. v = w
      BY <2>2
    <3> HIDE DEF w
    <3>6. Len(w.result) \in Nat
      BY <3>4 DEF Calls
    <3>7. Len(w.result) <= w.count /\ w.indicesToSkip <= w.from
      BY <3>1, <3>2, <3>4, <3>6 DEF SameCall, Listed
    <3>8. Listed(w)
      BY <2>2, <3>1, <3>4, <3>7 DEF Listed, Distinct, SameCall
    <3> HIDE DEF v
    <3> QED
      BY <3>4, <3>5, <3>8 DEF SameCall
  <2> QED
    BY <2>1, <2>2
<1>2. k \in Numbers
  <2>1. c.storageKeyIndex \in Numbers /\ c.keysToRead \in Numbers /\ Word \in Nat /\ Word > 0
    BY KeysRangeAssumption DEF Calls
  <2> QED
    BY <2>1 DEF Numbers
<1>3. u = At(v, v.storage, k)
  <2>1. u = [v EXCEPT !.storageKeyIndex = (v.storageKeyIndex + c.keysToRead) % Word]
    BY DEF TakeKeys
  <2> HIDE DEF u, v
  <2>2. u = [v EXCEPT !.storageKeyIndex = k]
    BY <1>1, <2>1
  <2> HIDE DEF k
  <2> QED
    BY <1>1, <2>2 DEF At, Calls
<1> HIDE DEF u, v, k
<1>4. v.storage \in 1..(Len(KeysAt) + 1)
  BY <1>1 DEF Calls
<1>5. u \in Calls /\ SameKeys(u, v) /\ u.storage = v.storage /\ u.storageKeyIndex = k
  BY <1>1, <1>2, <1>3, <1>4, AtFields
<1>6. Listed(u)
  BY <1>1, <1>5, SameListed
<1> QED
  BY <1>1, <1>5, <1>6 DEF SameKeys, k, u

-----------------------------------------------------------------------------
(***************************************************************************)
(* The steps of a call.  The conditions of the loops:                      *)
(***************************************************************************)
LEMMA TurnFacts ==
  ASSUME NEW c \in Calls, Listed(c), NEW n, NEW tables,
         n = 0 => (c.storage \in Storages => c.storageKeyIndex <= tables[c.storage].size)
  PROVE  CallSound(Turn(c), n, tables)
<1> DEFINE u == Turn(c)
<1>1. PICK phase \in {"size", "throw", "return"} :
        /\ u = InPhase(c, phase)
        /\ phase = "size" => c.storage \in Storages /\ (c.indicesToSkip > 0 \/ ~(c.count > MaxReserve))
        /\ phase = "throw" => c.count > MaxReserve
  BY DEF Turn, InPhase, InNode
<1>2. phase \in Phases
  BY DEF Phases
<1> HIDE DEF u
<1>3. /\ u \in Calls /\ SameKeys(u, c) /\ u.phase = phase /\ u.storage = c.storage
      /\ u.storageKeyIndex = c.storageKeyIndex
  BY <1>1, <1>2, InPhaseFields
<1>4. Listed(u)
  BY <1>3, SameListed
<1>5. u.count = c.count /\ u.indicesToSkip = c.indicesToSkip /\ c.count \in Nat /\ MaxReserve \in Nat
  BY <1>3, KeysRangeAssumption DEF SameKeys, Calls, Numbers
<1>6. u.phase \in {"size", "throw", "return"}
  BY <1>3
<1>7. Guarded(u)
  BY <1>1, <1>3, <1>5, <1>6 DEF Guarded
<1>8. n = 0 => Quiet(u, tables)
  BY <1>3, <1>6 DEF Quiet
<1>9. u.phase = "throw" => Excused(u, n)
  BY <1>1, <1>3, <1>5 DEF Excused
<1> QED
  BY <1>3, <1>4, <1>7, <1>8, <1>9 DEF CallSound, u

\* What a call still wants is a number.
LEMMA WantedFacts ==
  ASSUME NEW c \in Calls, Listed(c)
  PROVE  /\ Wanted(c) \in Numbers
         /\ Wanted(c) <= IF c.indicesToSkip > 0 THEN c.from ELSE c.count
<1>1. /\ c.indicesToSkip \in Numbers /\ c.from \in Numbers /\ c.count \in Numbers
      /\ Len(c.result) \in Nat /\ Word \in Nat
      /\ c.indicesToSkip <= c.from /\ Len(c.result) <= c.count
  BY KeysRangeAssumption DEF Calls, Listed
<1> QED
  BY <1>1 DEF Wanted, keysLeft, Numbers

\* A number below Word is its own remainder.
LEMMA SmallMod ==
  ASSUME NEW k \in Nat, k < Word
  PROVE  k % Word = k
<1>1. Word \in Nat \ {0}
  BY KeysRangeAssumption
<1> QED
  BY <1>1

\* The size of the storage tells how many keys to read.
LEMMA GetSizeFacts ==
  ASSUME NEW c, NEW n, NEW tables, TablesGood(tables), CallSound(c, n, tables), c.phase = "size"
  PROVE  CallSound([c EXCEPT !.phase = "keys",
                             !.keysToRead = keysToRead(c, tables[c.storage].size)], n, tables)
<1> DEFINE size == tables[c.storage].size
           left == (size - c.storageKeyIndex) % Word
           k == keysToRead(c, size)
           u == Reading(c, k)
<1>1. /\ c \in Calls /\ Listed(c) /\ c.storage \in Storages
      /\ c.indicesToSkip > 0 \/ c.count <= MaxReserve
      /\ n = 0 => c.storageKeyIndex <= size
  BY DEF CallSound, Guarded, Quiet
<1>2. size \in Nat /\ size <= MaxReserve
  BY <1>1, StorageFacts
<1>3. /\ c.storageKeyIndex \in Numbers /\ Word \in Nat \ {0} /\ MaxReserve \in Nat
      /\ MaxReserve < Word
  BY <1>1, KeysRangeAssumption DEF Calls
<1> HIDE DEF size
<1>4. left \in Numbers
  BY <1>2, <1>3 DEF Numbers
<1>5. c.storageKeyIndex <= size => left = size - c.storageKeyIndex
  <2> SUFFICES ASSUME c.storageKeyIndex <= size PROVE left = size - c.storageKeyIndex
    OBVIOUS
  <2>1. size - c.storageKeyIndex \in Nat /\ size - c.storageKeyIndex < Word
    BY <1>2, <1>3 DEF Numbers
  <2> QED
    BY <2>1, SmallMod
<1>6. Wanted(c) \in Numbers
  BY <1>1, WantedFacts
<1>7. k \in Numbers /\ k <= Wanted(c) /\ k <= left
  <2>1. k = Min({Wanted(c), left})
    BY DEF keysToRead
  <2>2. Wanted(c) \in Int /\ left \in Int
    BY <1>4, <1>6 DEF Numbers
  <2> HIDE DEF left, k
  <2>3. k = IF Wanted(c) <= left THEN Wanted(c) ELSE left
    BY <2>1, <2>2, MinOfTwo
  <2> QED
    BY <1>4, <1>6, <2>2, <2>3
<1> HIDE DEF left, k
<1>8. /\ u \in Calls /\ SameKeys(u, c) /\ u.phase = "keys" /\ u.storage = c.storage
      /\ u.storageKeyIndex = c.storageKeyIndex /\ u.keysToRead = k
  BY <1>1, <1>7, ReadingFields
<1> HIDE DEF u
<1>9. Listed(u)
  BY <1>1, <1>8, SameListed
<1>10. Guarded(u)
  <2>1. Wanted(u) = Wanted(c)
    BY <1>8 DEF Wanted, keysLeft, SameKeys
  <2>2. u.indicesToSkip = c.indicesToSkip /\ u.count = c.count
    BY <1>8 DEF SameKeys
  <2> QED
    BY <1>1, <1>7, <1>8, <2>1, <2>2 DEF Guarded
<1>11. n = 0 => Quiet(u, tables)
  <2>1. n = 0 => c.storageKeyIndex + k <= size
    BY <1>1, <1>2, <1>3, <1>5, <1>7 DEF Numbers
  <2> QED
    BY <1>8, <2>1 DEF Quiet, size
<1>12. CallSound(u, n, tables)
  BY <1>8, <1>9, <1>10, <1>11 DEF CallSound
<1> QED
  BY <1>12 DEF u, Reading, k, size

\* Keys of the storage are taken, or reserving the space for them fails.
LEMMA GetKeysFacts ==
  ASSUME NEW c, NEW n \in Nat, NEW tables, TablesGood(tables), CallSound(c, n, tables),
         c.phase = "keys"
  PROVE  LET keys == getKeysRange(tables[c.storage], c.storageKeyIndex, c.keysToRead)
         IN CallSound(IF c.keysToRead > MaxReserve THEN [c EXCEPT !.phase = "throw"]
                      ELSE [TakeKeys(c, keys) EXCEPT !.phase = "again"], n, tables)
<1> DEFINE t == tables[c.storage]
           keys == getKeysRange(t, c.storageKeyIndex, c.keysToRead)
           k == c.storageKeyIndex + c.keysToRead
<1>1. /\ c \in Calls /\ Listed(c) /\ c.storage \in Storages /\ c.keysToRead <= Wanted(c)
      /\ c.indicesToSkip > 0 \/ c.count <= MaxReserve
      /\ n = 0 => k <= t.size
  BY DEF CallSound, Guarded, Quiet
<1>2. Sound(t) /\ t.size \in Nat /\ t.size <= MaxReserve
  BY <1>1, StorageFacts
<1>3. /\ c.storageKeyIndex \in Nat /\ c.keysToRead \in Nat /\ Word \in Nat \ {0} /\ MaxReserve \in Nat
      /\ MaxReserve < Word /\ c.from \in Nat /\ c.count \in Nat
  BY <1>1, KeysRangeAssumption, SMTT(30) DEF Calls, Numbers
<1>4. /\ Wanted(c) \in Nat
      /\ Wanted(c) <= IF c.indicesToSkip > 0 THEN c.from ELSE c.count
  BY <1>1, <1>3, WantedFacts DEF Numbers
<1> HIDE DEF t
<1>5. CASE c.keysToRead > MaxReserve
  <2> DEFINE u == InPhase(c, "throw")
  <2>1. n # 0
    BY <1>1, <1>2, <1>3, <1>5
  <2>2. c.from > MaxReserve
    BY <1>1, <1>3, <1>4, <1>5
  <2>3. u \in Calls /\ SameKeys(u, c) /\ u.phase = "throw"
    BY <1>1, InPhaseFields DEF Phases
  <2> HIDE DEF u
  <2>4. Listed(u)
    BY <1>1, <2>3, SameListed
  <2>5. Guarded(u) /\ Excused(u, n)
    BY <2>1, <2>2, <2>3 DEF Guarded, Excused, SameKeys
  <2>6. CallSound(u, n, tables)
    BY <2>1, <2>3, <2>4, <2>5 DEF CallSound
  <2> QED
    BY <1>5, <2>6 DEF u, InPhase
<1>6. CASE ~(c.keysToRead > MaxReserve)
  <2> DEFINE v == TakeKeys(c, keys)
             u == InPhase(v, "again")
  <2>1. keys \in Seq(Keys) /\ Len(keys) <= c.keysToRead
    BY <1>2, <1>3, KeysRangeFacts
  <2>2. Len(keys) <= Wanted(c)
    BY <1>1, <1>3, <1>4, <2>1
  <2> HIDE DEF keys, v
  <2>3. /\ v \in Calls /\ Listed(v) /\ v.storage = c.storage
        /\ v.storageKeyIndex = k % Word
    BY <1>1, <2>1, <2>2, TakeKeysFacts DEF v
  <2> HIDE DEF u
  <2>4. /\ u \in Calls /\ SameKeys(u, v) /\ u.phase = "again" /\ u.storage = c.storage
        /\ u.storageKeyIndex = k % Word
    BY <2>3, InPhaseFields DEF Phases, u
  <2>5. Listed(u)
    BY <2>3, <2>4, SameListed
  <2>6. Guarded(u)
    BY <1>1, <2>4 DEF Guarded
  <2>7. n = 0 => Quiet(u, tables)
    <3>1. k \in Nat
      BY <1>3
    <3>2. n = 0 => k <= t.size /\ k < Word
      BY <1>1, <1>2, <1>3, <3>1
    <3> HIDE DEF k
    <3>3. n = 0 => k % Word = k
      BY <3>1, <3>2, SmallMod
    <3> QED
      BY <2>4, <3>2, <3>3 DEF Quiet, t
  <2>8. CallSound(u, n, tables)
    BY <2>4, <2>5, <2>6, <2>7 DEF CallSound
  <2> QED
    BY <1>6, <2>8 DEF u, v, keys, t, InPhase
<1> QED
  BY <1>5, <1>6

\* The next storage, when the size says that this one is done.
LEMMA AgainFacts ==
  ASSUME NEW c, NEW n, NEW tables, TablesGood(tables), CallSound(c, n, tables),
         c.phase = "again"
  PROVE  CallSound(Turn(NextStorage(c, tables[c.storage].size)), n, tables)
<1> DEFINE size == tables[c.storage].size
           v == NextStorage(c, size)
<1>1. c \in Calls /\ Listed(c) /\ c.storage \in Storages /\ (n = 0 => c.storageKeyIndex <= size)
  BY DEF CallSound, Guarded, Quiet
<1>2. 0 \in Numbers /\ Storages = 1..Len(KeysAt) /\ Len(KeysAt) \in Nat
  BY KeysRangeAssumption DEF Numbers, Storages
<1>3. CASE c.storageKeyIndex >= size
  <2>1. v = At(c, c.storage + 1, 0)
    <3>1. v = [c EXCEPT !.storage = c.storage + 1, !.storageKeyIndex = 0]
      BY <1>3 DEF NextStorage
    <3> QED
      BY <3>1, Zenon DEF At
  <2>2. c.storage + 1 \in 1..(Len(KeysAt) + 1)
    BY <1>1, <1>2
  <2> HIDE DEF v
  <2>3. v \in Calls /\ SameKeys(v, c) /\ v.storage = c.storage + 1 /\ v.storageKeyIndex = 0
    BY <1>1, <1>2, <2>1, <2>2, AtFields
  <2>4. Listed(v)
    BY <1>1, <2>3, SameListed
  <2>5. v.storage \in Storages => 0 <= tables[v.storage].size
    <3> SUFFICES ASSUME v.storage \in Storages PROVE 0 <= tables[v.storage].size
      OBVIOUS
    <3>1. tables[v.storage].size \in Nat
      BY StorageFacts
    <3> QED
      BY <3>1
  <2> QED
    BY <2>3, <2>4, <2>5, TurnFacts DEF v
<1>4. CASE ~(c.storageKeyIndex >= size)
  <2>1. v = c
    BY <1>4 DEF NextStorage
  <2> HIDE DEF v
  <2> QED
    BY <1>1, <2>1, TurnFacts DEF v
<1> QED
  BY <1>3, <1>4

-----------------------------------------------------------------------------
(***************************************************************************)
(* What other threads, and the clock, do to a storage.                     *)
(***************************************************************************)

\* One storage changes, and holds no keys but those that clients put there.
LEMMA OneStorage ==
  ASSUME NEW tables, TablesGood(tables), NEW i \in Storages, NEW u, Good(u),
         KeysOf(Contents(u)) \subseteq KeysAt[i]
  PROVE  TablesGood([tables EXCEPT ![i] = u])
<1> DEFINE new == [tables EXCEPT ![i] = u]
<1>1. DOMAIN new = Storages
  BY DEF TablesGood
<1>2. ASSUME NEW j \in Storages
      PROVE  Good(new[j]) /\ KeysOf(Contents(new[j])) \subseteq KeysAt[j]
  <2>1. new[j] = IF j = i THEN u ELSE tables[j]
    BY DEF TablesGood
  <2> HIDE DEF new
  <2>2. Good(tables[j]) /\ KeysOf(Contents(tables[j])) \subseteq KeysAt[j]
    BY DEF TablesGood
  <2>3. CASE j = i
    BY <2>1, <2>3
  <2>4. CASE j # i
    BY <2>1, <2>2, <2>4
  <2> QED
    BY <2>3, <2>4
<1> HIDE DEF new
<1>3. TablesGood(new)
  BY <1>1, <1>2 DEF TablesGood
<1> QED
  BY <1>3 DEF new

\* A storage of the node, and a key that clients put there.
LEMMA KeyFacts ==
  ASSUME TablesGood(storages), NEW i \in Storages, NEW key \in KeysAt[i]
  PROVE  /\ Good(storages[i]) /\ key \in Keys
         /\ KeysOf(Contents(storages[i])) \subseteq KeysAt[i]
<1>1. KeysAt[i] \subseteq Keys
  BY KeysRangeAssumption DEF Storages
<1> QED
  BY <1>1 DEF TablesGood

\* A put leaves only keys that clients put there.
LEMMA PutKeepsTables ==
  ASSUME TablesGood(storages), NEW i \in Storages, NEW key \in KeysAt[i], NEW value \in Values,
         putValue(i, key, value)
  PROVE  TablesGood(storages')
<1> DEFINE t == storages[i]
           v == remove(t, key)
           u == insert(v, key, value)
           r == [key |-> key, value |-> value]
<1>1. Good(t) /\ key \in Keys /\ KeysOf(Contents(t)) \subseteq KeysAt[i]
  BY KeyFacts
<1>2. storages' = [storages EXCEPT ![i] = u]
  BY DEF putValue
<1> HIDE DEF t
<1>3. Good(v) /\ Contents(v) = {x \in Contents(t) : x.key # key}
  BY <1>1, RemoveFacts
<1> HIDE DEF v
<1>4. key \notin KeysOf(Contents(v)) /\ KeysOf(Contents(v)) \subseteq KeysAt[i]
  BY <1>1, <1>3 DEF KeysOf
<1>5. Good(u) /\ Purged(u, v, r)
  BY <1>1, <1>3, <1>4, InsertNewFacts
<1> HIDE DEF u
<1>6. KeysOf(Contents(u)) \subseteq KeysAt[i]
  <2>1. \A x \in Contents(u) : x \in Contents(v) \/ x = r
    BY <1>5 DEF Purged
  <2>2. r.key = key
    OBVIOUS
  <2> HIDE DEF r
  <2> QED
    BY <1>4, <2>1, <2>2 DEF KeysOf
<1> QED
  BY <1>2, <1>5, <1>6, OneStorage

\* So does a delete,
LEMMA DeleteKeepsTables ==
  ASSUME TablesGood(storages), NEW i \in Storages, NEW key \in KeysAt[i], deleteValue(i, key)
  PROVE  TablesGood(storages')
<1> DEFINE t == storages[i]
           u == remove(t, key)
<1>1. Good(t) /\ key \in Keys /\ KeysOf(Contents(t)) \subseteq KeysAt[i]
  BY KeyFacts
<1>2. storages' = [storages EXCEPT ![i] = u]
  BY DEF deleteValue
<1> HIDE DEF t
<1>3. Good(u) /\ Contents(u) = {x \in Contents(t) : x.key # key}
  BY <1>1, RemoveFacts
<1> HIDE DEF u
<1>4. KeysOf(Contents(u)) \subseteq KeysAt[i]
  BY <1>1, <1>3 DEF KeysOf
<1> QED
  BY <1>2, <1>3, <1>4, OneStorage

\* and a record that expires.
LEMMA ExpireKeepsTables ==
  ASSUME TablesGood(storages), NEW i \in Storages, NEW key \in KeysAt[i], Expire(i, key)
  PROVE  TablesGood(storages')
<1> DEFINE t == storages[i]
<1>1. Good(t) /\ KeysOf(Contents(t)) \subseteq KeysAt[i]
  BY KeyFacts
<1>2. PICK place \in Places(t) :
        storages' = [storages EXCEPT ![i].chains[place[1]][place[2]][place[3]].value = Expired]
  BY DEF Expire
<1> DEFINE u == Aged(t, place)
           r == RecordAt(t, place)
           x == [key |-> r.key, value |-> Expired]
<1>3. storages' = [storages EXCEPT ![i] = u]
  BY <1>2, Zenon DEF Aged
<1> HIDE DEF t
<1>4. Good(u) /\ r \in Contents(t) /\ Contents(u) = (Contents(t) \ {r}) \union {x}
  BY <1>1, ExpireFacts
<1> HIDE DEF u
<1>5. KeysOf(Contents(u)) \subseteq KeysAt[i]
  <2>1. x.key = r.key
    OBVIOUS
  <2> HIDE DEF x, r
  <2> QED
    BY <1>1, <1>4, <2>1 DEF KeysOf
<1> QED
  BY <1>3, <1>4, <1>5, OneStorage

\* A call that is told of a change expects nothing of sizes any more.
LEMMA ObserveFacts ==
  ASSUME IInv, TablesGood(storages'), call' = call, Observe
  PROVE  IInv'
<1>1. CASE call = Idle
  BY <1>1 DEF IInv, Observe
<1>2. CASE call # Idle
  <2>1. changes \in 0..2 /\ CallSound(call, changes, storages)
    BY <1>2 DEF IInv, MaxChanges
  <2>2. changes' = Min({changes + 1, 2})
    BY <1>2 DEF Observe, MaxChanges
  <2>3. changes' = IF changes + 1 <= 2 THEN changes + 1 ELSE 2
    <3>1. changes + 1 \in Int /\ 2 \in Int
      BY <2>1
    <3> QED
      BY <2>2, <3>1, MinOfTwo
  <2>4. changes' \in 1..2
    BY <2>1, <2>3
  <2>5. call.phase = "throw" => Excused(call, changes')
    BY <2>1, <2>4 DEF CallSound, Excused
  <2>6. CallSound(call, changes', storages')
    BY <2>1, <2>4, <2>5 DEF CallSound
  <2> QED
    BY <2>4, <2>6 DEF IInv, MaxChanges
<1> QED
  BY <1>1, <1>2

-----------------------------------------------------------------------------
(***************************************************************************)
(* A call begins.                                                          *)
(***************************************************************************)
Begun(from, count) ==
  [phase |-> "call", from |-> from, count |-> count, indicesToSkip |-> from,
   storage |-> 1, storageKeyIndex |-> 0, keysToRead |-> 0,
   excludeKeys |-> {}, result |-> <<>>]

\* What is true of its locals before the first turn.
LEMMA CallFacts ==
  ASSUME NEW tables, TablesGood(tables), NEW from \in Numbers, NEW count \in Numbers
  PROVE  CallSound(Turn(Begun(from, count)), 0, tables)
<1> DEFINE c == Begun(from, count)
<1>1. 0 \in Numbers /\ Len(KeysAt) \in Nat /\ Storages = 1..Len(KeysAt)
  BY KeysRangeAssumption DEF Numbers, Storages
<1>2. c \in Calls
  <2>1. 1 \in 1..(Len(KeysAt) + 1) /\ <<>> \in Seq(Keys) /\ "call" \in Phases
    BY <1>1 DEF Phases
  <2> QED
    BY <1>1, <2>1 DEF Begun, Calls
<1>3. /\ c.from = from /\ c.count = count /\ c.indicesToSkip = from /\ c.storage = 1
      /\ c.storageKeyIndex = 0 /\ c.excludeKeys = {} /\ c.result = <<>>
  BY DEF Begun
<1> HIDE DEF c
<1>4. Len(<<>>) = 0 /\ IsInjective(<<>>) /\ ToSet(<<>>) = {}
  BY DEF IsInjective, ToSet
<1>5. Listed(c)
  BY <1>3, <1>4 DEF Listed, Numbers
<1>6. c.storage \in Storages => c.storageKeyIndex <= tables[c.storage].size
  <2> SUFFICES ASSUME c.storage \in Storages PROVE 0 <= tables[c.storage].size
    BY <1>3
  <2>1. tables[c.storage].size \in Nat
    BY StorageFacts
  <2> QED
    BY <2>1
<1> QED
  BY <1>2, <1>5, <1>6, TurnFacts DEF c

(***************************************************************************)
(* The invariant holds, and what it says of a call that ends.              *)
(***************************************************************************)
LEMMA InitIInv == Init => IInv
<1> SUFFICES ASSUME Init PROVE IInv
  OBVIOUS
<1>1. storages = [i \in Storages |-> NewTable] /\ call = Idle /\ changes = 0
  BY DEF Init
<1>2. ASSUME NEW i \in Storages
      PROVE  Good(storages[i]) /\ KeysOf(Contents(storages[i])) \subseteq KeysAt[i]
  <2>1. storages[i] = NewTable
    BY <1>1
  <2>2. KeysOf({}) = {}
    BY DEF KeysOf
  <2> QED
    BY <2>1, <2>2, NewTableGood
<1>3. TablesGood(storages)
  BY <1>1, <1>2 DEF TablesGood
<1> QED
  BY <1>1, <1>3 DEF IInv, MaxChanges

\* A call that is in some phase has begun.
LEMMA Begins ==
  ASSUME IInv, NEW phase \in Phases, call.phase = phase
  PROVE  /\ TablesGood(storages) /\ changes \in Nat
         /\ CallSound(call, changes, storages)
<1>1. call # Idle
  BY DEF Idle, Phases
<1> QED
  BY <1>1 DEF IInv, MaxChanges

\* Every step keeps the invariant.
LEMMA StepKeepsIInv ==
  ASSUME IInv, Next
  PROVE  IInv'
<1>1. TablesGood(storages) /\ changes \in 0..MaxChanges
  BY DEF IInv
<1>2. ASSUME NEW request \in Requests, getKeysRange_call(request[1], request[2])
      PROVE  IInv'
  <2>1. request[1] \in Numbers /\ request[2] \in Numbers
    BY KeysRangeAssumption DEF Numbers
  <2>2. call' = Turn(Begun(request[1], request[2])) /\ changes' = 0 /\ storages' = storages
    BY <1>2 DEF getKeysRange_call, Begun
  <2>3. CallSound(call', 0, storages)
    BY <1>1, <2>1, <2>2, CallFacts
  <2> QED
    BY <1>1, <2>2, <2>3 DEF IInv, MaxChanges
<1>3. ASSUME getSize PROVE IInv'
  <2>1. CallSound(call, changes, storages)
    BY <1>3, Begins DEF getSize, Phases
  <2>2. CallSound(call', changes, storages)
    BY <1>1, <1>3, <2>1, GetSizeFacts DEF getSize
  <2> QED
    BY <1>1, <1>3, <2>2 DEF IInv, getSize
<1>4. ASSUME getKeysRange_storage PROVE IInv'
  <2>1. CallSound(call, changes, storages) /\ changes \in Nat
    BY <1>4, Begins DEF getKeysRange_storage, Phases
  <2>2. CallSound(call', changes, storages)
    BY <1>1, <1>4, <2>1, GetKeysFacts DEF getKeysRange_storage
  <2> QED
    BY <1>1, <1>4, <2>2 DEF IInv, getKeysRange_storage
<1>5. ASSUME getSize_again PROVE IInv'
  <2>1. CallSound(call, changes, storages)
    BY <1>5, Begins DEF getSize_again, Phases
  <2>2. CallSound(call', changes, storages)
    BY <1>1, <1>5, <2>1, AgainFacts DEF getSize_again
  <2> QED
    BY <1>1, <1>5, <2>2 DEF IInv, getSize_again
<1>6. ASSUME Return PROVE IInv'
  BY <1>1, <1>6 DEF IInv, Return, MaxChanges
<1>7. ASSUME NEW i \in Storages, NEW key \in KeysAt[i], NEW value \in Values,
             putValue(i, key, value)
      PROVE  IInv'
  <2>1. TablesGood(storages')
    BY <1>1, <1>7, PutKeepsTables
  <2> QED
    BY <1>7, <2>1, ObserveFacts DEF putValue
<1>8. ASSUME NEW i \in Storages, NEW key \in KeysAt[i], deleteValue(i, key)
      PROVE  IInv'
  <2>1. TablesGood(storages')
    BY <1>1, <1>8, DeleteKeepsTables
  <2> QED
    BY <1>8, <2>1, ObserveFacts DEF deleteValue
<1>9. ASSUME NEW i \in Storages, NEW key \in KeysAt[i], Expire(i, key)
      PROVE  IInv'
  <2>1. TablesGood(storages')
    BY <1>1, <1>9, ExpireKeepsTables
  <2>2. call' = call /\ Observe
    BY <1>9 DEF Expire
  <2> QED
    BY <2>1, <2>2, ObserveFacts
<1> QED
  BY <1>2, <1>3, <1>4, <1>5, <1>6, <1>7, <1>8, <1>9, Zenon DEF Next, CallStep, Change

\* The invariant holds in every state.
LEMMA Invariance == Spec => []IInv
<1>1. Init => IInv
  BY InitIInv
<1>2. IInv /\ [Next]_vars => IInv'
  <2> SUFFICES ASSUME IInv, [Next]_vars PROVE IInv'
    OBVIOUS
  <2>1. CASE Next
    BY <2>1, StepKeepsIInv
  <2>2. CASE UNCHANGED vars
    BY <2>2 DEF vars, IInv
  <2> QED
    BY <2>1, <2>2
<1> QED
  BY <1>1, <1>2, PTL DEF Spec

(***************************************************************************)
(* A call's storage is one of the node or the one behind the last, it      *)
(* never skips more than it was told to, and its index is a size_t.        *)
(***************************************************************************)
THEOREM TypeCorrect == Spec => []TypeOK
<1>1. ASSUME IInv PROVE TypeOK
  <2> SUFFICES ASSUME call # Idle
               PROVE  /\ call.indicesToSkip \in 0..call.from
                      /\ call.storage \in 1..Len(KeysAt) + 1
                      /\ call.storageKeyIndex \in Numbers /\ call.keysToRead \in Numbers
                      /\ call.excludeKeys \subseteq Keys
    BY DEF TypeOK, Numbers
  <2>1. call \in Calls /\ Listed(call)
    BY <1>1 DEF IInv, CallSound
  <2>2. call.indicesToSkip \in 0..call.from
    BY <2>1, KeysRangeAssumption DEF Calls, Listed, Numbers
  <2> QED
    BY <2>1, <2>2 DEF Calls
<1> QED
  BY <1>1, Invariance, PTL

(***************************************************************************)
(* Whatever other threads do between the questions to the storages, and    *)
(* although the number of keys to read may wrap, the caller gets no more   *)
(* keys than it asked for, and no key twice.                               *)
(***************************************************************************)
THEOREM ResultBounded == Spec => []ResultInBounds
<1>1. ASSUME IInv PROVE ResultInBounds
  <2> SUFFICES ASSUME call.phase = "return"
               PROVE  Len(call.result) <= call.count /\ IsInjective(call.result)
    BY DEF ResultInBounds
  <2>1. CallSound(call, changes, storages)
    BY <1>1, Begins DEF Phases
  <2> QED
    BY <2>1 DEF CallSound, Listed
<1> QED
  BY <1>1, Invariance, PTL

(***************************************************************************)
(* An undisturbed call throws only when it asked for more keys than a      *)
(* vector may hold; the wrapped difference alone makes no call throw, but  *)
(* one whose offset is as large.                                           *)
(***************************************************************************)
THEOREM ThrowsRight == Spec => []ThrowsOnHugeRequests
<1>1. ASSUME IInv PROVE ThrowsOnHugeRequests
  <2> SUFFICES ASSUME call.phase = "throw"
               PROVE  call.count > MaxReserve \/ (call.from > MaxReserve /\ changes > 0)
    BY DEF ThrowsOnHugeRequests
  <2>1. CallSound(call, changes, storages)
    BY <1>1, Begins DEF Phases
  <2> QED
    BY <2>1 DEF CallSound, Excused
<1> QED
  BY <1>1, Invariance, PTL

-----------------------------------------------------------------------------
(***************************************************************************)
(* The entries of a list that a call returns: those behind its offset      *)
(* whose key does not occur before.                                        *)
(***************************************************************************)
Fresh(L, from) == {i \in DOMAIN L : i > from /\ \A j \in 1..i - 1 : L[j] # L[i]}

Upto(L, from, d) == {j \in Fresh(L, from) : j <= d}

Nth(L, from, n) == CHOOSE i \in Fresh(L, from) : Cardinality(Upto(L, from, i)) = n

FreshList(L, from, d) == [n \in 1..Cardinality(Upto(L, from, d)) |-> L[Nth(L, from, n)]]

\* There are finitely many.
LEMMA FreshFinite ==
  ASSUME NEW L \in Seq(Keys), NEW from \in Nat
  PROVE  /\ IsFiniteSet(Fresh(L, from)) /\ Fresh(L, from) \in SUBSET (1..Len(L))
         /\ \A d \in Nat : /\ IsFiniteSet(Upto(L, from, d))
                           /\ Cardinality(Upto(L, from, d)) \in Nat
                           /\ Cardinality(Upto(L, from, d)) <= Cardinality(Fresh(L, from))
<1>1. Fresh(L, from) \in SUBSET (1..Len(L)) /\ Len(L) \in Nat
  BY DEF Fresh
<1>2. IsFiniteSet(1..Len(L))
  BY <1>1, FS_Interval
<1>3. IsFiniteSet(Fresh(L, from))
  BY <1>1, <1>2, FS_Subset
<1>4. ASSUME NEW d \in Nat
      PROVE  /\ IsFiniteSet(Upto(L, from, d)) /\ Cardinality(Upto(L, from, d)) \in Nat
             /\ Cardinality(Upto(L, from, d)) <= Cardinality(Fresh(L, from))
  <2>1. Upto(L, from, d) \in SUBSET Fresh(L, from)
    BY DEF Upto
  <2> QED
    BY <1>3, <2>1, FS_Subset, FS_CardinalityType
<1> QED
  BY <1>1, <1>3, <1>4

\* One entry further.
LEMMA UptoStep ==
  ASSUME NEW L \in Seq(Keys), NEW from \in Nat, NEW d \in Nat
  PROVE  /\ d + 1 \in Fresh(L, from) =>
              Cardinality(Upto(L, from, d + 1)) = Cardinality(Upto(L, from, d)) + 1
         /\ d + 1 \notin Fresh(L, from) => Upto(L, from, d + 1) = Upto(L, from, d)
<1> DEFINE F == Fresh(L, from)
           U == Upto(L, from, d)
           V == Upto(L, from, d + 1)
<1>1. F \in SUBSET Nat
  BY FreshFinite
<1>2. U = {j \in F : j <= d} /\ V = {j \in F : j <= d + 1}
  BY DEF Upto
<1>3. IsFiniteSet(U)
  BY FreshFinite
<1> HIDE DEF F, U, V
<1>4. d + 1 \notin U
  BY <1>2
<1>5. \A j \in F : j <= d + 1 <=> j <= d \/ j = d + 1
  BY <1>1
<1>6. ASSUME d + 1 \in F PROVE Cardinality(V) = Cardinality(U) + 1
  <2>1. V = U \union {d + 1}
    BY <1>2, <1>5, <1>6
  <2> QED
    BY <1>3, <1>4, <2>1, FS_AddElement
<1>7. ASSUME d + 1 \notin F PROVE V = U
  BY <1>2, <1>5, <1>7
<1> QED
  BY <1>6, <1>7 DEF F, U, V

\* The number of a returned entry determines it.
LEMMA NthFresh ==
  ASSUME NEW L \in Seq(Keys), NEW from \in Nat, NEW i \in Fresh(L, from)
  PROVE  Nth(L, from, Cardinality(Upto(L, from, i))) = i
<1> DEFINE F == Fresh(L, from)
           U(k) == Upto(L, from, k)
           n == Cardinality(U(i))
<1>1. F \in SUBSET Nat
  BY FreshFinite
<1>2. ASSUME NEW k \in F, NEW l \in F, k < l PROVE Cardinality(U(k)) < Cardinality(U(l))
  <2>1. k \in Nat /\ l \in Nat
    BY <1>1
  <2>2. /\ IsFiniteSet(U(k)) /\ IsFiniteSet(U(l))
        /\ Cardinality(U(k)) \in Nat /\ Cardinality(U(l)) \in Nat
    BY <2>1, FreshFinite
  <2>3. l \notin U(k) /\ U(k) \union {l} \subseteq U(l)
    <3>1. l \in Nat /\ k \in Nat /\ k < l /\ ~(l <= k)
      BY <1>2, <2>1
    <3>2. \A j \in F : j <= k => j <= l
      BY <1>1, <3>1
    <3>3. U(k) = {j \in F : j <= k} /\ U(l) = {j \in F : j <= l}
      BY DEF Upto
    <3>4. l <= l
      BY <3>1
    <3> HIDE DEF F, U
    <3> QED
      BY <3>1, <3>2, <3>3, <3>4
  <2> HIDE DEF U
  <2>4. Cardinality(U(k) \union {l}) = Cardinality(U(k)) + 1
    BY <2>2, <2>3, FS_AddElement
  <2>5. Cardinality(U(k) \union {l}) <= Cardinality(U(l))
    BY <2>2, <2>3, FS_Subset
  <2> QED
    BY <2>2, <2>4, <2>5
<1>3. ASSUME NEW k \in F, Cardinality(U(k)) = n PROVE k = i
  <2>1. k \in Nat /\ i \in Nat /\ i \in F
    BY <1>1
  <2>2. Cardinality(U(k)) \in Nat /\ n \in Nat
    BY <2>1, FreshFinite
  <2> DEFINE m == Cardinality(U(k))
  <2>3. ~(k < i)
    <3> SUFFICES ASSUME k < i PROVE FALSE
      OBVIOUS
    <3>1. m < n
      BY <1>2, <2>1
    <3> HIDE DEF m, n
    <3> QED
      BY <1>3, <2>2, <3>1 DEF m
  <2>4. ~(i < k)
    <3> SUFFICES ASSUME i < k PROVE FALSE
      OBVIOUS
    <3>1. n < m
      BY <1>2, <2>1
    <3> HIDE DEF m, n
    <3> QED
      BY <1>3, <2>2, <3>1 DEF m
  <2> QED
    BY <2>1, <2>3, <2>4
<1> QED
  BY <1>3, Zenon DEF Nth

\* One entry further, the list has its key more if it was not there before.
LEMMA FreshListStep ==
  ASSUME NEW L \in Seq(Keys), NEW from \in Nat, NEW d \in Nat
  PROVE  /\ d + 1 \in Fresh(L, from) =>
              FreshList(L, from, d + 1) = Append(FreshList(L, from, d), L[d + 1])
         /\ d + 1 \notin Fresh(L, from) => FreshList(L, from, d + 1) = FreshList(L, from, d)
<1> DEFINE n == Cardinality(Upto(L, from, d))
           At1(k) == L[Nth(L, from, k)]
           old == [k \in 1..n |-> At1(k)]
<1>1. FreshList(L, from, d) = old
  BY DEF FreshList
<1>2. ASSUME d + 1 \in Fresh(L, from)
      PROVE  FreshList(L, from, d + 1) = Append(old, L[d + 1])
  <2>1. Cardinality(Upto(L, from, d + 1)) = n + 1 /\ n \in Nat
    BY <1>2, UptoStep, FreshFinite
  <2>2. Nth(L, from, n + 1) = d + 1
    BY <1>2, <2>1, NthFresh
  <2>3. FreshList(L, from, d + 1) = [k \in 1..(n + 1) |-> At1(k)]
    BY <2>1 DEF FreshList
  <2>4. At1(n + 1) = L[d + 1]
    BY <2>2
  <2> HIDE DEF n, At1
  <2>5. Append(old, L[d + 1]) = [k \in 1..(n + 1) |-> At1(k)]
    <3> DEFINE x == L[d + 1]
    <3>1. old \in Seq({At1(k) : k \in 1..n} \union {x}) /\ Len(old) = n
      BY <2>1
    <3> HIDE DEF x
    <3>2. Append(old, x) = [k \in 1..(n + 1) |-> IF k <= n THEN old[k] ELSE x]
      BY <2>1, <3>1
    <3>3. \A k \in 1..(n + 1) : (IF k <= n THEN old[k] ELSE x) = At1(k)
      BY <2>1, <2>4 DEF x
    <3> QED
      BY <3>2, <3>3 DEF x
  <2> QED
    BY <2>3, <2>5
<1>3. ASSUME d + 1 \notin Fresh(L, from)
      PROVE  FreshList(L, from, d + 1) = FreshList(L, from, d)
  <2>1. Upto(L, from, d + 1) = Upto(L, from, d)
    BY <1>3, UptoStep
  <2> QED
    BY <2>1 DEF FreshList
<1> QED
  BY <1>1, <1>2, <1>3

\* Nothing is returned of what is skipped.
LEMMA FreshListNone ==
  ASSUME NEW L \in Seq(Keys), NEW from \in Nat, NEW d \in Nat, d <= from
  PROVE  FreshList(L, from, d) = <<>>
<1>1. \A i \in Fresh(L, from) : i \in Nat /\ i > from
  BY FreshFinite DEF Fresh
<1>2. \A i \in Fresh(L, from) : ~(i <= d)
  BY <1>1
<1>3. Upto(L, from, d) = {}
  BY <1>2 DEF Upto
<1>4. Cardinality(Upto(L, from, d)) = 0
  BY <1>3, FS_EmptySet
<1>5. 1..0 = {}
  OBVIOUS
<1>6. FreshList(L, from, d) = [k \in 1..0 |-> L[Nth(L, from, k)]]
  BY <1>4, Zenon DEF FreshList
<1>7. FreshList(L, from, d) \in Seq(Keys) /\ Len(FreshList(L, from, d)) = 0
  BY <1>6
<1> QED
  BY <1>7, EmptySeq

-----------------------------------------------------------------------------
(***************************************************************************)
(* A call that has passed d entries of the list L.                         *)
(***************************************************************************)
Exact(c, L, d) ==
  /\ d \in 0..Len(L)
  /\ c.indicesToSkip = IF d < c.from THEN c.from - d ELSE 0
  /\ c.result = FreshList(L, c.from, d)
  /\ c.excludeKeys = {L[j] : j \in 1..d}

\* The keys are the entries of L behind the d-th.
Following(keys, L, d) ==
  d + Len(keys) <= Len(L) /\ \A j \in 1..Len(keys) : keys[j] = L[d + j]

\* It is the next entry that is listed.
LEMMA ListKeyExact ==
  ASSUME NEW c \in Calls, Distinct(c), NEW L \in Seq(Keys), NEW d, Exact(c, L, d),
         c.from <= d, d < Len(L)
  PROVE  Exact(ListKey(c, L[d + 1]), L, d + 1)
<1> DEFINE key == L[d + 1]
           u == ListKey(c, key)
           X == c.excludeKeys
<1>1. /\ d \in Nat /\ d + 1 \in 1..Len(L) /\ Len(L) \in Nat /\ c.from \in Nat
      /\ c.indicesToSkip = 0
      /\ c.result = FreshList(L, c.from, d) /\ X = {L[j] : j \in 1..d}
  BY KeysRangeAssumption DEF Exact, Calls, Numbers
<1>2. {L[j] : j \in 1..(d + 1)} = X \union {key}
  <2>1. 1..(d + 1) = 1..d \union {d + 1}
    BY <1>1
  <2> QED
    BY <1>1, <2>1
<1>3. d + 1 \in Fresh(L, c.from) <=> key \notin X
  <2>1. d + 1 \in DOMAIN L /\ d + 1 > c.from /\ 1..(d + 1) - 1 = 1..d
    BY <1>1
  <2> QED
    BY <1>1, <2>1 DEF Fresh
<1>4. key \in Keys
  BY <1>1
<1> HIDE DEF key
<1>5. u \in Calls /\ SameCall(u, c)
  BY <1>4, ListKeyFacts
<1>6. CASE key \in X
  <2>1. u = c
    BY <1>6 DEF ListKey
  <2>2. FreshList(L, c.from, d + 1) = FreshList(L, c.from, d)
    BY <1>1, <1>3, <1>6, FreshListStep
  <2>3. X = {L[j] : j \in 1..(d + 1)}
    BY <1>2, <1>6
  <2> QED
    BY <1>1, <2>1, <2>2, <2>3 DEF Exact, key
<1>7. CASE key \notin X
  <2> DEFINE r == Append(c.result, key)
             Y == X \union {key}
  <2>1. r = FreshList(L, c.from, d + 1)
    BY <1>1, <1>3, <1>7, FreshListStep DEF key
  <2>2. u = Holding(c, r, Y)
    BY <1>7 DEF ListKey, Holding
  <2>3. r \in Seq(Keys) /\ Y \in SUBSET Keys
    BY <1>4 DEF Calls
  <2> HIDE DEF r, Y, u
  <2>4. u.result = r /\ u.excludeKeys = Y /\ SameCall(u, c)
    BY <2>2, <2>3, HoldingFields
  <2>5. u.from = c.from /\ u.indicesToSkip = 0
    BY <1>1, <2>4 DEF SameCall
  <2>6. Exact(u, L, d + 1)
    <3>1. d + 1 \in 0..Len(L) /\ ~(d + 1 < c.from)
      BY <1>1
    <3> QED
      BY <1>2, <2>1, <2>4, <2>5, <3>1 DEF Exact, Y
  <2> QED
    BY <2>6 DEF u, key
<1> QED
  BY <1>6, <1>7

\* All the keys that a storage returned are the next entries.
LEMMA ListKeysExact ==
  ASSUME NEW c \in Calls, Distinct(c), NEW L \in Seq(Keys), NEW d, Exact(c, L, d), c.from <= d,
         NEW keys \in Seq(Keys), Following(keys, L, d)
  PROVE  Exact(ListKeys(c, keys), L, d + Len(keys))
<1> DEFINE n == Len(keys)
<1>1. n \in Nat /\ \A j \in 1..n : keys[j] \in Keys
  OBVIOUS
<1>2. PICK rows : /\ rows[0] = c
                  /\ \A k \in 1..n : rows[k] = ListKey(rows[k - 1], keys[k])
                  /\ ListKeys(c, keys) = rows[n]
  BY <1>1, ListRows
<1>3. /\ d \in Nat /\ c.from \in Nat /\ Len(L) \in Nat /\ d + n <= Len(L)
      /\ \A j \in 1..n : keys[j] = L[d + j]
  BY KeysRangeAssumption DEF Exact, Calls, Numbers, Following
<1> DEFINE Good1(u, m) == u \in Calls /\ u.from = c.from /\ Distinct(u) /\ Exact(u, L, d + m)
           T == {m \in 0..n : Good1(rows[m], m)}
<1>4. 0 \in T
  <2>1. d + 0 = d
    BY <1>3
  <2> QED
    BY <1>1, <1>2, <2>1
<1> HIDE DEF n
<1>5. ASSUME NEW m \in 1..n, m - 1 \in T PROVE m \in T
  <2> DEFINE old == rows[m - 1]
             e == d + (m - 1)
             new == ListKey(old, keys[m])
  <2>1. old \in Calls /\ old.from = c.from /\ Distinct(old) /\ Exact(old, L, e)
    BY <1>5
  <2>2. e \in Nat /\ e + 1 = d + m /\ c.from <= e /\ e < Len(L) /\ m \in 0..n
    BY <1>1, <1>3
  <2>3. rows[m] = new /\ keys[m] \in Keys /\ keys[m] = L[d + m]
    BY <1>1, <1>2, <1>3
  <2> HIDE DEF old, e
  <2>4. new \in Calls /\ SameCall(new, old) /\ Distinct(new)
    BY <2>1, <2>3, ListKeyFacts
  <2>5. keys[m] = L[e + 1]
    BY <2>2, <2>3
  <2>6. Exact(ListKey(old, L[e + 1]), L, e + 1)
    BY <2>1, <2>2, ListKeyExact
  <2>7. Exact(new, L, d + m)
    BY <2>2, <2>5, <2>6
  <2> HIDE DEF new
  <2>8. new.from = c.from
    BY <2>1, <2>4 DEF SameCall
  <2> QED
    BY <2>2, <2>3, <2>4, <2>7, <2>8
<1> HIDE DEF T
<1>6. n \in T
  BY <1>1, <1>4, <1>5, UpTo
<1> QED
  BY <1>2, <1>6 DEF T, n

\* Skipping passes entries, too.
LEMMA SkipKeysExact ==
  ASSUME NEW c \in Calls, Listed(c), NEW L \in Seq(Keys), NEW d, Exact(c, L, d),
         c.indicesToSkip > 0,
         NEW keys \in Seq(Keys), Len(keys) <= c.indicesToSkip,
         Following(keys, L, d)
  PROVE  Exact(SkipKeys(c, keys), L, d + Len(keys))
<1> DEFINE n == Len(keys)
           e == d + n
           X == c.excludeKeys \union ToSet(keys)
           k == c.indicesToSkip - n
           u == SkipKeys(c, keys)
<1>1. /\ d \in Nat /\ c.from \in Nat /\ Len(L) \in Nat /\ n \in Nat
      /\ c.indicesToSkip = c.from - d /\ d < c.from
      /\ c.result = FreshList(L, c.from, d) /\ c.excludeKeys = {L[j] : j \in 1..d}
      /\ d + n <= Len(L)
  BY KeysRangeAssumption DEF Exact, Calls, Numbers, Following
<1>2. u = [c EXCEPT !.excludeKeys = X, !.indicesToSkip = k]
  BY DEF SkipKeys
<1>3. u.excludeKeys = X /\ u.indicesToSkip = k /\ u.from = c.from /\ u.result = c.result
  <2> HIDE DEF X, k, u
  <2> QED
    BY <1>2 DEF Calls
<1>4. X = {L[j] : j \in 1..e}
  <2>1. ToSet(keys) = {L[d + j] : j \in 1..n}
    BY DEF ToSet, Following
  <2>2. ASSUME NEW j \in 1..e PROVE L[j] \in X
    <3>1. CASE j \in 1..d
      BY <1>1, <3>1
    <3>2. CASE j \notin 1..d
      <4>1. j - d \in 1..n /\ d + (j - d) = j
        BY <1>1, <3>2
      <4> QED
        BY <2>1, <4>1
    <3> QED
      BY <3>1, <3>2
  <2>3. \A j \in 1..d : j \in 1..e
    BY <1>1
  <2>4. \A j \in 1..n : d + j \in 1..e
    BY <1>1
  <2>5. X \subseteq {L[j] : j \in 1..e}
    BY <1>1, <2>1, <2>3, <2>4
  <2> QED
    BY <2>2, <2>5
<1>5. c.result = FreshList(L, c.from, e)
  <2>1. e \in Nat /\ e <= c.from /\ d <= c.from
    BY <1>1
  <2> HIDE DEF e
  <2> QED
    BY <1>1, <2>1, FreshListNone
<1>6. k = IF e < c.from THEN c.from - e ELSE 0
  BY <1>1
<1>7. e \in 0..Len(L)
  BY <1>1
<1> HIDE DEF X, k, u, e
<1>8. Exact(u, L, e)
  BY <1>3, <1>4, <1>5, <1>6, <1>7 DEF Exact
<1> QED
  BY <1>8 DEF u, e

\* Whichever of the two, the call has passed the keys.
LEMMA TakeKeysExact ==
  ASSUME NEW c \in Calls, Listed(c), NEW L \in Seq(Keys), NEW d, Exact(c, L, d),
         NEW keys \in Seq(Keys), Len(keys) <= Wanted(c),
         Following(keys, L, d)
  PROVE  Exact(TakeKeys(c, keys), L, d + Len(keys))
<1> DEFINE v == IF c.indicesToSkip > 0 THEN SkipKeys(c, keys) ELSE ListKeys(c, keys)
           k == (c.storageKeyIndex + c.keysToRead) % Word
           e == d + Len(keys)
           u == TakeKeys(c, keys)
<1>1. /\ c.indicesToSkip \in Nat /\ d \in Nat /\ c.from \in Nat
      /\ c.indicesToSkip = IF d < c.from THEN c.from - d ELSE 0
  BY KeysRangeAssumption DEF Calls, Numbers, Exact
<1>2. v \in Calls /\ Exact(v, L, e)
  <2>1. CASE c.indicesToSkip > 0
    <3>1. Len(keys) <= c.indicesToSkip
      BY <2>1 DEF Wanted
    <3> QED
      BY <2>1, <3>1, SkipKeysFacts, SkipKeysExact
  <2>2. CASE ~(c.indicesToSkip > 0)
    <3>1. c.from <= d
      BY <1>1, <2>2
    <3>2. Distinct(c)
      BY DEF Listed, Distinct
    <3> QED
      BY <2>2, <3>1, <3>2, ListKeysFacts, ListKeysExact
  <2> QED
    BY <2>1, <2>2
<1>3. u = [v EXCEPT !.storageKeyIndex = (v.storageKeyIndex + c.keysToRead) % Word]
  BY DEF TakeKeys
<1> HIDE DEF u, v, e
<1>4. /\ u.from = v.from /\ u.indicesToSkip = v.indicesToSkip
      /\ u.result = v.result /\ u.excludeKeys = v.excludeKeys
  BY <1>2, <1>3 DEF Calls
<1>5. Exact(u, L, e)
  BY <1>2, <1>4 DEF Exact
<1> QED
  BY <1>5 DEF u, e

-----------------------------------------------------------------------------
(***************************************************************************)
(* The lists of all storages, one after the other, and how far the call    *)
(* has come in them: b tells where each storage's list begins.             *)
(***************************************************************************)
Lists(tables) == [i \in Storages |-> ListableKeys(tables[i])]

Whole(tables) == FlattenSeq(Lists(tables))

Least(x, y) == IF x <= y THEN x ELSE y

Position(c, tables, b) ==
  b[c.storage - 1] + (IF c.storage \in Storages
                      THEN Least(c.storageKeyIndex, Len(Lists(tables)[c.storage])) ELSE 0)

(***************************************************************************)
(* An undisturbed call has listed just what it passed, and it stops at the *)
(* end of the lists or when it has all that it was asked for.              *)
(***************************************************************************)
Passed(c, tables) ==
  \E b : Bases(b, Lists(tables)) /\ Exact(c, Whole(tables), Position(c, tables, b))

Ended(c) == c.storage \notin Storages \/ Len(c.result) = c.count

QuietExact(c, tables) ==
  Passed(c, tables) /\ (c.phase = "return" => Ended(c))

QInv == call # Idle /\ changes = 0 => QuietExact(call, storages)

\* The lists are keys; a storage lists no more than its size tells.
LEMMA ListsFacts ==
  ASSUME NEW tables, TablesGood(tables)
  PROVE  /\ Storages = 1..Len(KeysAt) /\ Len(KeysAt) \in Nat
         /\ Lists(tables) \in Seq(Seq(Keys)) /\ Len(Lists(tables)) = Len(KeysAt)
         /\ Whole(tables) \in Seq(Keys)
         /\ \A i \in Storages :
              /\ Lists(tables)[i] = ListableKeys(tables[i])
              /\ Lists(tables)[i] \in Seq(Keys)
              /\ Len(Lists(tables)[i]) \in Nat
              /\ Len(Lists(tables)[i]) <= tables[i].size
<1> DEFINE S == Lists(tables)
<1>1. Storages = 1..Len(KeysAt) /\ Len(KeysAt) \in Nat
  BY KeysRangeAssumption DEF Storages
<1>2. \A i \in Storages : S[i] = ListableKeys(tables[i])
  BY DEF Lists
<1>3. ASSUME NEW i \in Storages
      PROVE  S[i] \in Seq(Keys) /\ Len(S[i]) \in Nat /\ Len(S[i]) <= tables[i].size
  <2>1. Good(tables[i])
    BY StorageFacts
  <2>2. ListableKeys(tables[i]) \in Seq(Keys) /\ Len(ListableKeys(tables[i])) <= tables[i].size
    BY <2>1, ListableFacts
  <2> HIDE DEF S
  <2> QED
    BY <1>2, <2>2
<1>4. S = [i \in 1..Len(KeysAt) |-> S[i]]
  BY <1>1 DEF Lists
<1> HIDE DEF S
<1>5. S \in Seq(Seq(Keys)) /\ Len(S) = Len(KeysAt)
  BY <1>1, <1>3, <1>4
<1>6. Whole(tables) \in Seq(Keys)
  BY <1>5, FlattenFacts DEF Whole, S
<1> QED
  BY <1>1, <1>2, <1>3, <1>5, <1>6 DEF S

\* Where the call is, is a place in the lists.
LEMMA ListPlaceFacts ==
  ASSUME NEW tables, TablesGood(tables), NEW b, Bases(b, Lists(tables)), NEW i \in Storages
  PROVE  /\ b[i - 1] \in Nat /\ b[i] \in Nat
         /\ b[i] = b[i - 1] + Len(Lists(tables)[i])
         /\ Following(Lists(tables)[i], Whole(tables), b[i - 1])
<1> DEFINE S == Lists(tables)
           L == Whole(tables)
<1>1. Storages = 1..Len(KeysAt) /\ Len(KeysAt) \in Nat /\ Len(S) = Len(KeysAt)
  BY ListsFacts
<1>2. Bases(b, S) /\ L = FlattenSeq(S)
  BY DEF Whole
<1>3. L \in Seq(Keys) /\ S[i] \in Seq(Keys)
  BY ListsFacts
<1> HIDE DEF S, L
<1>4. i \in 1..Len(S) /\ i \in 0..Len(S) /\ i - 1 \in 0..Len(S)
  BY <1>1
<1>5. b[i] \in Nat /\ b[i - 1] \in Nat
  BY <1>2, <1>4 DEF Bases
<1>6. b[i] = b[i - 1] + Len(S[i]) /\ b[i] <= Len(L)
  BY <1>2, <1>4 DEF Bases
<1>7. \A j \in 1..Len(S[i]) : L[b[i - 1] + j] = S[i][j]
  BY <1>2, <1>4 DEF Bases
<1>8. Following(S[i], L, b[i - 1])
  <2>1. b[i - 1] + Len(S[i]) <= Len(L)
    BY <1>6
  <2> QED
    BY <1>7, <2>1 DEF Following
<1> QED
  BY <1>5, <1>6, <1>8 DEF S, L

\* What is exact depends on the keys, and on the place, alone.
LEMMA SameExact ==
  ASSUME NEW u, NEW c, SameKeys(u, c), NEW L, NEW d, Exact(c, L, d)
  PROVE  Exact(u, L, d)
BY DEF SameKeys, Exact

\* So does how far the call has come.
LEMMA SamePassed ==
  ASSUME NEW u, NEW c, SameKeys(u, c), u.storage = c.storage,
         u.storageKeyIndex = c.storageKeyIndex, NEW tables, Passed(c, tables)
  PROVE  Passed(u, tables)
<1>1. PICK b : Bases(b, Lists(tables)) /\ Exact(c, Whole(tables), Position(c, tables, b))
  BY DEF Passed
<1>2. Position(u, tables, b) = Position(c, tables, b)
  BY DEF Position
<1>3. Exact(u, Whole(tables), Position(u, tables, b))
  BY <1>1, <1>2, SameExact
<1> QED
  BY <1>1, <1>3 DEF Passed

\* The loops end where they should.
LEMMA TurnExact ==
  ASSUME NEW c \in Calls, Listed(c), NEW tables, Passed(c, tables)
  PROVE  QuietExact(Turn(c), tables)
<1> DEFINE u == Turn(c)
<1>1. PICK phase \in {"size", "throw", "return"} :
        /\ u = InPhase(c, phase)
        /\ phase = "return" => ~(c.storage \in Storages /\ c.indicesToSkip > 0)
                               /\ ~(c.storage \in Storages /\ keysLeft(c) > 0)
  BY DEF Turn, InPhase, InNode
<1>2. phase \in Phases
  BY DEF Phases
<1> HIDE DEF u
<1>3. /\ SameKeys(u, c) /\ u.phase = phase /\ u.storage = c.storage
      /\ u.storageKeyIndex = c.storageKeyIndex
  BY <1>1, <1>2, InPhaseFields
<1>4. Passed(u, tables)
  BY <1>3, SamePassed
<1>5. u.phase = "return" => Ended(u)
  <2> SUFFICES ASSUME u.phase = "return", c.storage \in Storages
               PROVE  Len(c.result) = c.count
    BY <1>3 DEF Ended, SameKeys
  <2>1. Len(c.result) \in Nat /\ c.count \in Nat /\ Len(c.result) <= c.count
    BY KeysRangeAssumption DEF Calls, Listed, Numbers
  <2>2. ~(c.count - Len(c.result) > 0)
    BY <1>1, <1>3 DEF keysLeft
  <2> QED
    BY <2>1, <2>2
<1> QED
  BY <1>4, <1>5 DEF QuietExact, u

\* The first turn of a call.
LEMMA CallExact ==
  ASSUME NEW tables, TablesGood(tables), NEW from \in Numbers, NEW count \in Numbers
  PROVE  QuietExact(Turn(Begun(from, count)), tables)
<1> DEFINE c == Begun(from, count)
<1>1. 0 \in Numbers /\ Len(KeysAt) \in Nat /\ Storages = 1..Len(KeysAt) /\ from \in Nat
  BY KeysRangeAssumption DEF Numbers, Storages
<1>2. c \in Calls
  <2>1. 1 \in 1..(Len(KeysAt) + 1) /\ <<>> \in Seq(Keys) /\ "call" \in Phases
    BY <1>1 DEF Phases
  <2> QED
    BY <1>1, <2>1 DEF Begun, Calls
<1>3. /\ c.from = from /\ c.count = count /\ c.indicesToSkip = from /\ c.storage = 1
      /\ c.storageKeyIndex = 0 /\ c.excludeKeys = {} /\ c.result = <<>>
  BY DEF Begun
<1> HIDE DEF c
<1>4. Listed(c)
  <2>1. Len(<<>>) = 0 /\ IsInjective(<<>>) /\ ToSet(<<>>) = {}
    BY DEF IsInjective, ToSet
  <2> QED
    BY <1>3, <2>1 DEF Listed, Numbers
<1>5. Lists(tables) \in Seq(Seq(Keys)) /\ Whole(tables) \in Seq(Keys)
  BY ListsFacts
<1>6. PICK b : Bases(b, Lists(tables))
  BY <1>5, FlattenBases
<1>7. Position(c, tables, b) = 0
  <2>1. b[0] = 0
    BY <1>6 DEF Bases
  <2>2. c.storage \in Storages => Least(0, Len(Lists(tables)[c.storage])) = 0
    <3> SUFFICES ASSUME c.storage \in Storages PROVE Least(0, Len(Lists(tables)[c.storage])) = 0
      OBVIOUS
    <3>1. Len(Lists(tables)[c.storage]) \in Nat
      BY ListsFacts
    <3> QED
      BY <3>1 DEF Least
  <2>3. c.storage - 1 = 0
    BY <1>3
  <2> QED
    BY <1>3, <2>1, <2>2, <2>3 DEF Position
<1>8. Exact(c, Whole(tables), 0)
  <2>1. FreshList(Whole(tables), from, 0) = <<>>
    BY <1>1, <1>5, FreshListNone
  <2>2. 0 \in 0..Len(Whole(tables))
    BY <1>5
  <2>3. from = IF 0 < from THEN from - 0 ELSE 0
    BY <1>1
  <2>4. {Whole(tables)[j] : j \in 1..0} = {}
    OBVIOUS
  <2> QED
    BY <1>3, <2>1, <2>2, <2>3, <2>4 DEF Exact
<1>9. Passed(c, tables)
  BY <1>6, <1>7, <1>8 DEF Passed
<1> QED
  BY <1>2, <1>4, <1>9, TurnExact DEF c

\* Asking for the size changes nothing that is listed.
LEMMA GetSizeExact ==
  ASSUME NEW c, NEW tables, TablesGood(tables), CallSound(c, 0, tables), c.phase = "size",
         QuietExact(c, tables)
  PROVE  QuietExact([c EXCEPT !.phase = "keys",
                              !.keysToRead = keysToRead(c, tables[c.storage].size)], tables)
<1> DEFINE k == keysToRead(c, tables[c.storage].size)
           u == Reading(c, k)
<1>1. c \in Calls
  BY DEF CallSound
<1>2. CallSound(u, 0, tables)
  BY GetSizeFacts DEF Reading
<1>3. SameKeys(u, c) /\ u.phase = "keys" /\ u.storage = c.storage
      /\ u.storageKeyIndex = c.storageKeyIndex
  BY <1>1 DEF Reading, SameKeys, Calls
<1> HIDE DEF u
<1>4. Passed(u, tables)
  BY <1>3, SamePassed DEF QuietExact
<1> QED
  BY <1>3, <1>4 DEF QuietExact, u, Reading

\* There is nothing between two places that are in the wrong order.
LEMMA SliceNone ==
  ASSUME NEW all \in Seq(Keys), NEW i \in Nat, NEW e \in Nat, e < i
  PROVE  SubSeq(all, i, e) \in Seq(Keys) /\ Len(SubSeq(all, i, e)) = 0
<1>1. SubSeq(all, i, e) = [j \in 1..(e - i + 1) |-> all[i + j - 1]]
  OBVIOUS
<1>2. 1..(e - i + 1) = 1..0
  OBVIOUS
<1>3. SubSeq(all, i, e) = [j \in 1..0 |-> all[i + j - 1]]
  BY <1>1, <1>2
<1> QED
  BY <1>3

(***************************************************************************)
(* The keys that a storage returns are the next entries of the lists.      *)
(***************************************************************************)
Sliced(keys, L, d, d1) ==
  keys \in Seq(Keys) /\ Following(keys, L, d) /\ d + Len(keys) = d1

\* A storage answers getKeysRange with a slice of its list, cut off at the list's end.
LEMMA SliceFacts ==
  ASSUME NEW all \in Seq(Keys), NEW index \in Nat, NEW k \in Nat,
         NEW L \in Seq(Keys), NEW base \in Nat, Following(all, L, base),
         NEW e, e = Least(index + k, Len(all))
  PROVE  Sliced(SubSeq(all, index + 1, e), L, base + Least(index, Len(all)), base + e)
<1> DEFINE n == Len(all)
           keys == SubSeq(all, index + 1, e)
           d == base + Least(index, n)
<1>1. \A j \in 1..n : all[j] \in Keys /\ L[base + j] = all[j]
  BY DEF Following
<1>2. n \in Nat /\ base + n <= Len(L)
  BY DEF Following
<1>3. e = Least(index + k, n)
  OBVIOUS
<1> HIDE DEF n
<1>4. e \in Nat /\ e <= n /\ e <= index + k
  BY <1>2, <1>3 DEF Least
<1>5. CASE index <= n
  <2>1. index <= e /\ Least(index, n) = index
    BY <1>2, <1>3, <1>5 DEF Least
  <2>2. /\ keys \in Seq(Keys) /\ Len(keys) = e - index
        /\ \A j \in 1..(e - index) : keys[j] = all[index + j]
    <3>1. keys = [j \in 1..(e - (index + 1) + 1) |-> all[(index + 1) + j - 1]]
      BY <1>4
    <3>2. e - (index + 1) + 1 = e - index /\ e - index \in Nat
      BY <1>4, <2>1
    <3>3. \A j \in 1..(e - index) : (index + 1) + j - 1 = index + j /\ index + j \in 1..n
      BY <1>2, <1>4
    <3> DEFINE m == e - index
    <3>4. keys = [j \in 1..m |-> all[index + j]]
      BY <3>1, <3>2, <3>3
    <3>5. \A j \in 1..m : all[index + j] \in Keys
      BY <1>1, <3>3
    <3> HIDE DEF m, keys
    <3>6. m \in Nat
      BY <3>2 DEF m
    <3>7. keys \in Seq(Keys) /\ Len(keys) = m
      BY <3>4, <3>5, <3>6
    <3>8. \A j \in 1..m : keys[j] = all[index + j]
      BY <3>4, Zenon
    <3> QED
      BY <3>7, <3>8 DEF m
  <2> HIDE DEF keys
  <2>3. d = base + index /\ d + Len(keys) = base + e
    BY <1>4, <2>1, <2>2
  <2>4. d + Len(keys) <= Len(L)
    BY <1>2, <1>4, <2>3
  <2>5. ASSUME NEW j \in 1..Len(keys) PROVE keys[j] = L[d + j]
    <3>1. j \in 1..(e - index)
      BY <2>2
    <3>2. index + j \in 1..n
      BY <1>2, <1>4, <3>1
    <3>3. d + j = base + (index + j)
      BY <2>3, <3>1
    <3>4. keys[j] = all[index + j] /\ L[base + (index + j)] = all[index + j]
      BY <1>1, <2>2, <3>1, <3>2
    <3> QED
      BY <3>3, <3>4
  <2> HIDE DEF d
  <2>6. Following(keys, L, d)
    BY <2>4, <2>5 DEF Following
  <2> QED
    BY <2>2, <2>3, <2>6 DEF Sliced, keys, d, n
<1>6. CASE ~(index <= n)
  <2>1. e = n /\ Least(index, n) = n
    BY <1>2, <1>3, <1>6 DEF Least
  <2>2. keys \in Seq(Keys) /\ Len(keys) = 0
    <3>1. index + 1 \in Nat /\ e < index + 1
      BY <1>2, <1>6, <2>1
    <3> QED
      BY <1>4, <3>1, SliceNone
  <2> HIDE DEF keys
  <2>3. d = base + n /\ d + Len(keys) = base + e
    BY <1>2, <2>1, <2>2
  <2>4. d + Len(keys) <= Len(L) /\ 1..Len(keys) = {}
    BY <1>2, <2>1, <2>2, <2>3
  <2> HIDE DEF d
  <2>5. Following(keys, L, d)
    BY <2>4 DEF Following
  <2> QED
    BY <2>2, <2>3, <2>5 DEF Sliced, keys, d, n
<1> QED
  BY <1>5, <1>6

\* An undisturbed call lists them, or skips them.
LEMMA GetKeysExact ==
  ASSUME NEW c, NEW tables, TablesGood(tables), CallSound(c, 0, tables), c.phase = "keys",
         QuietExact(c, tables)
  PROVE  LET keys == getKeysRange(tables[c.storage], c.storageKeyIndex, c.keysToRead)
         IN QuietExact(IF c.keysToRead > MaxReserve THEN [c EXCEPT !.phase = "throw"]
                       ELSE [TakeKeys(c, keys) EXCEPT !.phase = "again"], tables)
<1> DEFINE s == c.storage
           t == tables[s]
           all == Lists(tables)[s]
           L == Whole(tables)
           index == c.storageKeyIndex
           k == c.keysToRead
           keys == getKeysRange(t, index, k)
           v == TakeKeys(c, keys)
           u == InPhase(v, "again")
<1>1. /\ c \in Calls /\ Listed(c) /\ s \in Storages /\ k <= Wanted(c)
      /\ index + k <= t.size
  BY DEF CallSound, Guarded, Quiet
<1>2. Sound(t) /\ t.size \in Nat /\ t.size <= MaxReserve
  BY <1>1, StorageFacts
<1>3. index \in Nat /\ k \in Nat /\ MaxReserve \in Nat /\ Word \in Nat /\ MaxReserve < Word
  BY <1>1, KeysRangeAssumption, SMTT(30) DEF Calls, Numbers
<1>4. ~(k > MaxReserve) /\ index + k \in Nat /\ index + k < Word
  <2> HIDE DEF index, k, t
  <2> QED
    BY <1>1, <1>2, <1>3
<1>5. all \in Seq(Keys) /\ all = ListableKeys(t) /\ L \in Seq(Keys)
  BY <1>1, ListsFacts
<1>6. PICK b : Bases(b, Lists(tables)) /\ Exact(c, L, Position(c, tables, b))
  BY DEF QuietExact, Passed
<1> DEFINE base == b[s - 1]
           d == base + Least(index, Len(all))
<1>7. base \in Nat /\ Following(all, L, base)
  BY <1>1, <1>6, ListPlaceFacts
<1>8. d = Position(c, tables, b)
  BY <1>1 DEF Position
<1> DEFINE e == Least(index + k, Len(all))
<1>9. keys = SubSeq(all, index + 1, e)
  <2>1. Len(all) \in Int /\ index + k \in Int
    BY <1>4, <1>5
  <2>2. Min({index + k, Len(all)}) = e
    <3> HIDE DEF all, index, k
    <3> QED
      BY <2>1, MinOfTwo DEF Least
  <2> QED
    BY <1>5, <2>2 DEF getKeysRange
<1>10. Len(keys) <= k
  BY <1>2, <1>3, KeysRangeFacts
<1> HIDE DEF all, L, index, k, keys, t, base, e
<1>11. /\ keys \in Seq(Keys) /\ Following(keys, L, d)
       /\ d + Len(keys) = base + Least(index + k, Len(all))
  <2>1. e = Least(index + k, Len(all))
    BY DEF e
  <2>2. Sliced(SubSeq(all, index + 1, e), L, base + Least(index, Len(all)), base + e)
    BY <1>3, <1>5, <1>7, <2>1, SliceFacts
  <2> QED
    BY <1>9, <2>1, <2>2 DEF Sliced, d
<1>12. Len(keys) <= Wanted(c)
  <2>1. Wanted(c) \in Numbers /\ Len(keys) \in Nat /\ Word \in Nat
    BY <1>1, <1>3, <1>11, WantedFacts
  <2> QED
    BY <1>1, <1>3, <1>10, <2>1 DEF Numbers
<1>13. Exact(c, L, d)
  BY <1>6, <1>8
<1> HIDE DEF d, v, u
<1>14. Exact(v, L, d + Len(keys))
  BY <1>1, <1>5, <1>11, <1>12, <1>13, TakeKeysExact DEF v
<1>15. v \in Calls /\ v.storage = s /\ v.storageKeyIndex = (index + k) % Word
  BY <1>1, <1>11, <1>12, TakeKeysFacts DEF v, index, k
<1>16. (index + k) % Word = index + k
  <2> DEFINE m == index + k
  <2>1. m \in Nat /\ m < Word
    BY <1>4
  <2> HIDE DEF m
  <2> QED
    BY <2>1, SmallMod DEF m
<1>17. /\ SameKeys(u, v) /\ u.phase = "again" /\ u.storage = s
       /\ u.storageKeyIndex = index + k
  BY <1>15, <1>16, InPhaseFields DEF Phases, u
<1>18. Position(u, tables, b) = d + Len(keys)
  BY <1>1, <1>11, <1>17 DEF Position, all, base
<1>19. Exact(u, L, Position(u, tables, b))
  BY <1>14, <1>17, <1>18, SameExact
<1>20. QuietExact(u, tables)
  BY <1>6, <1>17, <1>19 DEF QuietExact, Passed, L
<1> QED
  BY <1>4, <1>20 DEF u, v, keys, t, index, k, InPhase

\* It goes on to the next storage when this one has no more to list.
LEMMA AgainExact ==
  ASSUME NEW c, NEW tables, TablesGood(tables), CallSound(c, 0, tables), c.phase = "again",
         QuietExact(c, tables)
  PROVE  QuietExact(Turn(NextStorage(c, tables[c.storage].size)), tables)
<1> DEFINE size == tables[c.storage].size
           s == c.storage
           v == NextStorage(c, size)
<1>1. c \in Calls /\ Listed(c) /\ s \in Storages /\ Passed(c, tables)
  BY DEF CallSound, Guarded, QuietExact
<1>2. 0 \in Numbers /\ Storages = 1..Len(KeysAt) /\ Len(KeysAt) \in Nat
  BY KeysRangeAssumption DEF Numbers, Storages
<1>3. CASE c.storageKeyIndex >= size
  <2>1. v = At(c, s + 1, 0)
    <3>1. v = [c EXCEPT !.storage = c.storage + 1, !.storageKeyIndex = 0]
      BY <1>3 DEF NextStorage
    <3> QED
      BY <3>1, Zenon DEF At
  <2>2. s + 1 \in 1..(Len(KeysAt) + 1)
    BY <1>1, <1>2
  <2> HIDE DEF v
  <2>3. v \in Calls /\ SameKeys(v, c) /\ v.storage = s + 1 /\ v.storageKeyIndex = 0
    BY <1>1, <1>2, <2>1, <2>2, AtFields
  <2>4. Listed(v)
    BY <1>1, <2>3, SameListed
  <2>5. PICK b : Bases(b, Lists(tables)) /\ Exact(c, Whole(tables), Position(c, tables, b))
    BY <1>1 DEF Passed
  <2> DEFINE n == Len(Lists(tables)[s])
  <2>6. n \in Nat /\ n <= size /\ size \in Nat /\ c.storageKeyIndex \in Nat
    <3>1. n \in Nat /\ n <= size
      BY <1>1, ListsFacts
    <3>2. size \in Nat
      BY <1>1, StorageFacts
    <3> QED
      BY <1>1, <3>1, <3>2, KeysRangeAssumption DEF Calls, Numbers
  <2>7. Position(c, tables, b) = b[s]
    <3>1. Least(c.storageKeyIndex, n) = n
      <4> HIDE DEF n, size
      <4> QED
        BY <1>3, <2>6 DEF Least
    <3>2. b[s] = b[s - 1] + n
      BY <1>1, <2>5, ListPlaceFacts
    <3> QED
      BY <1>1, <3>1, <3>2 DEF Position
  <2>8. Position(v, tables, b) = b[s]
    <3>1. b[s] \in Nat /\ (s + 1) - 1 = s
      BY <1>1, <1>2, <2>5, ListPlaceFacts
    <3>2. v.storage \in Storages => Least(0, Len(Lists(tables)[v.storage])) = 0
      <4> SUFFICES ASSUME v.storage \in Storages PROVE Least(0, Len(Lists(tables)[v.storage])) = 0
        OBVIOUS
      <4>1. Len(Lists(tables)[v.storage]) \in Nat
        BY ListsFacts
      <4> QED
        BY <4>1 DEF Least
    <3>3. Position(v, tables, b) =
            b[s] + (IF v.storage \in Storages
                    THEN Least(0, Len(Lists(tables)[v.storage])) ELSE 0)
      BY <2>3, <3>1 DEF Position
    <3> QED
      BY <3>1, <3>2, <3>3
  <2>9. Exact(v, Whole(tables), Position(v, tables, b))
    BY <2>3, <2>5, <2>7, <2>8, SameExact
  <2>10. Passed(v, tables)
    BY <2>5, <2>9 DEF Passed
  <2> QED
    BY <2>3, <2>4, <2>10, TurnExact DEF v
<1>4. CASE ~(c.storageKeyIndex >= size)
  <2>1. v = c
    BY <1>4 DEF NextStorage
  <2> HIDE DEF v
  <2> QED
    BY <1>1, <2>1, TurnExact DEF v
<1> QED
  BY <1>3, <1>4

\* A change ends the quiet.
LEMMA ObserveCounts ==
  ASSUME IInv, call # Idle, Observe
  PROVE  changes' # 0
<1>1. changes \in Nat
  BY DEF IInv, MaxChanges
<1>2. changes' = Min({changes + 1, 2})
  BY DEF Observe, MaxChanges
<1>3. changes + 1 \in Int /\ 2 \in Int
  BY <1>1
<1>4. changes' = IF changes + 1 <= 2 THEN changes + 1 ELSE 2
  BY <1>2, <1>3, MinOfTwo
<1> QED
  BY <1>1, <1>4

\* What other threads do is observed, and leaves the call's locals alone.
LEMMA ChangeObserved ==
  ASSUME Change
  PROVE  Observe /\ call' = call
<1>1. ASSUME NEW i \in Storages, NEW key \in KeysAt[i], NEW value \in Values,
             putValue(i, key, value)
      PROVE  Observe /\ call' = call
  BY <1>1 DEF putValue
<1>2. ASSUME NEW i \in Storages, NEW key \in KeysAt[i], deleteValue(i, key)
      PROVE  Observe /\ call' = call
  BY <1>2 DEF deleteValue
<1>3. ASSUME NEW i \in Storages, NEW key \in KeysAt[i], Expire(i, key)
      PROVE  Observe /\ call' = call
  BY <1>3 DEF Expire
<1> QED
  BY <1>1, <1>2, <1>3, Zenon DEF Change

\* Every step keeps an undisturbed call exact,
LEMMA StepKeepsQInv ==
  ASSUME IInv, QInv, Next
  PROVE  QInv'
<1> SUFFICES ASSUME call' # Idle, changes' = 0 PROVE QuietExact(call', storages')
  BY DEF QInv
<1>1. TablesGood(storages)
  BY DEF IInv
<1>2. ASSUME NEW request \in Requests, getKeysRange_call(request[1], request[2])
      PROVE  QuietExact(call', storages')
  <2>1. request[1] \in Numbers /\ request[2] \in Numbers
    BY KeysRangeAssumption DEF Numbers
  <2>2. call' = Turn(Begun(request[1], request[2])) /\ storages' = storages
    BY <1>2 DEF getKeysRange_call, Begun
  <2> QED
    BY <1>1, <2>1, <2>2, CallExact
<1>3. ASSUME NEW phase \in Phases, call.phase = phase, changes' = changes
      PROVE  CallSound(call, 0, storages) /\ QuietExact(call, storages)
  <2>1. changes = 0
    BY <1>3
  <2>2. call # Idle
    BY <1>3 DEF Idle, Phases
  <2> QED
    BY <1>3, <2>1, <2>2, Begins DEF QInv
<1>4. ASSUME getSize PROVE QuietExact(call', storages')
  <2>1. CallSound(call, 0, storages) /\ QuietExact(call, storages)
    BY <1>3, <1>4 DEF getSize, Phases
  <2> QED
    BY <1>1, <1>4, <2>1, GetSizeExact DEF getSize
<1>5. ASSUME getKeysRange_storage PROVE QuietExact(call', storages')
  <2>1. CallSound(call, 0, storages) /\ QuietExact(call, storages)
    BY <1>3, <1>5 DEF getKeysRange_storage, Phases
  <2> QED
    BY <1>1, <1>5, <2>1, GetKeysExact DEF getKeysRange_storage
<1>6. ASSUME getSize_again PROVE QuietExact(call', storages')
  <2>1. CallSound(call, 0, storages) /\ QuietExact(call, storages)
    BY <1>3, <1>6 DEF getSize_again, Phases
  <2> QED
    BY <1>1, <1>6, <2>1, AgainExact DEF getSize_again
<1>7. ASSUME Return PROVE FALSE
  BY <1>7 DEF Return
<1>8. ASSUME Change PROVE FALSE
  <2>1. Observe /\ call' = call
    BY <1>8, ChangeObserved
  <2> QED
    BY <2>1, ObserveCounts
<1> QED
  BY <1>2, <1>4, <1>5, <1>6, <1>7, <1>8, Zenon DEF Next, CallStep

\* so that it always is.
LEMMA QuietInvariance == Spec => [](IInv /\ QInv)
<1>1. Init => IInv /\ QInv
  BY InitIInv DEF Init, QInv
<1>2. IInv /\ QInv /\ [Next]_vars => (IInv /\ QInv)'
  <2> SUFFICES ASSUME IInv, QInv, [Next]_vars PROVE IInv' /\ QInv'
    OBVIOUS
  <2>1. CASE Next
    BY <2>1, StepKeepsIInv, StepKeepsQInv
  <2>2. CASE UNCHANGED vars
    BY <2>2 DEF vars, IInv, QInv
  <2> QED
    BY <2>1, <2>2
<1> QED
  BY <1>1, <1>2, PTL DEF Spec

\* A call that has ended has listed the page.
LEMMA EndedPage ==
  ASSUME NEW c, TablesGood(storages), CallSound(c, 0, storages), Passed(c, storages), Ended(c)
  PROVE  c.result = Page(c.from, c.count)
<1> DEFINE L == Whole(storages)
           from == c.from
           count == c.count
<1>1. PICK b : Bases(b, Lists(storages)) /\ Exact(c, L, Position(c, storages, b))
  BY DEF Passed
<1> DEFINE d == Position(c, storages, b)
           n == Cardinality(Upto(L, from, d))
           all == Cardinality(Fresh(L, from))
<1>2. /\ c \in Calls /\ from \in Nat /\ count \in Nat /\ Len(c.result) <= count
      /\ c.storage \in 1..(Len(KeysAt) + 1)
  BY KeysRangeAssumption DEF CallSound, Listed, Calls, Numbers
<1>3. L \in Seq(Keys) /\ d \in 0..Len(L) /\ d \in Nat /\ c.result = FreshList(L, from, d)
  <2>1. L \in Seq(Keys)
    BY ListsFacts
  <2> QED
    BY <1>1, <2>1 DEF Exact
<1> HIDE DEF d, L, from, count
<1>4. /\ IsFiniteSet(Upto(L, from, d)) /\ n \in Nat /\ n <= all
      /\ IsFiniteSet(Fresh(L, from)) /\ all \in Nat
  BY <1>2, <1>3, FreshFinite, FS_CardinalityType
<1>5. c.result = [k \in 1..n |-> L[Nth(L, from, k)]]
  BY <1>3, Zenon DEF FreshList
<1>6. Len(c.result) = n
  <2> HIDE DEF n
  <2> QED
    BY <1>4, <1>5
<1>7. n = all \/ n = count
  <2>1. CASE c.storage \notin Storages
    <3>1. Storages = 1..Len(KeysAt) /\ Len(KeysAt) \in Nat /\ Len(Lists(storages)) = Len(KeysAt)
      BY ListsFacts
    <3>2. c.storage - 1 = Len(KeysAt)
      BY <1>2, <2>1, <3>1
    <3>3. d = Len(L)
      <4>1. b[Len(KeysAt)] = Len(L) /\ Len(L) \in Nat
        BY <1>1, <1>3, <3>1 DEF Bases, Whole, L
      <4> QED
        BY <2>1, <3>2, <4>1 DEF Position, d
    <3>4. \A i \in Fresh(L, from) : i <= d
      BY <1>3, <3>3 DEF Fresh
    <3>5. Upto(L, from, d) = Fresh(L, from)
      BY <3>4 DEF Upto
    <3> QED
      BY <3>5
  <2>2. CASE c.storage \in Storages
    BY <1>6, <2>2 DEF Ended, count
  <2> QED
    BY <2>1, <2>2
<1>8. Min({count, all}) = n
  <2> HIDE DEF n, all
  <2>1. Min({count, all}) = IF count <= all THEN count ELSE all
    BY <1>2, <1>4, MinOfTwo
  <2> QED
    BY <1>2, <1>4, <1>6, <1>7, <2>1
<1>9. Page(from, count) = [k \in 1..Min({count, all}) |-> L[Nth(L, from, k)]]
  BY Zenon DEF Page, L, Whole, Lists, Fresh, Nth, Upto
<1> HIDE DEF n, all
<1> QED
  BY <1>5, <1>8, <1>9 DEF from, count

(***************************************************************************)
(* A call that nothing disturbs returns the page that was asked for of the *)
(* storages' lists, one after the other.                                   *)
(***************************************************************************)
THEOREM QuietCallsExact == Spec => []QuietCallExact
<1>1. ASSUME IInv, QInv PROVE QuietCallExact
  <2> SUFFICES ASSUME call.phase = "return", changes = 0
               PROVE  call.result = Page(call.from, call.count)
    BY DEF QuietCallExact
  <2>1. TablesGood(storages) /\ CallSound(call, 0, storages)
    BY <1>1, Begins DEF Phases
  <2>2. call # Idle
    BY DEF Idle
  <2>3. Passed(call, storages) /\ Ended(call)
    BY <1>1, <2>2 DEF QInv, QuietExact
  <2> QED
    BY <2>1, <2>3, EndedPage
<1> QED
  BY <1>1, QuietInvariance, PTL

-----------------------------------------------------------------------------
(***************************************************************************)
(* A call for all keys of all storages, while there is at most one change. *)
(* An entry is ahead of the call when its storage is a later one, or its   *)
(* place is behind the index; a storage is done when it will not be read   *)
(* again.                                                                  *)
(***************************************************************************)
IsAhead(c, m, j) == m > c.storage \/ (m = c.storage /\ j > c.storageKeyIndex)

Ahead(c, tables) ==
  {key \in Keys : \E m \in Storages : \E j \in 1..Len(ListableKeys(tables[m])) :
                    ListableKeys(tables[m])[j] = key /\ IsAhead(c, m, j)}

Done(c, m) ==
  m < c.storage \/ (m = c.storage /\ c.phase = "again") \/ c.phase = "return"

\* The result has room for the keys of the storages that are ahead.
Roomy(c) ==
  /\ c.excludeKeys = ToSet(c.result)
  /\ Len(c.result) <= Room[c.storage - 1] + c.storageKeyIndex
  /\ c.storage \notin Storages => c.storageKeyIndex = 0
  /\ c.storage \in Storages =>
       /\ c.storageKeyIndex <= Cardinality(KeysAt[c.storage])
       /\ c.phase = "keys" => c.storageKeyIndex + c.keysToRead <= Cardinality(KeysAt[c.storage])

\* Before the change, storages are read as a whole.
Calm(c, tables, keys) ==
  /\ keys \subseteq Listable(tables)
  /\ \A m \in Storages : Done(c, m) => ToSet(ListableKeys(tables[m])) \subseteq ToSet(c.result)
  /\ c.phase # "again" => c.storageKeyIndex = 0
  /\ c.phase = "keys" => c.keysToRead = tables[c.storage].size
  /\ c.phase = "again" => c.storageKeyIndex = tables[c.storage].size

\* After it, what was listable all along is listed or still ahead.
Stirred(c, tables, keys) ==
  /\ keys \subseteq ToSet(c.result) \union Ahead(c, tables)
  /\ c.phase = "return" => keys \subseteq ToSet(c.result)
  /\ c.phase = "size" => c.storageKeyIndex <= tables[c.storage].size

OneSound(c, n, tables, keys) ==
  /\ Roomy(c)
  /\ n = 0 => Calm(c, tables, keys)
  /\ n = 1 => Stirred(c, tables, keys)

OInv ==
  call # Idle /\ changes <= 1 /\ call.from = 0 /\ call.count >= Room[Len(KeysAt)] =>
    OneSound(call, changes, storages, lasting)

\* The room for the keys of a storage and of those before it:
LEMMA RoomRows ==
  /\ Room[0] = 0
  /\ \A k \in 1..Len(KeysAt) : Room[k] = Room[k - 1] + Cardinality(KeysAt[k])
<1> DEFINE n == Len(KeysAt)
           Row(f, k) == IF k = 0 THEN 0 ELSE f[k - 1] + Cardinality(KeysAt[k])
           Built(f, m) == f = [k \in 0..m |-> Row(f, k)]
           Exists(m) == \E f : Built(f, m)
           T == {m \in 0..n : Exists(m)}
           rows == CHOOSE f : Built(f, n)
<1>1. n \in Nat
  BY KeysRangeAssumption
<1>2. Exists(0)
  <2> DEFINE g == [k \in 0..0 |-> 0]
  <2>1. g = [k \in 0..0 |-> Row(g, k)]
    <3>1. \A k \in 0..0 : Row(g, k) = 0
      OBVIOUS
    <3> HIDE DEF Row
    <3> QED
      BY <3>1
  <2>2. Built(g, 0)
    BY <2>1, Zenon
  <2> HIDE DEF Built
  <2> QED
    BY <2>2
<1>3. ASSUME NEW m \in 1..n, Exists(m - 1) PROVE Exists(m)
  <2>1. PICK f : Built(f, m - 1)
    BY <1>3, Zenon
  <2> DEFINE g == [k \in 0..m |-> Row(f, k)]
  <2>2. ASSUME NEW k \in 0..m PROVE Row(g, k) = Row(f, k)
    <3>1. CASE k = 0
      BY <3>1
    <3>2. CASE k # 0
      <4>1. k - 1 \in 0..(m - 1) /\ k - 1 \in 0..m
        BY <1>1, <3>2
      <4>2. f[k - 1] = Row(f, k - 1)
        BY <2>1, <4>1, Zenon
      <4>3. g[k - 1] = Row(f, k - 1)
        BY <4>1, Zenon
      <4> HIDE DEF g
      <4> QED
        BY <4>2, <4>3, Zenon
    <3> QED
      BY <3>1, <3>2
  <2>3. Built(g, m)
    <3>1. \A k \in 0..m : Row(g, k) = Row(f, k)
      BY <2>2
    <3> HIDE DEF Row
    <3> QED
      BY <3>1
  <2> HIDE DEF Built, g
  <2> QED
    BY <2>3
<1>4. Exists(n)
  <2> HIDE DEF Exists, n
  <2>1. 0 \in T
    BY <1>1, <1>2
  <2>2. \A m \in 1..n : m - 1 \in T => m \in T
    BY <1>1, <1>3
  <2> HIDE DEF T
  <2>3. n \in T
    BY <1>1, <2>1, <2>2, UpTo
  <2> QED
    BY <2>3 DEF T
<1>5. Built(rows, n)
  <2> HIDE DEF Built
  <2> QED
    BY <1>4, Zenon
<1>6. Room = rows
  BY Zenon DEF Room
<1> HIDE DEF rows
<1>7. \A k \in 0..n : rows[k] = Row(rows, k)
  BY <1>5, Zenon
<1>8. rows[0] = 0
  BY <1>1, <1>7
<1>9. ASSUME NEW m \in 1..n PROVE rows[m] = rows[m - 1] + Cardinality(KeysAt[m])
  <2>1. m \in 0..n /\ m # 0
    BY <1>1
  <2> QED
    BY <1>7, <2>1, Zenon
<1> QED
  BY <1>6, <1>8, <1>9, Zenon

\* it grows from storage to storage.
LEMMA RoomFacts ==
  /\ Room[0] = 0
  /\ \A i \in 1..Len(KeysAt) :
       /\ Room[i - 1] \in Nat /\ Cardinality(KeysAt[i]) \in Nat
       /\ Room[i] = Room[i - 1] + Cardinality(KeysAt[i])
       /\ Room[i] \in Nat
       /\ Cardinality(KeysAt[i]) <= MaxReserve
  /\ Room[Len(KeysAt)] \in Nat
  /\ \A i \in 0..Len(KeysAt) : Room[i] \in Nat
<1> DEFINE n == Len(KeysAt)
           T == {m \in 0..n : Room[m] \in Nat}
<1>1. /\ n \in Nat
      /\ \A i \in 1..n : IsFiniteSet(KeysAt[i]) /\ Cardinality(KeysAt[i]) <= MaxReserve
  BY KeysRangeAssumption
<1>2. \A i \in 1..n : Cardinality(KeysAt[i]) \in Nat
  BY <1>1, FS_CardinalityType
<1>3. Room[0] = 0 /\ \A i \in 1..n : Room[i] = Room[i - 1] + Cardinality(KeysAt[i])
  BY RoomRows
<1> HIDE DEF n
<1>4. 0 \in T
  BY <1>1, <1>3
<1>5. ASSUME NEW m \in 0..n PROVE m \in T
  <2>1. m \in Nat
    BY <1>1
  <2>2. ASSUME NEW i \in 1..m, i - 1 \in T PROVE i \in T
    <3>1. i \in 1..n /\ i \in 0..n
      BY <1>1
    <3>2. Room[i - 1] \in Nat /\ Cardinality(KeysAt[i]) \in Nat
      BY <1>2, <2>2, <3>1
    <3>3. Room[i] = Room[i - 1] + Cardinality(KeysAt[i])
      BY <1>3, <3>1
    <3> QED
      BY <3>1, <3>2, <3>3
  <2> HIDE DEF T
  <2> QED
    BY <1>4, <2>1, <2>2, UpTo
<1>6. \A m \in 0..n : Room[m] \in Nat
  BY <1>5
<1>7. \A i \in 1..n : i - 1 \in 0..n /\ i \in 0..n
  BY <1>1
<1>8. n \in 0..n
  BY <1>1
<1> QED
  BY <1>1, <1>2, <1>3, <1>6, <1>7, <1>8 DEF n

\* What is ahead of a storage fits into the room that is left.
LEMMA RoomAhead ==
  ASSUME NEW s \in 1..Len(KeysAt), NEW m \in s..Len(KeysAt)
  PROVE  /\ Room[m] <= Room[Len(KeysAt)]
         /\ m > s => Room[s] + Cardinality(KeysAt[m]) <= Room[Len(KeysAt)]
<1> DEFINE n == Len(KeysAt)
<1>1. n \in Nat /\ s \in 1..n /\ m \in s..n
  BY KeysRangeAssumption
<1>2. \A i \in 1..n : /\ Room[i - 1] \in Nat /\ Cardinality(KeysAt[i]) \in Nat
                      /\ Room[i] = Room[i - 1] + Cardinality(KeysAt[i])
                      /\ Room[i] \in Nat
  BY RoomFacts
<1> HIDE DEF n
<1>3. ASSUME NEW a \in 1..n, NEW b \in a..n PROVE Room[a] <= Room[b]
  <2> DEFINE T == {k \in 0..(b - a) : Room[a] <= Room[a + k]}
  <2>1. b - a \in Nat /\ a \in Nat /\ a <= n /\ b <= n /\ a >= 1
    BY <1>1
  <2>2. 0 \in T
    <3>1. a + 0 = a /\ 0 \in 0..(b - a) /\ Room[a] \in Nat
      BY <1>2, <2>1
    <3> QED
      BY <3>1
  <2>3. ASSUME NEW k \in 1..(b - a), k - 1 \in T PROVE k \in T
    <3>1. a + k \in 1..n /\ (a + k) - 1 = a + (k - 1) /\ k \in 0..(b - a)
      BY <1>1, <2>1
    <3>2. /\ Room[a + (k - 1)] \in Nat /\ Cardinality(KeysAt[a + k]) \in Nat
          /\ Room[a + k] = Room[a + (k - 1)] + Cardinality(KeysAt[a + k])
      BY <1>2, <3>1
    <3>3. Room[a] <= Room[a + (k - 1)] /\ Room[a] \in Nat
      BY <1>2, <2>3
    <3>4. Room[a] <= Room[a + k]
      BY <3>2, <3>3
    <3> QED
      BY <3>1, <3>4
  <2> HIDE DEF T
  <2>4. b - a \in T
    BY <2>1, <2>2, <2>3, UpTo
  <2>5. a + (b - a) = b
    BY <2>1
  <2> QED
    BY <2>4, <2>5 DEF T
<1>4. Room[m] <= Room[n]
  <2>1. m \in 1..n /\ n \in m..n
    BY <1>1
  <2> QED
    BY <1>3, <2>1
<1>5. ASSUME m > s PROVE Room[s] + Cardinality(KeysAt[m]) <= Room[n]
  <2>1. m - 1 \in s..n /\ m \in 1..n /\ s \in 1..n /\ n \in 1..n /\ n \in m..n
    BY <1>1, <1>5
  <2>2. Room[s] <= Room[m - 1]
    BY <1>3, <2>1
  <2>3. /\ Room[m - 1] \in Nat /\ Cardinality(KeysAt[m]) \in Nat /\ Room[s] \in Nat
        /\ Room[m] = Room[m - 1] + Cardinality(KeysAt[m]) /\ Room[m] \in Nat /\ Room[n] \in Nat
    BY <1>2, <2>1
  <2> QED
    BY <1>4, <2>2, <2>3
<1> QED
  BY <1>4, <1>5 DEF n

\* A storage lists no more keys than clients put there.
LEMMA ListSizes ==
  ASSUME NEW tables, TablesGood(tables), NEW i \in Storages
  PROVE  /\ ListableKeys(tables[i]) \in Seq(Keys)
         /\ Len(ListableKeys(tables[i])) \in Nat
         /\ Len(ListableKeys(tables[i])) <= tables[i].size
         /\ tables[i].size \in Nat
         /\ tables[i].size <= Cardinality(KeysAt[i])
<1>1. Good(tables[i]) /\ KeysOf(Contents(tables[i])) \subseteq KeysAt[i]
  BY DEF TablesGood
<1>2. IsFiniteSet(KeysAt[i])
  BY KeysRangeAssumption DEF Storages
<1>3. tables[i].size \in Nat /\ tables[i].size <= Cardinality(KeysAt[i])
  BY <1>1, <1>2, SizeBounded
<1>4. ListableKeys(tables[i]) \in Seq(Keys) /\ Len(ListableKeys(tables[i])) <= tables[i].size
  BY <1>1, ListableFacts
<1> QED
  BY <1>3, <1>4

(***************************************************************************)
(* Listing keys puts just them into the result that does not have them.    *)
(***************************************************************************)
LEMMA ListKeySets ==
  ASSUME NEW c \in Calls, c.excludeKeys = ToSet(c.result), NEW key \in Keys
  PROVE  LET u == ListKey(c, key)
         IN u.excludeKeys = ToSet(u.result) /\ ToSet(u.result) = ToSet(c.result) \union {key}
<1> DEFINE u == ListKey(c, key)
           s == c.result
           r == Append(s, key)
           X == c.excludeKeys
<1>1. s \in Seq(Keys) /\ Len(s) \in Nat /\ X \in SUBSET Keys
  BY DEF Calls
<1>2. CASE key \in X
  <2>1. u = c
    BY <1>2 DEF ListKey
  <2> QED
    BY <1>2, <2>1
<1>3. CASE key \notin X
  <2>1. u = Holding(c, r, X \union {key})
    BY <1>3 DEF ListKey, Holding
  <2>2. /\ r \in Seq(Keys) /\ Len(r) = Len(s) + 1 /\ r[Len(s) + 1] = key
        /\ \A i \in 1..Len(s) : r[i] = s[i]
    BY <1>1
  <2>3. ToSet(s) = {s[i] : i \in 1..Len(s)} /\ ToSet(r) = {r[i] : i \in 1..Len(r)}
    BY <1>1, <2>2 DEF ToSet
  <2> HIDE DEF r, s
  <2>4. ToSet(r) = ToSet(s) \union {key}
    <3>1. 1..Len(r) = 1..Len(s) \union {Len(s) + 1}
      BY <1>1, <2>2
    <3> QED
      BY <2>2, <2>3, <3>1
  <2> DEFINE Y == X \union {key}
  <2>5. Y \in SUBSET Keys
    BY <1>1
  <2> HIDE DEF Y, u
  <2>6. u = Holding(c, r, Y)
    BY <2>1 DEF Y
  <2>7. u.result = r /\ u.excludeKeys = Y
    BY <2>2, <2>5, <2>6, HoldingFields
  <2> QED
    BY <2>4, <2>7 DEF u, Y, s
<1> QED
  BY <1>2, <1>3

\* So does listing all the keys that a storage returned.
LEMMA ListKeysSets ==
  ASSUME NEW c \in Calls, Distinct(c), c.excludeKeys = ToSet(c.result), NEW keys \in Seq(Keys)
  PROVE  LET u == ListKeys(c, keys)
         IN /\ u.excludeKeys = ToSet(u.result)
            /\ ToSet(c.result) \subseteq ToSet(u.result)
            /\ \A j \in 1..Len(keys) : keys[j] \in ToSet(u.result)
<1> DEFINE n == Len(keys)
<1>1. n \in Nat /\ \A j \in 1..n : keys[j] \in Keys
  OBVIOUS
<1>2. PICK rows : /\ rows[0] = c
                  /\ \A k \in 1..n : rows[k] = ListKey(rows[k - 1], keys[k])
                  /\ ListKeys(c, keys) = rows[n]
  BY <1>1, ListRows
<1> DEFINE Has(u, m) == \A j \in 1..m : keys[j] \in ToSet(u.result)
           Good1(u, m) == /\ u \in Calls /\ Distinct(u) /\ u.excludeKeys = ToSet(u.result)
                          /\ ToSet(c.result) \subseteq ToSet(u.result)
                          /\ Has(u, m)
           T == {m \in 0..n : Good1(rows[m], m)}
<1>3. 0 \in T
  BY <1>1, <1>2
<1> HIDE DEF n
<1>4. ASSUME NEW m \in 1..n, m - 1 \in T PROVE m \in T
  <2> DEFINE old == rows[m - 1]
             key == keys[m]
             new == ListKey(old, key)
  <2>1. /\ old \in Calls /\ Distinct(old) /\ old.excludeKeys = ToSet(old.result)
        /\ ToSet(c.result) \subseteq ToSet(old.result) /\ key \in Keys
    BY <1>1, <1>4
  <2>2. Has(old, m - 1)
    BY <1>4
  <2>3. rows[m] = new
    BY <1>2
  <2> HIDE DEF old, key, Has
  <2>4. new \in Calls /\ Distinct(new)
    BY <2>1, ListKeyFacts
  <2>5. new.excludeKeys = ToSet(new.result) /\ ToSet(new.result) = ToSet(old.result) \union {key}
    BY <2>1, ListKeySets
  <2> HIDE DEF new
  <2>6. Has(new, m)
    <3> SUFFICES ASSUME NEW j \in 1..m PROVE keys[j] \in ToSet(new.result)
      BY DEF Has
    <3>1. CASE j = m
      BY <2>5, <3>1 DEF key
    <3>2. CASE j # m
      <4>1. j \in 1..(m - 1)
        BY <1>1, <3>2
      <4> QED
        BY <2>2, <2>5, <4>1 DEF Has
    <3> QED
      BY <3>1, <3>2
  <2>7. m \in 0..n /\ ToSet(c.result) \subseteq ToSet(new.result)
    BY <1>1, <2>1, <2>5
  <2> QED
    BY <2>3, <2>4, <2>5, <2>6, <2>7
<1> HIDE DEF T
<1>5. n \in T
  BY <1>1, <1>3, <1>4, UpTo
<1> QED
  BY <1>2, <1>5 DEF T, n

-----------------------------------------------------------------------------
(***************************************************************************)
(* Between two questions to the storages, before the loops' conditions.    *)
(***************************************************************************)
Ready(c, n, tables, keys) ==
  /\ c.excludeKeys = ToSet(c.result)
  /\ Len(c.result) <= Room[c.storage - 1] + c.storageKeyIndex
  /\ c.storage \notin Storages => c.storageKeyIndex = 0
  /\ c.storage \in Storages => c.storageKeyIndex <= tables[c.storage].size
  /\ n = 0 => /\ c.storageKeyIndex = 0
              /\ keys \subseteq Listable(tables)
              /\ \A m \in Storages :
                   m < c.storage => ToSet(ListableKeys(tables[m])) \subseteq ToSet(c.result)
  /\ n = 1 => keys \subseteq ToSet(c.result) \union Ahead(c, tables)

Total(c) == c.from = 0 /\ c.count >= Room[Len(KeysAt)]

\* The numbers in the locals of a call for all keys.
LEMMA TotalFacts ==
  ASSUME NEW c \in Calls, Listed(c), Total(c)
  PROVE  /\ c.count \in Nat /\ Len(c.result) \in Nat /\ Len(c.result) <= c.count
         /\ c.indicesToSkip = 0 /\ ~(c.indicesToSkip > 0)
         /\ c.storageKeyIndex \in Nat /\ c.keysToRead \in Nat
         /\ c.storage \in 1..(Len(KeysAt) + 1)
         /\ Len(KeysAt) \in Nat /\ Storages = 1..Len(KeysAt)
         /\ Room[Len(KeysAt)] \in Nat /\ Room[Len(KeysAt)] <= c.count
         /\ Room[c.storage - 1] \in Nat
<1>1. /\ c.count \in Nat /\ c.indicesToSkip \in Nat
      /\ c.storageKeyIndex \in Nat /\ c.keysToRead \in Nat
  BY KeysRangeAssumption DEF Calls, Numbers
<1>2. c.result \in Seq(Keys) /\ Len(c.result) \in Nat /\ Len(c.result) <= c.count
  BY DEF Calls, Listed
<1>3. c.indicesToSkip <= 0
  BY DEF Listed, Total
<1>4. c.storage \in 1..(Len(KeysAt) + 1) /\ Len(KeysAt) \in Nat /\ Storages = 1..Len(KeysAt)
  BY KeysRangeAssumption DEF Calls, Storages
<1>5. c.storage - 1 \in 0..Len(KeysAt)
  BY <1>4
<1>6. Room[Len(KeysAt)] \in Nat /\ Room[c.storage - 1] \in Nat
  BY <1>5, RoomFacts
<1>7. Room[Len(KeysAt)] <= c.count
  BY <1>1, <1>6 DEF Total
<1> QED
  BY <1>1, <1>2, <1>3, <1>4, <1>6, <1>7

\* A storage has room for its keys.
LEMMA StorageRoom ==
  ASSUME NEW i \in Storages
  PROVE  /\ i \in 1..Len(KeysAt) /\ Cardinality(KeysAt[i]) \in Nat
         /\ Cardinality(KeysAt[i]) <= MaxReserve /\ MaxReserve \in Nat /\ Word \in Nat
         /\ MaxReserve < Word
         /\ Room[i - 1] \in Nat /\ Room[i] \in Nat
         /\ Room[i] = Room[i - 1] + Cardinality(KeysAt[i])
         /\ Room[i] <= Room[Len(KeysAt)]
<1>1. i \in 1..Len(KeysAt) /\ Len(KeysAt) \in Nat
  BY KeysRangeAssumption DEF Storages
<1>2. i \in i..Len(KeysAt)
  BY <1>1
<1>3. Room[i] <= Room[Len(KeysAt)]
  BY <1>1, <1>2, RoomAhead
<1> QED
  BY <1>1, <1>3, RoomFacts, KeysRangeAssumption

\* When there is no room left, no entry is ahead.
LEMMA NothingAhead ==
  ASSUME NEW c \in Calls, Listed(c), Total(c), NEW tables, TablesGood(tables),
         NEW n, NEW keys, Ready(c, n, tables, keys),
         ~(c.storage \in Storages /\ keysLeft(c) > 0),
         NEW m \in Storages, NEW j \in 1..Len(ListableKeys(tables[m]))
  PROVE  ~IsAhead(c, m, j)
<1> DEFINE s == c.storage
           index == c.storageKeyIndex
           all == Len(ListableKeys(tables[m]))
           size == tables[m].size
           most == Cardinality(KeysAt[m])
           top == Room[Len(KeysAt)]
           got == Len(c.result)
           before == Room[s - 1]
           here == Room[s]
<1>1. /\ s \in 1..(Len(KeysAt) + 1) /\ Len(KeysAt) \in Nat /\ Storages = 1..Len(KeysAt)
      /\ m \in 1..Len(KeysAt)
  BY TotalFacts
<1>2. /\ index \in Nat /\ got \in Nat /\ before \in Nat /\ top \in Nat
      /\ c.count \in Nat /\ top <= c.count /\ got <= c.count
  BY TotalFacts
<1>3. all \in Nat /\ size \in Nat /\ all <= size /\ size <= most
  BY ListSizes
<1>4. got <= before + index
  BY DEF Ready
<1>5. most \in Nat
  BY StorageRoom
<1>6. CASE s \notin Storages
  <2>1. s > m
    BY <1>1, <1>6
  <2> QED
    BY <1>1, <2>1 DEF IsAhead
<1>7. CASE s \in Storages
  <2>1. index <= tables[s].size /\ tables[s].size \in Nat /\ tables[s].size <= Cardinality(KeysAt[s])
    BY <1>7, ListSizes DEF Ready
  <2>2. here = before + Cardinality(KeysAt[s]) /\ here \in Nat /\ Cardinality(KeysAt[s]) \in Nat
        /\ here <= top
    BY <1>7, StorageRoom
  <2>3. got = c.count
    <3>1. ~(c.count - got > 0)
      BY <1>7 DEF keysLeft
    <3> QED
      BY <1>2, <3>1
  <2>4. j \in Nat /\ 1 <= j /\ j <= all
    BY <1>3
  <2> HIDE DEF before, here, top, got, all, size, most, index
  <2>5. m = s => ~(j > index)
    <3> SUFFICES ASSUME m = s PROVE ~(j > index)
      OBVIOUS
    <3>1. most = Cardinality(KeysAt[s])
      BY DEF most
    <3> QED
      BY <1>2, <1>3, <1>4, <1>5, <2>2, <2>3, <2>4, <3>1
  <2>6. ~(m > s)
    <3> SUFFICES ASSUME m > s PROVE FALSE
      OBVIOUS
    <3>1. s \in 1..Len(KeysAt) /\ m \in s..Len(KeysAt)
      BY <1>1, <1>7
    <3>2. here + most <= top
      BY <3>1, RoomAhead DEF here, most, top
    <3>3. index <= Cardinality(KeysAt[s])
      BY <1>2, <2>1, <2>2
    <3> QED
      BY <1>2, <1>3, <1>4, <1>5, <2>2, <2>3, <2>4, <3>2, <3>3
  <2> QED
    BY <2>5, <2>6 DEF IsAhead, index
<1> QED
  BY <1>6, <1>7

\* Ahead is the same while the place is.
LEMMA SameAhead ==
  ASSUME NEW u, NEW c, u.storage = c.storage, u.storageKeyIndex = c.storageKeyIndex, NEW tables
  PROVE  Ahead(u, tables) = Ahead(c, tables)
BY DEF Ahead, IsAhead

\* The loops end when nothing is ahead.
LEMMA TurnOne ==
  ASSUME NEW c \in Calls, Listed(c), Total(c), NEW tables, TablesGood(tables),
         NEW n, NEW keys, Ready(c, n, tables, keys)
  PROVE  OneSound(Turn(c), n, tables, keys)
<1> DEFINE u == Turn(c)
           s == c.storage
           index == c.storageKeyIndex
<1>1. PICK phase \in {"size", "throw", "return"} :
        /\ u = InPhase(c, phase)
        /\ phase = "return" => ~(c.storage \in Storages /\ keysLeft(c) > 0)
  <2>1. ~(c.indicesToSkip > 0)
    BY TotalFacts
  <2> QED
    BY <2>1 DEF Turn, InPhase, InNode
<1>2. phase \in Phases
  BY DEF Phases
<1> HIDE DEF u
<1>3. SameKeys(u, c) /\ u.phase = phase /\ u.storage = s /\ u.storageKeyIndex = index
  BY <1>1, <1>2, InPhaseFields
<1>4. u.phase \in {"size", "throw", "return"} /\ u.result = c.result
      /\ u.excludeKeys = c.excludeKeys
  BY <1>3 DEF SameKeys
<1>5. Roomy(u)
  <2>1. s \in Storages => index <= Cardinality(KeysAt[s])
    <3> SUFFICES ASSUME s \in Storages PROVE index <= Cardinality(KeysAt[s])
      OBVIOUS
    <3>1. /\ index <= tables[s].size /\ tables[s].size \in Nat
          /\ tables[s].size <= Cardinality(KeysAt[s])
      BY ListSizes DEF Ready
    <3>2. Cardinality(KeysAt[s]) \in Nat /\ index \in Nat
      BY StorageRoom, TotalFacts
    <3> QED
      BY <3>1, <3>2
  <2>2. /\ c.excludeKeys = ToSet(c.result)
        /\ Len(c.result) <= Room[s - 1] + index
        /\ s \notin Storages => index = 0
    BY DEF Ready
  <2>3. u.phase # "keys"
    BY <1>4
  <2> QED
    BY <1>3, <1>4, <2>1, <2>2, <2>3, Zenon DEF Roomy
<1>6. n = 0 => Calm(u, tables, keys)
  <2> SUFFICES ASSUME n = 0 PROVE Calm(u, tables, keys)
    OBVIOUS
  <2>1. /\ index = 0 /\ keys \subseteq Listable(tables)
        /\ \A m \in Storages : m < s => ToSet(ListableKeys(tables[m])) \subseteq ToSet(c.result)
    BY DEF Ready
  <2>2. ASSUME NEW m \in Storages, Done(u, m)
        PROVE  ToSet(ListableKeys(tables[m])) \subseteq ToSet(u.result)
    <3>1. m \in Nat /\ s \in Nat
      BY TotalFacts
    <3>2. CASE m < s
      BY <1>4, <2>1, <3>2
    <3>3. CASE ~(m < s)
      <4>1. u.phase = "return"
        BY <1>3, <1>4, <2>2, <3>3 DEF Done
      <4>2. \A j \in 1..Len(ListableKeys(tables[m])) : ~IsAhead(c, m, j)
        BY <1>1, <1>3, <4>1, NothingAhead
      <4>3. \A j \in 1..Len(ListableKeys(tables[m])) : IsAhead(c, m, j)
        <5> SUFFICES ASSUME NEW j \in 1..Len(ListableKeys(tables[m])) PROVE IsAhead(c, m, j)
          OBVIOUS
        <5>1. j > 0 /\ (m = s \/ m > s)
          BY <3>1, <3>3
        <5> QED
          BY <2>1, <5>1 DEF IsAhead
      <4>4. DOMAIN ListableKeys(tables[m]) = 1..Len(ListableKeys(tables[m]))
        BY ListSizes
      <4> QED
        BY <4>2, <4>3, <4>4 DEF ToSet
    <3> QED
      BY <3>2, <3>3
  <2>3. u.phase # "keys" /\ u.phase # "again"
    BY <1>4
  <2> QED
    BY <1>3, <2>1, <2>2, <2>3, Zenon DEF Calm
<1>7. n = 1 => Stirred(u, tables, keys)
  <2> SUFFICES ASSUME n = 1 PROVE Stirred(u, tables, keys)
    OBVIOUS
  <2>1. keys \subseteq ToSet(c.result) \union Ahead(c, tables)
    BY DEF Ready
  <2>2. Ahead(u, tables) = Ahead(c, tables)
    BY <1>3, SameAhead
  <2>3. u.phase = "return" => Ahead(c, tables) = {}
    <3> SUFFICES ASSUME u.phase = "return" PROVE Ahead(c, tables) = {}
      OBVIOUS
    <3>1. \A m \in Storages : \A j \in 1..Len(ListableKeys(tables[m])) : ~IsAhead(c, m, j)
      BY <1>1, <1>3, NothingAhead
    <3> QED
      BY <3>1 DEF Ahead
  <2>4. u.phase = "size" => index <= tables[s].size
    <3> SUFFICES ASSUME u.phase = "size" PROVE index <= tables[s].size
      OBVIOUS
    <3>1. s \in Storages
      BY <1>3 DEF Turn, InNode, u
    <3> QED
      BY <3>1 DEF Ready
  <2> QED
    BY <1>3, <1>4, <2>1, <2>2, <2>3, <2>4 DEF Stirred
<1> QED
  BY <1>5, <1>6, <1>7 DEF OneSound, u

\* A call for all keys begins.
LEMMA CallOne ==
  ASSUME NEW tables, TablesGood(tables), NEW from \in Numbers, NEW count \in Numbers,
         from = 0, count >= Room[Len(KeysAt)]
  PROVE  OneSound(Turn(Begun(from, count)), 0, tables, Listable(tables))
<1> DEFINE c == Begun(from, count)
<1>1. 0 \in Numbers /\ Len(KeysAt) \in Nat /\ Storages = 1..Len(KeysAt)
  BY KeysRangeAssumption DEF Numbers, Storages
<1>2. c \in Calls
  <2>1. 1 \in 1..(Len(KeysAt) + 1) /\ <<>> \in Seq(Keys) /\ "call" \in Phases
    BY <1>1 DEF Phases
  <2> QED
    BY <1>1, <2>1 DEF Begun, Calls
<1>3. /\ c.from = from /\ c.count = count /\ c.indicesToSkip = from /\ c.storage = 1
      /\ c.storageKeyIndex = 0 /\ c.excludeKeys = {} /\ c.result = <<>>
  BY DEF Begun
<1> HIDE DEF c
<1>4. Len(<<>>) = 0 /\ IsInjective(<<>>) /\ ToSet(<<>>) = {}
  BY DEF IsInjective, ToSet
<1>5. Listed(c) /\ Total(c)
  BY <1>3, <1>4 DEF Listed, Total, Numbers
<1>6. Ready(c, 0, tables, Listable(tables))
  <2>1. c.storage \in Storages => 0 <= tables[c.storage].size
    <3> SUFFICES ASSUME c.storage \in Storages PROVE 0 <= tables[c.storage].size
      OBVIOUS
    <3>1. tables[c.storage].size \in Nat
      BY StorageFacts
    <3> QED
      BY <3>1
  <2>2. Room[c.storage - 1] = 0
    <3>1. c.storage - 1 = 0
      BY <1>3
    <3> QED
      BY <3>1, RoomFacts
  <2>3. Len(c.result) <= Room[c.storage - 1] + c.storageKeyIndex
    BY <1>3, <1>4, <2>2
  <2>4. \A m \in Storages : ~(m < c.storage)
    BY <1>1, <1>3
  <2> QED
    BY <1>3, <1>4, <2>1, <2>3, <2>4 DEF Ready
<1> QED
  BY <1>2, <1>5, <1>6, TurnOne DEF c

\* The rest of a storage fits into what the call still wants, so that it asks for all of it.
LEMMA GetSizeOne ==
  ASSUME NEW c, NEW n \in {0, 1}, NEW tables, TablesGood(tables), CallSound(c, n, tables),
         c.phase = "size", Total(c), NEW keys, OneSound(c, n, tables, keys)
  PROVE  OneSound([c EXCEPT !.phase = "keys",
                            !.keysToRead = keysToRead(c, tables[c.storage].size)],
                  n, tables, keys)
<1> DEFINE s == c.storage
           index == c.storageKeyIndex
           size == tables[s].size
           most == Cardinality(KeysAt[s])
           left == (size - index) % Word
           k == keysToRead(c, size)
           u == Reading(c, k)
           got == Len(c.result)
           before == Room[s - 1]
           here == Room[s]
           top == Room[Len(KeysAt)]
<1>1. c \in Calls /\ Listed(c) /\ s \in Storages
  BY DEF CallSound, Guarded
<1>2. /\ size \in Nat /\ size <= most
  BY <1>1, ListSizes
<1>3. /\ most \in Nat /\ most <= MaxReserve /\ MaxReserve \in Nat /\ Word \in Nat
      /\ MaxReserve < Word /\ before \in Nat /\ here \in Nat /\ here = before + most
      /\ here <= top
  BY <1>1, StorageRoom
<1>4. /\ index \in Nat /\ got \in Nat /\ top \in Nat /\ c.count \in Nat /\ top <= c.count
      /\ ~(c.indicesToSkip > 0)
  BY <1>1, TotalFacts
<1>5. got <= before + index
  BY DEF OneSound, Roomy
<1>6. index <= size /\ (n = 0 => index = 0)
  <2>1. n = 0 => index = 0
    BY DEF OneSound, Calm
  <2>2. n = 1 => index <= size
    BY DEF OneSound, Stirred
  <2>3. n = 0 \/ n = 1
    OBVIOUS
  <2> HIDE DEF index, size
  <2> QED
    BY <1>2, <2>1, <2>2, <2>3
<1>7. Wanted(c) = c.count - got
  BY <1>4 DEF Wanted, keysLeft
<1> HIDE DEF index, size, most, got, before, here, top
<1>8. left = size - index
  <2>1. size - index \in Nat /\ size - index < Word
    BY <1>2, <1>3, <1>4, <1>6
  <2> QED
    BY <2>1, SmallMod
<1>9. k = size - index
  <2> DEFINE w == Wanted(c)
             r == size - index
  <2>1. w \in Int /\ r \in Int /\ r <= w
    BY <1>2, <1>3, <1>4, <1>5, <1>6, <1>7
  <2>2. k = Min({w, r})
    BY <1>8 DEF keysToRead, index
  <2> HIDE DEF w, r, k
  <2>3. k = IF w <= r THEN w ELSE r
    BY <2>1, <2>2, MinOfTwo
  <2>4. k = r
    BY <2>1, <2>3
  <2> QED
    BY <2>4 DEF r
<1>10. k \in Numbers
  <2> HIDE DEF k
  <2> QED
    BY <1>2, <1>3, <1>4, <1>6, <1>9 DEF Numbers
<1>11. index + k <= most /\ (n = 0 => k = size)
  <2> HIDE DEF k
  <2> QED
    BY <1>2, <1>3, <1>4, <1>6, <1>9
<1> HIDE DEF k, u
<1>12. /\ SameKeys(u, c) /\ u.phase = "keys" /\ u.storage = s
       /\ u.storageKeyIndex = index /\ u.keysToRead = k
  BY <1>1, <1>10, ReadingFields DEF u, index
<1>13. u.result = c.result /\ u.excludeKeys = c.excludeKeys
  BY <1>12 DEF SameKeys
<1>14. Roomy(u)
  <2>1. c.excludeKeys = ToSet(c.result) /\ index <= most
    BY <1>1 DEF OneSound, Roomy, index, most
  <2> QED
    BY <1>1, <1>5, <1>11, <1>12, <1>13, <2>1 DEF Roomy, most, before, got
<1>15. n = 0 => Calm(u, tables, keys)
  <2> SUFFICES ASSUME n = 0 PROVE Calm(u, tables, keys)
    OBVIOUS
  <2>1. /\ keys \subseteq Listable(tables)
        /\ \A m \in Storages :
             Done(c, m) => ToSet(ListableKeys(tables[m])) \subseteq ToSet(c.result)
    BY DEF OneSound, Calm
  <2>2. \A m \in Storages : Done(u, m) => Done(c, m)
    BY <1>12 DEF Done
  <2>3. \A m \in Storages :
          Done(u, m) => ToSet(ListableKeys(tables[m])) \subseteq ToSet(u.result)
    BY <1>13, <2>1, <2>2
  <2>4. index = 0 /\ k = size
    BY <1>6, <1>11
  <2> QED
    BY <1>12, <2>1, <2>3, <2>4, Zenon DEF Calm, size
<1>16. n = 1 => Stirred(u, tables, keys)
  <2> SUFFICES ASSUME n = 1 PROVE Stirred(u, tables, keys)
    OBVIOUS
  <2>1. keys \subseteq ToSet(c.result) \union Ahead(c, tables)
    BY DEF OneSound, Stirred
  <2>2. Ahead(u, tables) = Ahead(c, tables)
    BY <1>12, SameAhead DEF index
  <2> QED
    BY <1>12, <1>13, <2>1, <2>2 DEF Stirred
<1>17. OneSound(u, n, tables, keys)
  BY <1>14, <1>15, <1>16 DEF OneSound
<1> QED
  BY <1>17 DEF u, k, size, Reading

\* The keys that a storage returned are in the result; the rest of it is still ahead.
LEMMA GetKeysOne ==
  ASSUME NEW c, NEW n \in {0, 1}, NEW tables, TablesGood(tables), CallSound(c, n, tables),
         c.phase = "keys", Total(c), NEW keys, OneSound(c, n, tables, keys)
  PROVE  LET more == getKeysRange(tables[c.storage], c.storageKeyIndex, c.keysToRead)
         IN OneSound(IF c.keysToRead > MaxReserve THEN [c EXCEPT !.phase = "throw"]
                     ELSE [TakeKeys(c, more) EXCEPT !.phase = "again"], n, tables, keys)
<1> DEFINE s == c.storage
           index == c.storageKeyIndex
           k == c.keysToRead
           t == tables[s]
           size == t.size
           all == ListableKeys(t)
           most == Cardinality(KeysAt[s])
           more == getKeysRange(t, index, k)
           w == ListKeys(c, more)
           v == TakeKeys(c, more)
           u == InPhase(v, "again")
           got == Len(c.result)
           before == Room[s - 1]
           e == Least(index + k, Len(all))
<1>1. c \in Calls /\ Listed(c) /\ s \in Storages /\ k <= Wanted(c)
  BY DEF CallSound, Guarded
<1>2. /\ size \in Nat /\ size <= most /\ all \in Seq(Keys) /\ Len(all) \in Nat /\ Len(all) <= size
  BY <1>1, ListSizes
<1>3. /\ most \in Nat /\ most <= MaxReserve /\ MaxReserve \in Nat /\ Word \in Nat
      /\ MaxReserve < Word /\ before \in Nat
  BY <1>1, StorageRoom
<1>4. /\ index \in Nat /\ k \in Nat /\ got \in Nat /\ ~(c.indicesToSkip > 0)
  BY <1>1, TotalFacts
<1>5. /\ got <= before + index /\ index + k <= most /\ c.excludeKeys = ToSet(c.result)
  BY <1>1 DEF OneSound, Roomy
<1>6. Sound(t)
  BY <1>1, StorageFacts
<1>7. more = SubSeq(all, index + 1, e)
  <2>1. index + k \in Int /\ Len(all) \in Int
    BY <1>2, <1>4
  <2>2. Min({index + k, Len(all)}) = e
    <3> HIDE DEF index, k, all
    <3> QED
      BY <2>1, MinOfTwo DEF Least
  <2> QED
    BY <2>2 DEF getKeysRange
<1>8. more \in Seq(Keys) /\ Len(more) <= k /\ Len(more) \in Nat
  BY <1>4, <1>6, KeysRangeFacts
<1>9. Distinct(c)
  BY <1>1 DEF Listed, Distinct
<1> HIDE DEF index, k, t, size, all, most, more, got, before, e, w, v, u
<1>10. ~(k > MaxReserve) /\ index + k \in Nat /\ index + k < Word
  BY <1>3, <1>4, <1>5
<1>11. /\ w \in Calls /\ SameCall(w, c) /\ Len(w.result) <= got + Len(more)
       /\ Len(w.result) \in Nat
  <2>1. w \in Calls /\ SameCall(w, c) /\ Len(w.result) <= got + Len(more)
    BY <1>1, <1>8, <1>9, ListKeysFacts DEF w, got
  <2> QED
    BY <2>1 DEF Calls
<1>12. /\ w.excludeKeys = ToSet(w.result) /\ ToSet(c.result) \subseteq ToSet(w.result)
       /\ \A j \in 1..Len(more) : more[j] \in ToSet(w.result)
  BY <1>1, <1>5, <1>8, <1>9, ListKeysSets DEF w
<1>13. v = [w EXCEPT !.storageKeyIndex = (w.storageKeyIndex + k) % Word]
  BY <1>4 DEF v, w, TakeKeys, k
<1>14. v.excludeKeys = w.excludeKeys /\ v.result = w.result
  BY <1>11, <1>13 DEF Calls
<1>15. v \in Calls /\ v.storage = s /\ v.storageKeyIndex = (index + k) % Word
  <2>1. Len(more) <= Wanted(c)
    <3>1. Wanted(c) \in Numbers
      BY <1>1, WantedFacts
    <3> QED
      BY <1>1, <1>4, <1>8, <3>1, <1>3 DEF Numbers, k
  <2> QED
    BY <1>1, <1>8, <2>1, TakeKeysFacts DEF v, index, k
<1>16. (index + k) % Word = index + k
  <2> DEFINE m == index + k
  <2>1. m \in Nat /\ m < Word
    BY <1>10
  <2> HIDE DEF m
  <2> QED
    BY <2>1, SmallMod DEF m
<1>17. /\ SameKeys(u, v) /\ u.phase = "again" /\ u.storage = s
       /\ u.storageKeyIndex = index + k
  BY <1>15, <1>16, InPhaseFields DEF Phases, u
<1>18. u.result = w.result /\ u.excludeKeys = w.excludeKeys
  BY <1>14, <1>17 DEF SameKeys
<1>19. Roomy(u)
  <2>1. Len(w.result) <= before + (index + k)
    BY <1>3, <1>4, <1>5, <1>8, <1>11
  <2> QED
    BY <1>1, <1>5, <1>12, <1>17, <1>18, <2>1 DEF Roomy, before, most
<1>20. ASSUME NEW j \in 1..Len(all), j > index, j <= index + k
       PROVE  all[j] \in ToSet(u.result)
  <2>1. e \in Nat /\ e <= Len(all) /\ j <= e /\ j \in Nat
    BY <1>2, <1>4, <1>20 DEF e, Least
  <2>2. more[j - index] = all[j] /\ j - index \in 1..Len(more)
    <3>1. more = [i \in 1..(e - (index + 1) + 1) |-> all[(index + 1) + i - 1]]
      BY <1>2, <1>4, <1>7, <2>1
    <3>2. j - index \in 1..(e - (index + 1) + 1) /\ (index + 1) + (j - index) - 1 = j
      BY <1>4, <1>20, <2>1
    <3>3. DOMAIN more = 1..(e - (index + 1) + 1)
      BY <3>1
    <3>4. DOMAIN more = 1..Len(more)
      BY <1>8
    <3> QED
      BY <3>1, <3>2, <3>3, <3>4
  <2> QED
    BY <1>12, <1>18, <2>2
<1>21. n = 0 => Calm(u, tables, keys)
  <2> SUFFICES ASSUME n = 0 PROVE Calm(u, tables, keys)
    OBVIOUS
  <2>1. keys \subseteq Listable(tables) /\ index = 0 /\ k = size
    BY DEF OneSound, Calm, index, k, size, t
  <2>2. \A m \in Storages :
          Done(c, m) => ToSet(ListableKeys(tables[m])) \subseteq ToSet(c.result)
    BY DEF OneSound, Calm
  <2>3. ASSUME NEW m \in Storages, Done(u, m)
        PROVE  ToSet(ListableKeys(tables[m])) \subseteq ToSet(u.result)
    <3>1. CASE m < s
      <4>1. Done(c, m)
        BY <3>1 DEF Done
      <4> QED
        BY <1>12, <1>18, <2>2, <4>1
    <3>2. CASE m = s
      <4>1. \A j \in 1..Len(all) : all[j] \in ToSet(u.result)
        <5> SUFFICES ASSUME NEW j \in 1..Len(all) PROVE all[j] \in ToSet(u.result)
          OBVIOUS
        <5>1. j > index /\ j <= index + k
          BY <1>2, <2>1
        <5> QED
          BY <1>20, <5>1
      <4>2. ToSet(all) \subseteq ToSet(u.result)
        <5>1. DOMAIN all = 1..Len(all)
          BY <1>2
        <5>2. ToSet(all) = {all[j] : j \in 1..Len(all)}
          BY <5>1 DEF ToSet
        <5> QED
          BY <4>1, <5>2
      <4> QED
        BY <3>2, <4>2 DEF all, t
    <3> QED
      BY <1>17, <2>3, <3>1, <3>2 DEF Done
  <2>4. index + k = size
    BY <1>2, <2>1
  <2> QED
    BY <1>17, <2>1, <2>3, <2>4, Zenon DEF Calm, size, t
<1>22. n = 1 => Stirred(u, tables, keys)
  <2> SUFFICES ASSUME n = 1 PROVE Stirred(u, tables, keys)
    OBVIOUS
  <2>1. keys \subseteq ToSet(c.result) \union Ahead(c, tables)
    BY DEF OneSound, Stirred
  <2>2. ASSUME NEW key \in Ahead(c, tables) PROVE key \in ToSet(u.result) \union Ahead(u, tables)
    <3>1. PICK m \in Storages : \E j \in 1..Len(ListableKeys(tables[m])) :
                 ListableKeys(tables[m])[j] = key /\ IsAhead(c, m, j)
      BY <2>2 DEF Ahead
    <3>2. PICK j \in 1..Len(ListableKeys(tables[m])) :
                 ListableKeys(tables[m])[j] = key /\ IsAhead(c, m, j)
      BY <3>1
    <3>3. key \in Keys
      BY <2>2 DEF Ahead
    <3>4. CASE m = s /\ j <= index + k
      <4>1. ~(m > s)
        BY <3>4, <1>1, KeysRangeAssumption DEF Storages
      <4>2. j > index
        BY <3>2, <4>1 DEF IsAhead, index
      <4>3. j \in 1..Len(all) /\ all[j] = key
        BY <3>2, <3>4 DEF all, t
      <4> QED
        BY <1>20, <3>4, <4>2, <4>3
    <3>5. CASE ~(m = s /\ j <= index + k)
      <4>1. IsAhead(u, m, j)
        <5>1. CASE m > s
          BY <1>17, <5>1 DEF IsAhead
        <5>2. CASE ~(m > s)
          <6>1. m = s /\ ~(j <= index + k)
            BY <3>2, <3>5, <5>2 DEF IsAhead
          <6>2. j \in Nat /\ index + k \in Nat
            BY <1>10
          <6>3. j > index + k
            BY <6>1, <6>2
          <6> QED
            BY <1>17, <6>1, <6>3 DEF IsAhead
        <5> QED
          BY <5>1, <5>2
      <4> QED
        BY <3>2, <3>3, <4>1 DEF Ahead
    <3> QED
      BY <3>4, <3>5
  <2>3. ToSet(c.result) \subseteq ToSet(u.result)
    BY <1>12, <1>18
  <2>4. keys \subseteq ToSet(u.result) \union Ahead(u, tables)
    BY <2>1, <2>2, <2>3
  <2> QED
    BY <1>17, <2>4 DEF Stirred
<1>23. OneSound(u, n, tables, keys)
  BY <1>19, <1>21, <1>22 DEF OneSound
<1> QED
  BY <1>10, <1>23 DEF u, v, more, t, index, k, InPhase

\* A storage is left when its size says that nothing of it is ahead.
LEMMA AgainOne ==
  ASSUME NEW c, NEW n \in {0, 1}, NEW tables, TablesGood(tables), CallSound(c, n, tables),
         c.phase = "again", Total(c), NEW keys, OneSound(c, n, tables, keys)
  PROVE  OneSound(Turn(NextStorage(c, tables[c.storage].size)), n, tables, keys)
<1> DEFINE s == c.storage
           index == c.storageKeyIndex
           size == tables[s].size
           most == Cardinality(KeysAt[s])
           v == NextStorage(c, size)
           got == Len(c.result)
           before == Room[s - 1]
<1>1. c \in Calls /\ Listed(c) /\ s \in Storages
  BY DEF CallSound, Guarded
<1>2. /\ size \in Nat /\ size <= most
      /\ Len(ListableKeys(tables[s])) \in Nat /\ Len(ListableKeys(tables[s])) <= size
  BY <1>1, ListSizes
<1>3. /\ most \in Nat /\ before \in Nat /\ Room[s] \in Nat /\ Room[s] = before + most
      /\ s \in 1..Len(KeysAt) /\ Len(KeysAt) \in Nat /\ 0 \in Numbers
  BY <1>1, StorageRoom, KeysRangeAssumption DEF Numbers
<1>4. /\ index \in Nat /\ got \in Nat
  BY <1>1, TotalFacts
<1>5. /\ got <= before + index /\ index <= most /\ c.excludeKeys = ToSet(c.result)
  BY <1>1 DEF OneSound, Roomy
<1>6. n = 0 => /\ keys \subseteq Listable(tables)
               /\ index = size
               /\ \A m \in Storages :
                    Done(c, m) => ToSet(ListableKeys(tables[m])) \subseteq ToSet(c.result)
  BY DEF OneSound, Calm
<1>7. n = 1 => keys \subseteq ToSet(c.result) \union Ahead(c, tables)
  BY DEF OneSound, Stirred
<1> HIDE DEF index, size, most, v, got, before
<1>8. CASE index >= size
  <2>1. v = At(c, s + 1, 0)
    <3>1. v = [c EXCEPT !.storage = c.storage + 1, !.storageKeyIndex = 0]
      BY <1>8 DEF NextStorage, v, index
    <3> QED
      BY <3>1, Zenon DEF At
  <2>2. s + 1 \in 1..(Len(KeysAt) + 1)
    BY <1>3
  <2>3. v \in Calls /\ SameKeys(v, c) /\ v.storage = s + 1 /\ v.storageKeyIndex = 0
    BY <1>1, <1>3, <2>1, <2>2, AtFields
  <2>4. Listed(v) /\ Total(v) /\ v.result = c.result /\ v.excludeKeys = c.excludeKeys
    <3>1. Listed(v)
      BY <1>1, <2>3, SameListed
    <3> QED
      BY <2>3, <3>1 DEF SameKeys, Total
  <2>5. Len(v.result) <= Room[v.storage - 1] + v.storageKeyIndex
    <3>1. (s + 1) - 1 = s
      BY <1>3
    <3>2. got <= Room[s] + 0
      BY <1>3, <1>4, <1>5
    <3> QED
      BY <2>3, <2>4, <3>1, <3>2 DEF got
  <2>6. v.storage \in Storages => 0 <= tables[v.storage].size
    <3> SUFFICES ASSUME v.storage \in Storages PROVE 0 <= tables[v.storage].size
      OBVIOUS
    <3>1. tables[v.storage].size \in Nat
      BY StorageFacts
    <3> QED
      BY <3>1
  <2>7. n = 0 => \A m \in Storages :
                   m < v.storage => ToSet(ListableKeys(tables[m])) \subseteq ToSet(v.result)
    <3> SUFFICES ASSUME n = 0, NEW m \in Storages, m < s + 1
                 PROVE  ToSet(ListableKeys(tables[m])) \subseteq ToSet(c.result)
      BY <2>3, <2>4
    <3>1. m < s \/ m = s
      BY <1>3 DEF Storages
    <3>2. Done(c, m)
      BY <3>1 DEF Done
    <3> QED
      BY <1>6, <3>2
  <2>8. Ahead(c, tables) \subseteq Ahead(v, tables)
    <3> SUFFICES ASSUME NEW key \in Ahead(c, tables) PROVE key \in Ahead(v, tables)
      OBVIOUS
    <3>1. PICK m \in Storages : \E j \in 1..Len(ListableKeys(tables[m])) :
                 ListableKeys(tables[m])[j] = key /\ IsAhead(c, m, j)
      BY DEF Ahead
    <3>2. PICK j \in 1..Len(ListableKeys(tables[m])) :
                 ListableKeys(tables[m])[j] = key /\ IsAhead(c, m, j)
      BY <3>1
    <3>3. m > s
      <4> SUFFICES ASSUME ~(m > s) PROVE FALSE
        OBVIOUS
      <4>1. m = s /\ j > index
        BY <3>2 DEF IsAhead, index
      <4>2. j \in 1..Len(ListableKeys(tables[s]))
        BY <4>1
      <4> QED
        BY <1>2, <1>4, <1>8, <4>1, <4>2
    <3>4. IsAhead(v, m, j)
      <4>1. m \in Nat /\ j \in Nat /\ j > 0 /\ s \in Nat
        BY <1>3 DEF Storages
      <4>2. m > s + 1 \/ m = s + 1
        BY <3>3, <4>1
      <4> QED
        BY <2>3, <4>1, <4>2 DEF IsAhead
    <3>5. key \in Keys
      BY DEF Ahead
    <3> QED
      BY <3>2, <3>4, <3>5 DEF Ahead
  <2>9. Ready(v, n, tables, keys)
    <3>1. v.excludeKeys = ToSet(v.result)
      BY <1>5, <2>4
    <3>2. n = 1 => keys \subseteq ToSet(v.result) \union Ahead(v, tables)
      BY <1>7, <2>4, <2>8
    <3>3. n = 0 => keys \subseteq Listable(tables)
      BY <1>6
    <3> QED
      BY <2>3, <2>5, <2>6, <2>7, <3>1, <3>2, <3>3, Zenon DEF Ready
  <2> QED
    BY <2>3, <2>4, <2>9, TurnOne DEF v, size
<1>9. CASE ~(index >= size)
  <2>1. v = c
    BY <1>9 DEF NextStorage, v, index
  <2>2. n = 1 /\ n # 0
    BY <1>2, <1>4, <1>6, <1>9
  <2>3. index <= size
    BY <1>2, <1>4, <1>9
  <2>4. Ready(c, n, tables, keys)
    BY <1>1, <1>5, <1>7, <2>2, <2>3 DEF Ready, index, size, before, got
  <2> QED
    BY <1>1, <2>1, <2>4, TurnOne DEF v, size
<1> QED
  BY <1>8, <1>9

(***************************************************************************)
(* The first change: a key that can be listed before and after it, and     *)
(* that the call has not listed, is in a storage that is still ahead; if   *)
(* the change took it from there, it is left in another one.               *)
(***************************************************************************)
LEMMA FirstChange ==
  ASSUME NEW c \in Calls, Listed(c), Guarded(c), Total(c),
         NEW old, TablesGood(old), NEW new, TablesGood(new),
         NEW i \in Storages, \A m \in Storages : m # i => new[m] = old[m],
         NEW keys, Calm(c, old, keys)
  PROVE  Stirred(c, new, keys \intersect Listable(new))
<1> DEFINE s == c.storage
           index == c.storageKeyIndex
           got == ToSet(c.result)
           ahead == Ahead(c, new)
<1>1. /\ keys \subseteq Listable(old)
      /\ \A m \in Storages : Done(c, m) => ToSet(ListableKeys(old[m])) \subseteq got
      /\ c.phase # "again" => index = 0
  BY DEF Calm
<1>2. /\ s \in Nat /\ Storages \subseteq Nat /\ index \in Nat
  BY TotalFacts
<1>3. ASSUME NEW m \in Storages, ~Done(c, m), NEW key \in ToSet(ListableKeys(new[m]))
      PROVE  key \in ahead
  <2>1. ListableKeys(new[m]) \in Seq(Keys)
    BY ListSizes
  <2>2. PICK j \in 1..Len(ListableKeys(new[m])) : ListableKeys(new[m])[j] = key
    BY <1>3, <2>1 DEF ToSet
  <2>3. j > 0 /\ m \in Nat /\ key \in Keys
    BY <1>2, <2>1, <2>2
  <2>4. m > s \/ m = s
    BY <1>2, <1>3, <2>3 DEF Done
  <2>5. IsAhead(c, m, j)
    BY <1>1, <1>3, <2>3, <2>4 DEF IsAhead, Done
  <2> QED
    BY <2>2, <2>3, <2>5 DEF Ahead
<1>4. ASSUME NEW key \in keys, key \in Listable(new)
      PROVE  key \in got \/ key \in ahead
  <2>1. PICK a \in Storages : key \in ToSet(ListableKeys(old[a]))
    BY <1>1 DEF Listable
  <2>2. PICK b \in Storages : key \in ToSet(ListableKeys(new[b]))
    BY <1>4 DEF Listable
  <2>3. CASE Done(c, a)
    BY <1>1, <2>1, <2>3
  <2>4. CASE ~Done(c, a) /\ a # i
    <3>1. new[a] = old[a]
      BY <2>4
    <3>2. key \in ToSet(ListableKeys(new[a]))
      BY <2>1, <3>1
    <3> QED
      BY <1>3, <2>4, <3>2
  <2>5. CASE ~Done(c, a) /\ a = i
    <3>1. CASE ~Done(c, b)
      BY <1>3, <2>2, <3>1
    <3>2. CASE Done(c, b)
      <4>1. b # i
        BY <2>5, <3>2
      <4>2. new[b] = old[b]
        BY <4>1
      <4>3. key \in ToSet(ListableKeys(old[b]))
        BY <2>2, <4>2
      <4> QED
        BY <1>1, <3>2, <4>3
    <3> QED
      BY <3>1, <3>2
  <2> QED
    BY <2>3, <2>4, <2>5
<1>5. c.phase = "return" => keys \intersect Listable(new) \subseteq got
  <2> SUFFICES ASSUME c.phase = "return", NEW key \in keys PROVE key \in got
    OBVIOUS
  <2>1. PICK a \in Storages : key \in ToSet(ListableKeys(old[a]))
    BY <1>1 DEF Listable
  <2>2. Done(c, a)
    BY DEF Done
  <2> QED
    BY <1>1, <2>1, <2>2
<1>6. c.phase = "size" => index <= new[s].size
  <2> SUFFICES ASSUME c.phase = "size" PROVE 0 <= new[s].size
    BY <1>1
  <2>1. s \in Storages
    BY DEF Guarded
  <2>2. new[s].size \in Nat
    BY <2>1, ListSizes
  <2> QED
    BY <2>2
<1>7. keys \intersect Listable(new) \subseteq got \union ahead
  BY <1>4
<1> QED
  BY <1>5, <1>6, <1>7 DEF Stirred

\* What other threads do concerns one storage.
LEMMA ChangeOne ==
  ASSUME IInv, Change
  PROVE  \E i \in Storages : \A m \in Storages : m # i => storages'[m] = storages[m]
<1>1. DOMAIN storages = Storages
  BY DEF IInv, TablesGood
<1>2. ASSUME NEW i \in Storages, NEW u, storages' = [storages EXCEPT ![i] = u],
             NEW m \in Storages, m # i
      PROVE  storages'[m] = storages[m]
  BY <1>1, <1>2
<1>3. PICK i \in Storages : \E key \in KeysAt[i] :
        \/ \E value \in Values : putValue(i, key, value)
        \/ deleteValue(i, key)
        \/ Expire(i, key)
  BY DEF Change
<1>4. PICK key \in KeysAt[i] :
        \/ \E value \in Values : putValue(i, key, value)
        \/ deleteValue(i, key)
        \/ Expire(i, key)
  BY <1>3
<1>5. \E u : storages' = [storages EXCEPT ![i] = u]
  <2>1. CASE \E value \in Values : putValue(i, key, value)
    <3>1. PICK value \in Values : putValue(i, key, value)
      BY <2>1
    <3>2. storages' = [storages EXCEPT ![i] = insert(remove(storages[i], key), key, value)]
      BY <3>1 DEF putValue
    <3> QED
      BY <3>2
  <2>2. CASE deleteValue(i, key)
    <3>1. storages' = [storages EXCEPT ![i] = remove(storages[i], key)]
      BY <2>2 DEF deleteValue
    <3> QED
      BY <3>1
  <2>3. CASE Expire(i, key)
    <3>1. PICK place \in Places(storages[i]) :
            storages' = [storages EXCEPT ![i].chains[place[1]][place[2]][place[3]].value = Expired]
      BY <2>3 DEF Expire
    <3>2. storages' = [storages EXCEPT ![i] = Aged(storages[i], place)]
      BY <3>1, Zenon DEF Aged
    <3> QED
      BY <3>2
  <2> QED
    BY <1>4, <2>1, <2>2, <2>3
<1> QED
  BY <1>2, <1>5, Zenon

\* Reading keys leaves the request alone.
LEMMA GetKeysSameRequest ==
  ASSUME NEW c, NEW n, NEW tables, TablesGood(tables), CallSound(c, n, tables), c.phase = "keys"
  PROVE  LET more == getKeysRange(tables[c.storage], c.storageKeyIndex, c.keysToRead)
             u == IF c.keysToRead > MaxReserve THEN [c EXCEPT !.phase = "throw"]
                  ELSE [TakeKeys(c, more) EXCEPT !.phase = "again"]
         IN u.from = c.from /\ u.count = c.count
<1> DEFINE k == c.keysToRead
           more == getKeysRange(tables[c.storage], c.storageKeyIndex, k)
           v == TakeKeys(c, more)
           a == InPhase(c, "throw")
           b == InPhase(v, "again")
<1>1. c \in Calls /\ Listed(c) /\ c.storage \in Storages /\ k <= Wanted(c)
  BY DEF CallSound, Guarded
<1>2. Sound(tables[c.storage]) /\ c.storageKeyIndex \in Nat /\ k \in Nat
  BY <1>1, StorageFacts, KeysRangeAssumption DEF Calls, Numbers
<1>3. more \in Seq(Keys) /\ Len(more) <= k /\ Len(more) \in Nat
  BY <1>2, KeysRangeFacts
<1>4. Wanted(c) \in Nat
  BY <1>1, WantedFacts, KeysRangeAssumption DEF Numbers
<1> HIDE DEF k, more, v, a, b
<1>5. Len(more) <= Wanted(c)
  BY <1>1, <1>2, <1>3, <1>4
<1>6. v \in Calls /\ v.from = c.from /\ v.count = c.count
  BY <1>1, <1>3, <1>5, TakeKeysFacts DEF v
<1>7. b.from = c.from /\ b.count = c.count
  BY <1>6, InPhaseFields DEF b, Phases, SameKeys
<1>8. a.from = c.from /\ a.count = c.count
  BY <1>1, InPhaseFields DEF a, Phases, SameKeys
<1> QED
  BY <1>7, <1>8 DEF a, b, v, more, k, InPhase

\* Every step keeps what a call for all keys has and what is ahead of it,
LEMMA StepKeepsOInv ==
  ASSUME IInv, OInv, Next
  PROVE  OInv'
<1> SUFFICES ASSUME call' # Idle, changes' <= 1, Total(call')
             PROVE  OneSound(call', changes', storages', lasting')
  BY DEF OInv, Total
<1>1. TablesGood(storages) /\ IInv'
  BY StepKeepsIInv DEF IInv
<1>2. ASSUME NEW request \in Requests, getKeysRange_call(request[1], request[2])
      PROVE  OneSound(call', changes', storages', lasting')
  <2> DEFINE from == request[1]
             count == request[2]
             c == Begun(from, count)
  <2>1. from \in Numbers /\ count \in Numbers
    BY KeysRangeAssumption DEF Numbers
  <2>2. call' = Turn(c) /\ storages' = storages /\ changes' = 0
        /\ lasting' = Listable(storages)
    BY <1>2 DEF getKeysRange_call, Begun
  <2>3. Turn(c).from = from /\ Turn(c).count = count
    BY DEF Turn, Begun
  <2> HIDE DEF from, count
  <2>4. from = 0 /\ count >= Room[Len(KeysAt)]
    BY <2>2, <2>3 DEF Total
  <2> QED
    BY <1>1, <2>1, <2>2, <2>4, CallOne
<1>3. ASSUME NEW phase \in Phases, call.phase = phase, changes' = changes,
             call.from = call'.from, call.count = call'.count
      PROVE  /\ changes \in {0, 1} /\ Total(call)
             /\ CallSound(call, changes, storages) /\ OneSound(call, changes, storages, lasting)
  <2>1. call # Idle
    BY <1>3 DEF Idle, Phases
  <2>2. Total(call)
    BY <1>3 DEF Total
  <2>3. CallSound(call, changes, storages) /\ changes \in Nat
    BY <1>3, Begins
  <2>4. changes \in {0, 1}
    BY <1>3, <2>3
  <2> QED
    BY <1>3, <2>1, <2>2, <2>3, <2>4 DEF OInv, Total
<1>4. ASSUME getSize PROVE OneSound(call', changes', storages', lasting')
  <2>1. CallSound(call, changes, storages) /\ call.phase \in Phases /\ changes' = changes
    BY <1>4, Begins DEF getSize, Phases
  <2>2. call.from = call'.from /\ call.count = call'.count
    BY <1>4, <2>1 DEF getSize, CallSound, Calls
  <2>3. /\ changes \in {0, 1} /\ Total(call)
        /\ CallSound(call, changes, storages) /\ OneSound(call, changes, storages, lasting)
    BY <1>3, <2>1, <2>2
  <2> QED
    BY <1>1, <1>4, <2>3, GetSizeOne DEF getSize
<1>5. ASSUME getKeysRange_storage PROVE OneSound(call', changes', storages', lasting')
  <2>1. /\ CallSound(call, changes, storages) /\ call.phase = "keys"
        /\ call.phase \in Phases /\ changes' = changes
    BY <1>5, Begins DEF getKeysRange_storage, Phases
  <2>2. call.from = call'.from /\ call.count = call'.count
    BY <1>1, <1>5, <2>1, GetKeysSameRequest DEF getKeysRange_storage
  <2>3. /\ changes \in {0, 1} /\ Total(call)
        /\ CallSound(call, changes, storages) /\ OneSound(call, changes, storages, lasting)
    BY <1>3, <2>1, <2>2
  <2> QED
    BY <1>1, <1>5, <2>3, GetKeysOne DEF getKeysRange_storage
<1>6. ASSUME getSize_again PROVE OneSound(call', changes', storages', lasting')
  <2>1. CallSound(call, changes, storages) /\ call.phase \in Phases /\ changes' = changes
    BY <1>6, Begins DEF getSize_again, Phases
  <2>2. call.from = call'.from /\ call.count = call'.count
    BY <1>6, <2>1 DEF getSize_again, CallSound, Calls, Turn, NextStorage
  <2>3. /\ changes \in {0, 1} /\ Total(call)
        /\ CallSound(call, changes, storages) /\ OneSound(call, changes, storages, lasting)
    BY <1>3, <2>1, <2>2
  <2> QED
    BY <1>1, <1>6, <2>3, AgainOne DEF getSize_again
<1>7. ASSUME Return PROVE FALSE
  BY <1>7 DEF Return
<1>8. ASSUME Change PROVE OneSound(call', changes', storages', lasting')
  <2>1. Observe /\ call' = call /\ call # Idle
    BY <1>8, ChangeObserved
  <2>2. changes \in Nat /\ CallSound(call, changes, storages)
    BY <2>1 DEF IInv, MaxChanges
  <2>3. changes' = Min({changes + 1, 2})
    BY <2>1 DEF Observe, MaxChanges
  <2>4. changes' = IF changes + 1 <= 2 THEN changes + 1 ELSE 2
    <3>1. changes + 1 \in Int /\ 2 \in Int
      BY <2>2
    <3> QED
      BY <2>3, <3>1, MinOfTwo
  <2>5. changes = 0 /\ changes' = 1
    BY <2>2, <2>4
  <2>6. Roomy(call) /\ Calm(call, storages, lasting)
    BY <2>1, <2>5 DEF OInv, OneSound, Total
  <2>7. PICK i \in Storages : \A m \in Storages : m # i => storages'[m] = storages[m]
    BY <1>8, ChangeOne
  <2>8. TablesGood(storages')
    BY <1>1 DEF IInv
  <2>9. call \in Calls /\ Listed(call) /\ Guarded(call) /\ Total(call)
    BY <2>1, <2>2 DEF CallSound
  <2>10. Stirred(call, storages', lasting \intersect Listable(storages'))
    BY <1>1, <2>6, <2>7, <2>8, <2>9, FirstChange
  <2>11. lasting' = lasting \intersect Listable(storages')
    BY <2>1, <2>5 DEF Observe
  <2> QED
    BY <2>1, <2>5, <2>6, <2>10, <2>11 DEF OneSound
<1> QED
  BY <1>2, <1>4, <1>5, <1>6, <1>7, <1>8, Zenon DEF Next, CallStep

\* so that no key is between the two.
LEMMA OneInvariance == Spec => [](IInv /\ OInv)
<1>1. Init => IInv /\ OInv
  BY InitIInv DEF Init, OInv
<1>2. IInv /\ OInv /\ [Next]_vars => (IInv /\ OInv)'
  <2> SUFFICES ASSUME IInv, OInv, [Next]_vars PROVE IInv' /\ OInv'
    OBVIOUS
  <2>1. CASE Next
    BY <2>1, StepKeepsIInv, StepKeepsOInv
  <2>2. CASE UNCHANGED vars
    BY <2>2 DEF vars, IInv, OInv
  <2> QED
    BY <2>1, <2>2
<1> QED
  BY <1>1, <1>2, PTL DEF Spec

(***************************************************************************)
(* One change by another thread costs a call for all keys of all storages  *)
(* no key that could be listed before and after it.                        *)
(***************************************************************************)
THEOREM OneChangeHarmless == Spec => []OneChangeLosesNothing
<1>1. ASSUME IInv, OInv PROVE OneChangeLosesNothing
  <2> SUFFICES ASSUME call.phase = "return", changes <= 1, call.from = 0,
                      call.count >= Room[Len(KeysAt)]
               PROVE  lasting \subseteq ToSet(call.result)
    BY DEF OneChangeLosesNothing
  <2>1. changes \in Nat /\ call # Idle
    BY <1>1, Begins DEF Phases, Idle
  <2>2. OneSound(call, changes, storages, lasting)
    BY <1>1, <2>1 DEF OInv
  <2>3. CASE changes = 0
    <3>1. Calm(call, storages, lasting)
      BY <2>2, <2>3 DEF OneSound
    <3>2. ASSUME NEW key \in lasting PROVE key \in ToSet(call.result)
      <4>1. PICK m \in Storages : key \in ToSet(ListableKeys(storages[m]))
        BY <3>1 DEF Calm, Listable
      <4>2. Done(call, m)
        BY DEF Done
      <4> QED
        BY <3>1, <4>1, <4>2 DEF Calm
    <3> QED
      BY <3>2
  <2>4. CASE changes = 1
    BY <2>2, <2>4 DEF OneSound, Stirred
  <2> QED
    BY <2>1, <2>3, <2>4
<1> QED
  BY <1>1, OneInvariance, PTL
=============================================================================
