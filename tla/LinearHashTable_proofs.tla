----------------------- MODULE LinearHashTable_proofs -----------------------
(***************************************************************************)
(* The hash table of a storage is a map, for any keys, digests, bucket     *)
(* capacity and minimum of buckets: splits and merges, of which one may    *)
(* undo another, keep every record findable, once.                         *)
(***************************************************************************)
EXTENDS LinearHashTable, HashTable_proofs
-----------------------------------------------------------------------------
IInv == Good(table) /\ found = Lookups(table)

\* The invariant holds at first.
LEMMA InitIInv == Init => IInv
BY NewTableGood DEF Init, IInv

(***************************************************************************)
(* Each step of the table is one of the map, and keeps the invariant.      *)
(***************************************************************************)
LEMMA StepFacts ==
  ASSUME IInv, Next
  PROVE  IInv' /\ Map!Next
<1>1. Good(table) /\ found = Lookups(table) /\ found' = Lookups(table')
  BY DEF IInv, Next
<1>2. PICK key \in Keys :
        \/ \E value \in Values : putValue(key, value)
        \/ deleteValue(key)
        \/ Expire(key)
  BY DEF Next
<1>3. ASSUME NEW value \in Values, putValue(key, value)
      PROVE  Good(table') /\ Map!Put(key, value)
  <2>1. /\ Good(table') /\ Lookups(table')[key] = value
        /\ \A k \in Keys \ {key} :
             \/ Lookups(table')[k] = Lookups(table)[k]
             \/ Lookups(table')[k] = Absent /\ Lookups(table)[k] = Expired
    BY <1>1, <1>3, PutFacts DEF putValue
  <2> QED
    BY <1>1, <2>1 DEF Map!Put, Map!Unchanged
<1>4. ASSUME deleteValue(key) PROVE Good(table') /\ Map!Delete(key)
  <2>1. /\ Good(table') /\ Lookups(table')[key] = Absent
        /\ \A k \in Keys \ {key} : Lookups(table')[k] = Lookups(table)[k]
    BY <1>1, <1>4, DeleteFacts DEF deleteValue
  <2> QED
    BY <1>1, <2>1 DEF Map!Delete, Map!Unchanged
<1>5. ASSUME Expire(key) PROVE Good(table') /\ Map!Expire(key)
  <2>1. PICK place \in Places(table) :
          /\ RecordAt(table, place).key = key
          /\ RecordAt(table, place).value \in Expiring
          /\ table' = Aged(table, place)
    BY <1>5, Zenon DEF Expire, Aged
  <2>2. /\ Good(table')
        /\ Lookups(table')[key] = Expired /\ Lookups(table)[key] \in Expiring
        /\ \A k \in Keys \ {key} : Lookups(table')[k] = Lookups(table)[k]
    BY <1>1, <2>1, ExpirationFacts
  <2> QED
    BY <1>1, <2>2 DEF Map!Expire, Map!Unchanged
<1>6. /\ Good(table')
      /\ (\E value \in Values : Map!Put(key, value)) \/ Map!Delete(key) \/ Map!Expire(key)
  BY <1>2, <1>3, <1>4, <1>5
<1>7. found' \in [Keys -> Values \union {Absent, Expired}]
  BY <1>1, <1>6, LookupsType
<1>8. Map!Next
  BY <1>6, <1>7 DEF Map!Next
<1> QED
  BY <1>1, <1>6, <1>8 DEF IInv

-----------------------------------------------------------------------------
(***************************************************************************)
(* The invariant holds, and what it says of the table.                     *)
(***************************************************************************)
LEMMA Invariance == Spec => []IInv
<1>1. Init => IInv
  BY InitIInv
<1>2. IInv /\ [Next]_vars => IInv'
  <2> SUFFICES ASSUME IInv, [Next]_vars PROVE IInv'
    OBVIOUS
  <2>1. CASE Next
    BY <2>1, StepFacts
  <2>2. CASE UNCHANGED vars
    BY <2>2 DEF vars, IInv, Good, Counted, Sound, GoodChain, Contents
  <2> QED
    BY <2>1, <2>2
<1> QED
  BY <1>1, <1>2, PTL DEF Spec

(***************************************************************************)
(* Whatever the calls, n, p and size are naturals, no chain is empty and   *)
(* no bucket exceeds its capacity, for which its slot in the file is made. *)
(***************************************************************************)
THEOREM TypeCorrect == Spec => []TypeOK
<1>1. ASSUME IInv PROVE TypeOK
  <2>1. Sound(table) /\ table.size \in Nat
    BY <1>1, GoodFacts DEF IInv
  <2>2. table.n \in Nat /\ table.p \in Nat
    BY <2>1 DEF Sound, Tables
  <2>3. ASSUME NEW b \in 1..Len(table.chains)
        PROVE  /\ table.chains[b] # <<>>
               /\ \A i \in 1..Len(table.chains[b]) :
                    /\ Len(table.chains[b][i]) <= BucketCapacity
                    /\ \A j \in 1..Len(table.chains[b][i]) :
                         table.chains[b][i][j] \in [key : Keys, value : Values \union {Expired}]
    <3> DEFINE c == table.chains[b]
    <3>1. IsChain(c)
      BY <2>1 DEF Sound, GoodChain
    <3> HIDE DEF c
    <3>2. /\ c \in Seq(Seq(Record)) /\ Len(c) > 0
          /\ \A i \in 1..Len(c) : Len(c[i]) <= BucketCapacity
      BY <3>1 DEF IsChain
    <3>3. c # <<>>
      BY <3>2
    <3>4. \A i \in 1..Len(c) : \A j \in 1..Len(c[i]) : c[i][j] \in Record
      BY <3>2, HeldRecords
    <3> QED
      BY <3>2, <3>3, <3>4 DEF c, Record
  <2> QED
    BY <2>1, <2>2, <2>3 DEF TypeOK
<1> QED
  BY <1>1, Invariance, PTL

(***************************************************************************)
(* Through all splits and merges there are n + p primary buckets, with p a *)
(* bucket of the level and n a power of two no smaller than the minimum.   *)
(***************************************************************************)
THEOREM BucketsCorrect == Spec => []BucketsMatchLevel
<1>1. ASSUME IInv PROVE BucketsMatchLevel
  <2>1. Sound(table)
    BY <1>1, GoodFacts DEF IInv
  <2>2. Level(table.n, table.p) /\ Len(table.chains) = table.n + table.p
    BY <2>1 DEF Sound
  <2> QED
    BY <2>2, LevelFacts DEF BucketsMatchLevel
<1> QED
  BY <1>1, Invariance, PTL

(***************************************************************************)
(* Every record is in the chain where calculate_bucket_chain sends its key *)
(* now, however often its chain was split or merged since it was inserted. *)
(***************************************************************************)
THEOREM RecordsCorrect == Spec => []RecordsInTheirChain
<1>1. ASSUME IInv PROVE RecordsInTheirChain
  <2>1. Sound(table)
    BY <1>1, GoodFacts DEF IInv
  <2> SUFFICES ASSUME NEW place \in Places(table)
               PROVE  calculate_bucket_chain(table, RecordAt(table, place).key) + 1 = place[1]
    BY DEF RecordsInTheirChain
  <2> QED
    BY <2>1, PlaceOfRecord DEF Home
<1> QED
  BY <1>1, Invariance, PTL

(***************************************************************************)
(* The size of the table, which the purges of insert leave alone, is the   *)
(* number of records, and no key has two.                                  *)
(***************************************************************************)
THEOREM SizeCorrect == Spec => []SizeMatchesRecords
<1>1. ASSUME IInv PROVE SizeMatchesRecords
  <2>1. Good(table) /\ Sound(table)
    BY <1>1, GoodFacts DEF IInv
  <2> QED
    BY <2>1, PlacesCounted, PlacesOfKeys DEF SizeMatchesRecords
<1> QED
  BY <1>1, Invariance, PTL

(***************************************************************************)
(* Splits and merges do not undo each other: the load is above the maximum *)
(* only where one bucket more would bring it below the minimum, and below  *)
(* the minimum only at the minimum of buckets or where one bucket less     *)
(* would bring it above the maximum.                                       *)
(***************************************************************************)
THEOREM LoadCorrect == Spec => []LoadInBounds
<1>1. ASSUME IInv PROVE LoadInBounds
  <2> DEFINE b == Len(table.chains)
             s == table.size
             full(buckets) == 100 * s > 95 * BucketCapacity * buckets
             low(buckets) == 100 * s < 75 * BucketCapacity * buckets
  <2>1. b \in Nat /\ b > 0 /\ s \in Nat /\ LoadOK(s, b)
    BY <1>1, GoodFacts DEF IInv
  <2>2. ASSUME NEW k \in Nat PROVE (full(k) <=> Full(s, k)) /\ (low(k) <=> Low(s, k))
    <3> DEFINE c == BucketCapacity
    <3>1. c \in Nat
      BY HashTableAssumption
    <3> HIDE DEF c
    <3>2. (95 * c) * k = 95 * (c * k) /\ (75 * c) * k = 75 * (c * k)
      BY <3>1
    <3> QED
      BY <3>2 DEF Full, Low, c
  <2> HIDE DEF full, low, s, b
  <2>3. b - 1 \in Nat /\ b + 1 \in Nat
    BY <2>1
  <2>4. /\ full(b) => low(b + 1)
        /\ low(b) => b = MinBucketCount \/ full(b - 1)
    BY <2>1, <2>2, <2>3, Zenon DEF LoadOK
  <2> QED
    BY <2>4 DEF LoadInBounds, full, low, s, b
<1> QED
  BY <1>1, Invariance, PTL

(***************************************************************************)
(* A storage is a map whose expired records may disappear: each put or     *)
(* delete changes what a lookup finds of one key, and what splits, merges  *)
(* and purges move or drop is never a record that is alive.                *)
(***************************************************************************)
THEOREM TableIsMap == Spec => ImplementsMap
<1>1. Init => Map!Init
  <2> SUFFICES ASSUME Init PROVE found = [k \in Keys |-> Absent]
    BY DEF Map!Init
  <2>1. \A k \in Keys : Lookups(NewTable)[k] = Absent
    BY NewTableGood, LookupOf DEF KeysOf
  <2>2. \A k \in Keys : find(NewTable, k) = Absent
    BY <2>1 DEF Lookups
  <2> QED
    BY <2>2 DEF Init, Lookups
<1>2. IInv /\ [Next]_vars => [Map!Next]_found
  BY StepFacts DEF vars
<1> QED
  BY <1>1, <1>2, Invariance, PTL DEF Spec, ImplementsMap, Map!Spec
=============================================================================
