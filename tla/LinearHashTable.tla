-------------------------- MODULE LinearHashTable ---------------------------
(***************************************************************************)
(* The hash table of a LinearHashStorage.  The storage's X lock makes each *)
(* call one step; what readers under its S lock do to the cache of buckets *)
(* is in PersistentTable.                                                  *)
(***************************************************************************)
EXTENDS HashTable

VARIABLES
  table,
  found     \* per key, what a lookup finds: an observer, the code has no such state

vars == <<table, found>>

-----------------------------------------------------------------------------
Init ==
  /\ table = NewTable
  /\ found = Lookups(table)

putValue(key, value) == table' = insert(remove(table, key), key, value)

deleteValue(key) == contains(table, key) /\ table' = remove(table, key)

\* The clock passes the expiration time of a record.
Expire(key) ==
  \E place \in Places(table) :
    /\ RecordAt(table, place).key = key
    /\ RecordAt(table, place).value \in Expiring
    /\ table' = [table EXCEPT !.chains[place[1]][place[2]][place[3]].value = Expired]

Next ==
  /\ \E key \in Keys :
       \/ \E value \in Values : putValue(key, value)
       \/ deleteValue(key)
       \/ Expire(key)
  /\ found' = Lookups(table')

Spec == Init /\ [][Next]_vars

-----------------------------------------------------------------------------
(***************************************************************************)
(* No bucket exceeds its capacity, for which its slot in the file is made. *)
(***************************************************************************)
TypeOK ==
  /\ table.n \in Nat /\ table.p \in Nat /\ table.size \in Nat
  /\ \A b \in 1..Len(table.chains) :
       /\ table.chains[b] # <<>>
       /\ \A i \in 1..Len(table.chains[b]) :
            /\ Len(table.chains[b][i]) <= BucketCapacity
            /\ \A j \in 1..Len(table.chains[b][i]) :
                 table.chains[b][i][j] \in [key : Keys, value : Values \union {Expired}]

(***************************************************************************)
(* Through all splits and merges there are n + p primary buckets, p is a   *)
(* bucket still to be split at this level, and n a doubling of the         *)
(* minimum, so that every mask and every index of calculate_bucket_chain   *)
(* is good.                                                                *)
(***************************************************************************)
BucketsMatchLevel ==
  /\ Len(table.chains) = table.n + table.p
  /\ table.p < table.n
  /\ IsPowerOfTwo(table.n) /\ table.n >= MinBucketCount

(***************************************************************************)
(* A record is where a lookup under the present n and p goes, even when    *)
(* its chain was split or merged, or its overflow bucket moved, since it   *)
(* was inserted.                                                           *)
(***************************************************************************)
RecordsInTheirChain ==
  \A place \in Places(table) :
    calculate_bucket_chain(table, RecordAt(table, place).key) + 1 = place[1]

(***************************************************************************)
(* The size of the table, which purges of insert leave alone, is the       *)
(* number of records, and no key has two.                                  *)
(***************************************************************************)
SizeMatchesRecords ==
  /\ table.size = Cardinality(Places(table))
  /\ \A p1, p2 \in Places(table) :
       RecordAt(table, p1).key = RecordAt(table, p2).key => p1 = p2

(***************************************************************************)
(* The two loops do not undo each other.  A load above the maximum is only *)
(* what a merge left of a load below the minimum (with few buckets one     *)
(* bucket makes that difference), and a load below the minimum only what a *)
(* split left of a load above the maximum, or the minimum of buckets.      *)
(***************************************************************************)
LoadInBounds ==
  LET full(buckets) == 100 * table.size > 95 * BucketCapacity * buckets
      low(buckets) == 100 * table.size < 75 * BucketCapacity * buckets
      buckets == Len(table.chains)
  IN /\ full(buckets) => low(buckets + 1)
     /\ low(buckets) => buckets = MinBucketCount \/ full(buckets - 1)

(***************************************************************************)
(* A storage is a map whose expired records may disappear: a put or a      *)
(* delete changes one key, and splits, merges and purges lose nothing      *)
(* alive.                                                                  *)
(***************************************************************************)
Map == INSTANCE ExpiringMap WITH records <- found

ImplementsMap == Map!Spec
=============================================================================
