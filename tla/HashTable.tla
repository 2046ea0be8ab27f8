----------------------------- MODULE HashTable ------------------------------
(***************************************************************************)
(* A LinearHashingTable as a value, with its operations as functions of    *)
(* it: primary buckets that are split and merged one at a time, each with  *)
(* a chain of overflow buckets.                                            *)
(*                                                                         *)
(* A table is a record: n, p and size are those of TableMetadata, chains   *)
(* is bucket_chains_, where chains[b + 1] is the sequence of the buckets   *)
(* of chain b, and a bucket is a sequence of (key, value) records.         *)
(***************************************************************************)
EXTENDS Integers, FiniteSets, Sequences, SequencesExt, FiniteSetsExt

CONSTANTS
  Keys,
  Values,
  Expiring,          \* the values stored with a time to live that may pass
  Absent, Expired,
  Hash,              \* per key, its digest
  BucketCapacity,
  MinBucketCount

\* Every divisor of a power of two but 1 is even.
IsPowerOfTwo(m) == m > 0 /\ \A d \in 2..m : m % d = 0 => d % 2 = 0

ASSUME HashTableAssumption ==
  /\ Hash \in [Keys -> Nat]
  /\ BucketCapacity \in Nat \ {0}
  /\ MinBucketCount \in Nat /\ IsPowerOfTwo(MinBucketCount)
  /\ Expiring \subseteq Values /\ {Absent, Expired} \cap Values = {}

-----------------------------------------------------------------------------
(***************************************************************************)
(* Where a key belongs, and how full the table is.  A storage leaves the   *)
(* load factors at the 0.75 and 0.95 of TableMetadata.                     *)
(***************************************************************************)
calculate_bucket_chain(t, key) ==
  LET bucket == Hash[key] % t.n
  IN IF bucket < t.p THEN Hash[key] % (2 * t.n) ELSE bucket

Slots(t) == BucketCapacity * Len(t.chains)

\* Mutant of IsOverloaded: the load is taken before the new record is counted.
IsOverloaded_late(t) == 100 * (t.size - 1) > 95 * Slots(t)

IsOverloaded(t) == 100 * t.size > 95 * Slots(t)

IsUnderloaded(t) == 100 * t.size < 75 * Slots(t)

-----------------------------------------------------------------------------
(***************************************************************************)
(* Looking a key up, and inserting into the chain of a key: into its first *)
(* bucket that is not full.                                                *)
(***************************************************************************)
IndexIn(bucket, key) == SelectInSeq(bucket, LAMBDA record : record.key = key)

BucketWith(chain, key) == SelectInSeq(chain, LAMBDA bucket : IndexIn(bucket, key) # 0)

ChainOf(t, key) == t.chains[calculate_bucket_chain(t, key) + 1]

contains(t, key) == BucketWith(ChainOf(t, key), key) # 0

find(t, key) ==
  LET chain == ChainOf(t, key)
      bucket == BucketWith(chain, key)
  IN IF bucket = 0 THEN Absent ELSE chain[bucket][IndexIn(chain[bucket], key)].value

\* Mutant of insert_internal: the last bucket of the chain is never full.
insert_internal_noOverflow(t, record) ==
  LET b == calculate_bucket_chain(t, record.key) + 1
  IN [t EXCEPT !.chains[b][Len(t.chains[b])] = Append(@, record)]

ChainWith(chain, record) ==
  LET roomy == {i \in 1..Len(chain) : Len(chain[i]) # BucketCapacity}
  IN IF roomy = {} THEN Append(chain, <<record>>)
     ELSE [chain EXCEPT ![Min(roomy)] = Append(@, record)]

insert_internal(t, record) ==
  [t EXCEPT !.chains[calculate_bucket_chain(t, record.key) + 1] = ChainWith(@, record)]

ReinsertBucket(t, bucket) ==
  LET done[j \in 0..Len(bucket)] ==
        IF j = 0 THEN t ELSE insert_internal(done[j - 1], bucket[j])
  IN done[Len(bucket)]

\* Mutant of Reinsert: the walk stops after the primary bucket.
Reinsert_primaryOnly(t, chain) == ReinsertBucket(t, chain[1])

\* The records of a chain that left the table, bucket by bucket.
Reinsert(t, chain) ==
  LET done[i \in 0..Len(chain)] ==
        IF i = 0 THEN t ELSE ReinsertBucket(done[i - 1], chain[i])
  IN done[Len(chain)]

-----------------------------------------------------------------------------
(***************************************************************************)
(* Growing and shrinking.  Split and Merge are one turn of the loops of    *)
(* rebalance_split and rebalance_merge.  MaxTurns bounds the turns: each   *)
(* changes the number of buckets by one.                                   *)
(***************************************************************************)
EmptyChain == << <<>> >>

NextLevel(t) ==
  IF t.p + 1 = t.n THEN [t EXCEPT !.n = 2 * @, !.p = 0] ELSE [t EXCEPT !.p = @ + 1]

PreviousLevel(t) ==
  IF t.p = 0 THEN [t EXCEPT !.n = @ \div 2, !.p = t.n \div 2 - 1] ELSE [t EXCEPT !.p = @ - 1]

\* Mutant of Split: the records are inserted before the pointer moves.
Split_reinsertsFirst(t) ==
  NextLevel(Reinsert([t EXCEPT !.chains = Append([@ EXCEPT ![t.p + 1] = EmptyChain], EmptyChain)],
                     t.chains[t.p + 1]))

Split(t) ==
  LET split == [t EXCEPT !.chains = Append([@ EXCEPT ![t.p + 1] = EmptyChain], EmptyChain)]
  IN Reinsert(NextLevel(split), t.chains[t.p + 1])

\* Mutant of Merge: the pointer of the smaller level starts at its first bucket.
Merge_resetsPointer(t) ==
  LET shrunk == [t EXCEPT !.chains = Front(@)]
  IN Reinsert(IF t.p = 0 THEN [shrunk EXCEPT !.n = @ \div 2] ELSE PreviousLevel(shrunk),
              Last(t.chains))

Merge(t) == Reinsert(PreviousLevel([t EXCEPT !.chains = Front(@)]), Last(t.chains))

MaxTurns(t) == Len(t.chains) + t.size

rebalance_split(t) ==
  LET turn[i \in 0..MaxTurns(t)] ==
        IF i = 0 THEN t
        ELSE LET u == turn[i - 1] IN IF IsOverloaded(u) THEN Split(u) ELSE u
  IN turn[MaxTurns(t)]

CanMerge(t) == Len(t.chains) > MinBucketCount /\ IsUnderloaded(t)

rebalance_merge(t) ==
  LET turn[i \in 0..MaxTurns(t)] ==
        IF i = 0 THEN t
        ELSE LET u == turn[i - 1] IN IF CanMerge(u) THEN Merge(u) ELSE u
  IN turn[MaxTurns(t)]

-----------------------------------------------------------------------------
(***************************************************************************)
(* insert and remove.  An insert takes the first expired record out of the *)
(* chain's primary bucket, and then neither counts nor splits.             *)
(***************************************************************************)
FirstExpired(bucket) == SelectInSeq(bucket, LAMBDA record : record.value = Expired)

ChainWithout(chain, bucket, i) == [chain EXCEPT ![bucket] = RemoveAt(@, i)]

\* Mutant of insert: an insert counts even when it replaced an expired record.
insert_countsPurged(t, key, value) ==
  LET record == [key |-> key, value |-> value]
      b == calculate_bucket_chain(t, key) + 1
      purged == FirstExpired(t.chains[b][1])
      room == IF purged = 0 THEN t ELSE [t EXCEPT !.chains[b] = ChainWithout(@, 1, purged)]
  IN rebalance_split([insert_internal(room, record) EXCEPT !.size = @ + 1])

insert(t, key, value) ==
  LET record == [key |-> key, value |-> value]
      b == calculate_bucket_chain(t, key) + 1
      purged == FirstExpired(t.chains[b][1])
  IN IF contains(t, key) THEN t
     ELSE IF purged = 0
     THEN rebalance_split([insert_internal(t, record) EXCEPT !.size = @ + 1])
     ELSE insert_internal([t EXCEPT !.chains[b] = ChainWithout(@, 1, purged)], record)

remove(t, key) ==
  LET b == calculate_bucket_chain(t, key) + 1
      bucket == BucketWith(t.chains[b], key)
      i == IndexIn(t.chains[b][bucket], key)
  IN IF contains(t, key)
     THEN rebalance_merge([t EXCEPT !.chains[b] = ChainWithout(@, bucket, i), !.size = @ - 1])
     ELSE t

-----------------------------------------------------------------------------
Lookups(t) == [key \in Keys |-> find(t, key)]

Places(t) ==
  UNION {UNION {{<<b, i, j>> : j \in DOMAIN t.chains[b][i]} : i \in DOMAIN t.chains[b]} :
           b \in DOMAIN t.chains}

RecordAt(t, place) == t.chains[place[1]][place[2]][place[3]]

NewTable ==
  [n |-> MinBucketCount, p |-> 0, size |-> 0,
   chains |-> [b \in 1..MinBucketCount |-> EmptyChain]]

-----------------------------------------------------------------------------
(***************************************************************************)
(* The keys of a range: of the records of the primary buckets alone, in    *)
(* their order, without those that have expired.                           *)
(***************************************************************************)
AliveKeys(bucket) ==
  LET keys[j \in 0..Len(bucket)] ==
        IF j = 0 THEN <<>>
        ELSE IF bucket[j].value = Expired THEN keys[j - 1]
        ELSE Append(keys[j - 1], bucket[j].key)
  IN keys[Len(bucket)]

ListableKeys(t) == FlattenSeq([b \in DOMAIN t.chains |-> AliveKeys(t.chains[b][1])])

getKeysRange(t, from, count) ==
  SubSeq(ListableKeys(t), from + 1, Min({from + count, Len(ListableKeys(t))}))
=============================================================================
