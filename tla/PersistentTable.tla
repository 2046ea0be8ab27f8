-------------------------- MODULE PersistentTable --------------------------
(***************************************************************************)
(* The hash table of a storage over its FileBucketManager: buckets live in *)
(* two files and are fetched into a cache, written back and dropped when   *)
(* the cache is full, or when the table is closed.                         *)
(*                                                                         *)
(* Writers hold the X lock of the storage, so that putValue and            *)
(* deleteValue are one step each.  Readers share the S lock: between the   *)
(* critical sections of the bucket manager, where a bucket is fetched, and *)
(* their look at its records, other readers may fetch and evict.           *)
(*                                                                         *)
(* `manager' is the table with its bucket manager: n, p and size are those *)
(* of TableMetadata; chains[b + 1] holds the Bucket objects of chain b,    *)
(* and detached those of a chain that a split or a merge took out;         *)
(* occupied is overflow_bucket_status_, as the set of its bits; primary    *)
(* and overflow are the two files, per slot, and header is the trailer of  *)
(* the primary file.                                                       *)
(***************************************************************************)
EXTENDS Integers, FiniteSets, Sequences, SequencesExt, FiniteSetsExt

CONSTANTS
  Keys, Values, Expiring, Absent, Expired, Hash, BucketCapacity, MinBucketCount,
  CacheSize,   \* bucket_cache_size_, which is compared with a number of buckets
  Readers,     \* the threads that look keys up
  None         \* no overflow bucket; no header

ASSUME CacheAssumption == CacheSize \in Nat \ {0} /\ None \notin Nat

VARIABLES
  manager,
  readers,   \* per reader, where it is in getValue
  expired,   \* the keys whose latest record's time has passed, be it still there or not
  spoiled,   \* observer: the table was once closed with a stale header
  table,     \* observer: the table that cache and files stand for
  found      \* observer: what a lookup in `table' finds

vars == <<manager, readers, expired, spoiled, table, found>>

Table == INSTANCE LinearHashTable

-----------------------------------------------------------------------------
(***************************************************************************)
(* Buckets and their places: <<c, i>> is the i-th bucket of chain c, where *)
(* Detached is the chain outside the table.  The first bucket of a chain   *)
(* is stored in the primary file, the others in the overflow file.         *)
(***************************************************************************)
Detached == 0

MaxChain == Cardinality(Keys) + 1  \* bound: an overflow bucket is added to full ones only

ChainAt(m, c) == IF c = Detached THEN m.detached ELSE m.chains[c]

WithChain(m, c, chain) ==
  IF c = Detached THEN [m EXCEPT !.detached = chain] ELSE [m EXCEPT !.chains[c] = chain]

BucketAt(m, place) == ChainAt(m, place[1])[place[2]]

Places(m) ==
  UNION {{<<c, i>> : i \in DOMAIN ChainAt(m, c)} : c \in Detached..Len(m.chains)}

loaded(m) == {place \in Places(m) : BucketAt(m, place).loaded}

NewBucket(slot) == [slot |-> slot, dirty |-> TRUE, loaded |-> TRUE, records |-> <<>>]

unloaded_bucket(slot) == [slot |-> slot, dirty |-> FALSE, loaded |-> FALSE, records |-> <<>>]

\* Mutant of Changed: the bucket is not marked as changed.
Changed_clean(bucket, records) == [bucket EXCEPT !.records = records]

Changed(bucket, records) == [bucket EXCEPT !.records = records, !.dirty = TRUE]

overflow_index(chain, i) == IF i = Len(chain) THEN None ELSE chain[i + 1].slot

-----------------------------------------------------------------------------
(***************************************************************************)
(* Writing back.  flush() drops every cached bucket that is not locked,    *)
(* and writes those with changes; if it wrote any, it writes the metadata  *)
(* behind the last primary bucket and cuts both files.                     *)
(***************************************************************************)
Header(m) ==
  [n |-> m.n, p |-> m.p, size |-> m.size, count |-> Len(m.chains), occupied |-> m.occupied]

flush_table_metadata(m) ==
  [m EXCEPT !.header = Header(m),
            !.primary = Restrict(@, {s \in DOMAIN @ : s < Len(m.chains)}),
            !.overflow = Restrict(@, {s \in DOMAIN @ : \E o \in m.occupied : s <= o})]

Write(file, m, places) ==
  [s \in DOMAIN file \union {BucketAt(m, place).slot : place \in places} |->
     IF \E place \in places : BucketAt(m, place).slot = s
     THEN LET place == CHOOSE q \in places : BucketAt(m, q).slot = s
          IN [records |-> BucketAt(m, place).records,
              next |-> overflow_index(ChainAt(m, place[1]), place[2])]
     ELSE file[s]]

\* A sequence with Op(i) in place of each element.
Mapped(sequence, Op(_)) ==
  FoldLeftDomain(LAMBDA prefix, i : Append(prefix, Op(i)), <<>>, sequence)

Dropped(m, places) ==
  LET Unloaded(c) ==
        Mapped(ChainAt(m, c),
               LAMBDA i : IF <<c, i>> \in places
                          THEN unloaded_bucket(ChainAt(m, c)[i].slot) ELSE ChainAt(m, c)[i])
  IN [m EXCEPT !.chains = Mapped(@, Unloaded), !.detached = Unloaded(Detached)]

Written(m, places) ==
  [m EXCEPT !.primary = Write(@, m, {place \in places : place[2] = 1}),
            !.overflow = Write(@, m, {place \in places : place[2] # 1})]

Flushed(m, victims) ==
  LET changed == {place \in victims : BucketAt(m, place).dirty}
  IN IF changed = {} THEN Dropped(m, victims)
     ELSE flush_table_metadata(Dropped(Written(m, changed), victims))

flush(m, locked) == Flushed(m, loaded(m) \ locked)

Evict(m, locked) == IF Cardinality(loaded(m)) > CacheSize THEN flush(m, locked) ELSE m

(***************************************************************************)
(* load(): a bucket that is not in the cache is read from its file, with   *)
(* the bucket chained off it if that is not known yet.  It is locked while *)
(* others make room for it.                                                *)
(***************************************************************************)
\* The bytes of a hole in a file are zeros; CleanBucketsStored says that none is read.
Hole == [records |-> <<>>, next |-> 0]

Stored(m, i, slot) ==
  LET file == IF i = 1 THEN m.primary ELSE m.overflow
  IN IF slot \in DOMAIN file THEN file[slot] ELSE Hole

Read(m, c, i, stored) ==
  LET chain == ChainAt(m, c)
      rest == IF i = Len(chain) /\ stored.next # None THEN <<unloaded_bucket(stored.next)>> ELSE <<>>
  IN WithChain(m, c, [chain EXCEPT ![i].loaded = TRUE, ![i].records = stored.records] \o rest)

\* Mutant of load: the bucket is not locked while others are evicted.
load_unlocked(m, c, i, locked) ==
  IF ChainAt(m, c)[i].loaded THEN m
  ELSE Evict(Read(m, c, i, Stored(m, i, ChainAt(m, c)[i].slot)), locked)

load(m, c, i, locked) ==
  IF ChainAt(m, c)[i].loaded THEN m
  ELSE Evict(Read(m, c, i, Stored(m, i, ChainAt(m, c)[i].slot)), locked \union {<<c, i>>})

-----------------------------------------------------------------------------
(***************************************************************************)
(* Buckets that come and go.                                               *)
(***************************************************************************)
FreeSlot(m) == Min({s \in 0..Cardinality(m.occupied) : s \notin m.occupied})

\* Mutant of create_overflow: the bucket that gets an overflow is not marked as changed.
create_overflow_cleanParent(m, c, locked) ==
  LET slot == FreeSlot(m)
      last == Len(ChainAt(m, c))
  IN Evict(WithChain([m EXCEPT !.occupied = @ \union {slot}], c,
                     Append(ChainAt(m, c), NewBucket(slot))),
           locked \union {<<c, last>>, <<c, last + 1>>})

create_overflow(m, c, locked) ==
  LET slot == FreeSlot(m)
      last == Len(ChainAt(m, c))
      chain == [Append(ChainAt(m, c), NewBucket(slot)) EXCEPT ![last].dirty = TRUE]
  IN Evict(WithChain([m EXCEPT !.occupied = @ \union {slot}], c, chain),
           locked \union {<<c, last>>, <<c, last + 1>>})

grow(m, locked) ==
  LET count == Len(m.chains)
  IN Evict([m EXCEPT !.chains = Append(@, <<NewBucket(count)>>)],
           locked \union {<<count + 1, 1>>})

\* Mutant of discard: the overflow slot stays taken.
discard_keepsSlot(m, i) == [m EXCEPT !.detached[i].loaded = FALSE]

\* A discarded bucket leaves the cache, and its overflow slot is free again.
discard(m, i) ==
  [m EXCEPT !.detached[i].loaded = FALSE,
            !.occupied = IF i = 1 THEN @ ELSE @ \ {m.detached[i].slot}]

-----------------------------------------------------------------------------
(***************************************************************************)
(* Walking down a chain, bucket by bucket, each fetched in its turn, until *)
(* one stops the walk; `at' is its index, or 0 at the end of the chain.    *)
(***************************************************************************)
Visited(m, c, i, Stops(_)) ==
  [manager |-> m, at |-> IF Stops(ChainAt(m, c)[i].records) THEN i ELSE 0]

Walk(m, c, locked, Stops(_)) ==
  LET walk[i \in 0..MaxChain] ==
        IF i = 0 THEN [manager |-> m, at |-> 0]
        ELSE LET before == walk[i - 1]
             IN IF before.at # 0 \/ i > Len(ChainAt(before.manager, c)) THEN before
                ELSE Visited(load(before.manager, c, i, locked), c, i, Stops)
  IN walk[MaxChain]

ChainOf(m, key) == Table!calculate_bucket_chain(m, key) + 1

find_internal(m, key) ==
  Walk(m, ChainOf(m, key), {}, LAMBDA records : Table!IndexIn(records, key) # 0)

LastBucket(m, c) == [manager |-> m, at |-> Len(m.chains[c])]

WithRoom(walked, c, locked) ==
  IF walked.at # 0 THEN walked
  ELSE LastBucket(create_overflow(walked.manager, c, locked), c)

Inserted(roomy, c, record) ==
  [roomy.manager EXCEPT !.chains[c][roomy.at] = Changed(@, Append(@.records, record))]

insert_internal(m, record, locked) ==
  LET c == ChainOf(m, record.key)
      walked == Walk(m, c, locked, LAMBDA records : Len(records) # BucketCapacity)
  IN Inserted(WithRoom(walked, c, locked), c, record)

(***************************************************************************)
(* Moving the records of the detached chain back into the table; each of   *)
(* its buckets is locked while its records are read.                       *)
(***************************************************************************)
MoveRecords(m, i, held) ==
  FoldLeft(LAMBDA u, record : insert_internal(u, record, held), m, m.detached[i].records)

DrainBucket(m, i, locked) ==
  LET held == locked \union {<<Detached, i>>}
  IN discard(MoveRecords(load(m, Detached, i, held), i, held), i)

\* Mutant of Drain: the overflow buckets are left out.
Drain_firstOnly(m, locked) == [DrainBucket(m, 1, locked) EXCEPT !.detached = <<>>]

Drain(m, locked) ==
  LET drained[i \in 0..MaxChain] ==
        IF i = 0 THEN m
        ELSE LET u == drained[i - 1]
             IN IF i > Len(u.detached) THEN u ELSE DrainBucket(u, i, locked)
  IN [drained[MaxChain] EXCEPT !.detached = <<>>]

(***************************************************************************)
(* A turn of rebalance_split: the bucket to be split is fetched and locked *)
(* for the turn, and so is the one that replaces it.                       *)
(***************************************************************************)
Swapped(m, c) ==
  [m EXCEPT !.detached = m.chains[c], !.chains[c] = <<NewBucket(c - 1)>>]

Split(m) ==
  LET old == m.p + 1
      outside == {<<Detached, 1>>, <<old, 1>>}
      split == grow(Evict(Swapped(load(m, old, 1, {}), old), outside), outside)
  IN Drain(Table!NextLevel(split), outside)

Merge(m) ==
  Drain(Table!PreviousLevel([m EXCEPT !.detached = Last(m.chains), !.chains = Front(@)]), {})

MaxTurns(m) == Len(m.chains) + m.size

rebalance_split(m) ==
  LET turn[i \in 0..MaxTurns(m)] ==
        IF i = 0 THEN m
        ELSE LET u == turn[i - 1] IN IF Table!IsOverloaded(u) THEN Split(u) ELSE u
  IN turn[MaxTurns(m)]

rebalance_merge(m) ==
  LET turn[i \in 0..MaxTurns(m)] ==
        IF i = 0 THEN m
        ELSE LET u == turn[i - 1] IN IF Table!CanMerge(u) THEN Merge(u) ELSE u
  IN turn[MaxTurns(m)]

-----------------------------------------------------------------------------
(***************************************************************************)
(* insert and remove, as in LinearHashTable.  `gone' are the keys of the   *)
(* expired records.                                                        *)
(***************************************************************************)
InsertAbsent(m, c, record, gone) ==
  LET purged == SelectInSeq(m.chains[c][1].records, LAMBDA old : old.key \in gone)
      room == [m EXCEPT !.chains[c][1] = Changed(@, RemoveAt(@.records, purged))]
  IN IF purged = 0
     THEN rebalance_split([insert_internal(m, record, {}) EXCEPT !.size = @ + 1])
     ELSE insert_internal(room, record, {})

insert(m, record, gone) ==
  LET c == ChainOf(m, record.key)
      looked == find_internal(m, record.key).manager
  IN InsertAbsent(load(looked, c, 1, {}), c, record, gone)

RemoveFound(looked, c, key) ==
  IF looked.at = 0 THEN looked.manager
  ELSE rebalance_merge(
         [looked.manager EXCEPT
            !.chains[c][looked.at] =
              Changed(@, RemoveAt(@.records, Table!IndexIn(@.records, key))),
            !.size = @ - 1])

remove(m, key) == RemoveFound(find_internal(m, key), ChainOf(m, key), key)

RemoveContained(looked, key) ==
  IF looked.at = 0 THEN looked.manager ELSE remove(looked.manager, key)

(***************************************************************************)
(* A table over two files: empty ones, or those of an earlier table.       *)
(***************************************************************************)
NewTable ==
  [n |-> MinBucketCount, p |-> 0, size |-> 0, chains |-> <<>>, detached |-> <<>>,
   occupied |-> {}, primary |-> <<>>, overflow |-> <<>>, header |-> None]

\* A table that is opened knows of its primary buckets only; \o makes the function a sequence.
SavedChains(count) == [c \in 1..count |-> <<unloaded_bucket(c - 1)>>] \o <<>>

\* Mutant of initialize: the size is not restored.
initialize_forgetsSize(m) ==
  LET grown[i \in 0..MinBucketCount] == IF i = 0 THEN m ELSE grow(grown[i - 1], {})
      saved == m.header
  IN IF saved = None THEN grown[MinBucketCount]
     ELSE [m EXCEPT !.n = saved.n, !.p = saved.p, !.occupied = saved.occupied,
                    !.chains = SavedChains(saved.count)]

initialize(m) ==
  LET grown[i \in 0..MinBucketCount] == IF i = 0 THEN m ELSE grow(grown[i - 1], {})
      saved == m.header
  IN IF saved = None THEN grown[MinBucketCount]
     ELSE [m EXCEPT !.n = saved.n, !.p = saved.p, !.size = saved.size,
                    !.occupied = saved.occupied,
                    !.chains = SavedChains(saved.count)]

-----------------------------------------------------------------------------
(***************************************************************************)
(* What cache and files stand for: each chain with the buckets that only   *)
(* the files know of, and the records of each bucket.                      *)
(***************************************************************************)
WholeChain(m, c) ==
  LET known[j \in 0..MaxChain] ==
        IF j = 0 THEN m.chains[c]
        ELSE LET chain == known[j - 1]
                 next == Stored(m, Len(chain), Last(chain).slot).next
             IN IF Last(chain).loaded \/ next = None THEN chain
                ELSE Append(chain, unloaded_bucket(next))
  IN known[MaxChain]

Contents(m, c, gone) ==
  LET chain == WholeChain(m, c)
      Records(i) == IF chain[i].loaded THEN chain[i].records
                    ELSE Stored(m, i, chain[i].slot).records
      AsOfNow(record) == IF record.key \in gone THEN [record EXCEPT !.value = Expired] ELSE record
  IN [i \in DOMAIN chain |-> [j \in DOMAIN Records(i) |-> AsOfNow(Records(i)[j])]]

View(m, gone) ==
  [n |-> m.n, p |-> m.p, size |-> m.size,
   chains |-> [c \in DOMAIN m.chains |-> Contents(m, c, gone)]]

-----------------------------------------------------------------------------
Idle == [phase |-> "idle"]

Init ==
  /\ manager = initialize(NewTable)
  /\ readers = [r \in Readers |-> Idle]
  /\ expired = {}
  /\ spoiled = FALSE
  /\ table = View(manager, expired)
  /\ found = Table!Lookups(table)

\* The X lock of the storage, or that of the root of the virtual storage.
Exclusive == \A r \in Readers : readers[r] = Idle

putValue(key, value) ==
  LET record == [key |-> key, value |-> value]
      removed == RemoveContained(find_internal(manager, key), key)
  IN /\ Exclusive
     /\ manager' = insert(removed, record, expired \ {key})
     /\ expired' = expired \ {key}
     /\ table' = View(manager', expired')
     /\ UNCHANGED <<readers, spoiled>>

deleteValue(key) ==
  /\ Exclusive
  /\ manager' = RemoveContained(find_internal(manager, key), key)
  /\ table' = View(manager', expired)
  /\ UNCHANGED <<readers, expired, spoiled>>

Expire(key) ==
  /\ found[key] \in Expiring
  /\ expired' = expired \union {key}
  /\ table' = View(manager, expired')
  /\ UNCHANGED <<manager, readers, spoiled>>

(***************************************************************************)
(* flush() writes the metadata only if it wrote a bucket.  A merge may     *)
(* have taken the last changed bucket out of the table; then the header,   *)
(* and the buckets behind it, are those of an earlier table, maybe of one  *)
(* in the middle of a split or a merge.                                    *)
(***************************************************************************)
HeaderStale ==
  /\ \A place \in Places(manager) : ~BucketAt(manager, place).dirty
  /\ manager.header # Header(manager)

(***************************************************************************)
(* The storage is destroyed, which flushes its table, and created again.   *)
(***************************************************************************)
Reopened(closed) ==
  initialize([NewTable EXCEPT !.primary = closed.primary,
                              !.overflow = closed.overflow,
                              !.header = closed.header])

Reopen ==
  /\ Exclusive
  /\ manager' = Reopened(flush(manager, {}))
  /\ table' = View(manager', expired)
  /\ spoiled' = (spoiled \/ HeaderStale)
  /\ UNCHANGED <<readers, expired>>

(***************************************************************************)
(* getValue.  The walk of find_internal fetches a bucket under the mutex   *)
(* of the bucket manager, and then looks at the records without it.  The   *)
(* record that it finds is fetched and copied in the same way.             *)
(***************************************************************************)
getValue(r, key) ==
  /\ readers[r] = Idle
  /\ readers' = [readers EXCEPT ![r] =
       [phase |-> "fetch", key |-> key, chain |-> ChainOf(manager, key), at |-> 1, index |-> 0]]
  /\ UNCHANGED <<manager, expired, spoiled, table>>

Fetch(r) ==
  LET call == readers[r]
  IN /\ call.phase = "fetch"
     /\ manager' = load(manager, call.chain, call.at, {})
     /\ readers' = [readers EXCEPT ![r].phase = IF call.index = 0 THEN "scan" ELSE "copy"]
     /\ table' = View(manager', expired)
     /\ UNCHANGED <<expired, spoiled>>

Answered(call, answer) == [phase |-> "return", key |-> call.key, answer |-> answer]

Scan(r) ==
  LET call == readers[r]
      chain == manager.chains[call.chain]
      index == Table!IndexIn(chain[call.at].records, call.key)
  IN /\ call.phase = "scan"
     /\ readers' = [readers EXCEPT ![r] =
          IF index # 0 THEN [call EXCEPT !.phase = "fetch", !.index = index]
          ELSE IF call.at < Len(chain) THEN [call EXCEPT !.phase = "fetch", !.at = @ + 1]
          ELSE Answered(call, Absent)]
     /\ UNCHANGED <<manager, expired, spoiled, table>>

\* A record that another reader evicted in the meantime is read from freed memory.
Copy(r) ==
  LET call == readers[r]
      records == manager.chains[call.chain][call.at].records
      copies == IF call.index \in DOMAIN records THEN {records[call.index].value} ELSE Values
  IN /\ call.phase = "copy"
     /\ \E value \in copies :
          readers' = [readers EXCEPT ![r] =
            Answered(call, IF call.key \in expired THEN Absent ELSE value)]
     /\ UNCHANGED <<manager, expired, spoiled, table>>

Return(r) ==
  /\ readers[r].phase = "return"
  /\ readers' = [readers EXCEPT ![r] = Idle]
  /\ UNCHANGED <<manager, expired, spoiled, table>>

Next ==
  /\ \/ \E key \in Keys :
          \/ \E value \in Values : putValue(key, value)
          \/ deleteValue(key)
          \/ Expire(key)
          \/ \E r \in Readers : getValue(r, key)
     \/ Reopen
     \/ \E r \in Readers : Fetch(r) \/ Scan(r) \/ Copy(r) \/ Return(r)
  /\ found' = Table!Lookups(table')

Spec == Init /\ [][Next]_vars

-----------------------------------------------------------------------------
(***************************************************************************)
(* No bucket, in the table or out of it, exceeds its place in the file.    *)
(***************************************************************************)
TypeOK ==
  \A place \in Places(manager) :
    /\ BucketAt(manager, place).slot \in Nat
    /\ BucketAt(manager, place).dirty \in BOOLEAN
    /\ Len(BucketAt(manager, place).records) <= BucketCapacity

(***************************************************************************)
(* The free list and the links agree, through splits, merges, evictions    *)
(* and reopenings: an overflow slot is taken if, and only if, exactly one  *)
(* bucket of the table, cached or known to the files alone, lives there.   *)
(* This, and all that follows, ends with a table closed under a stale      *)
(* header: what is opened then may be the middle of a split.               *)
(***************************************************************************)
FreeListExact ==
  LET overflows ==
        UNION {{<<c, i>> : i \in 2..Len(WholeChain(manager, c))} : c \in DOMAIN manager.chains}
  IN ~spoiled =>
     /\ manager.occupied = {WholeChain(manager, place[1])[place[2]].slot : place \in overflows}
     /\ Cardinality(manager.occupied) = Cardinality(overflows)

(***************************************************************************)
(* An eviction may drop a bucket that is not marked as changed: the file   *)
(* has its records, and the slot of its overflow bucket.                   *)
(***************************************************************************)
CleanBucketsStored ==
  ~spoiled => \A place \in Places(manager) :
    LET bucket == BucketAt(manager, place)
        chain == ChainAt(manager, place[1])
        stored == Stored(manager, place[2], bucket.slot)
    IN ~bucket.dirty =>
         /\ bucket.slot \in DOMAIN (IF place[2] = 1 THEN manager.primary ELSE manager.overflow)
         /\ bucket.loaded => stored.records = bucket.records
         /\ bucket.loaded \/ place[2] < Len(chain) =>
              stored.next = overflow_index(chain, place[2])

(***************************************************************************)
(* getValue returns what the table holds under the key, or held when the   *)
(* call began if its record expired since, although it fetches its buckets *)
(* one by one and each may evict the one before.                           *)
(***************************************************************************)
ReadersAnswerRight ==
  ~spoiled => \A r \in Readers :
    readers[r].phase = "return" =>
      LET record == found[readers[r].key]
      IN readers[r].answer \in IF record = Expired THEN {Absent} \union Expiring ELSE {record}

(***************************************************************************)
(* The invariants of LinearHashTable hold of cache and files together,     *)
(* also after the table was closed and opened again.                       *)
(***************************************************************************)
TableSound ==
  ~spoiled =>
    /\ TypeOK
    /\ Table!BucketsMatchLevel /\ Table!RecordsInTheirChain /\ Table!SizeMatchesRecords

(***************************************************************************)
(* Cache and files implement the hash table of LinearHashTable, chain by   *)
(* chain and bucket by bucket, whatever is fetched and evicted on the way. *)
(* With ReopenKeepsTable, and the map that LinearHashTable implements,     *)
(* this makes the storage a map over any number of openings.               *)
(***************************************************************************)
ImplementsTable ==
  Table!Init /\ [][~spoiled => Table!Next \/ Reopen]_<<table, found>>

(***************************************************************************)
(* Closing and opening the table changes nothing, unless the header is     *)
(* stale.                                                                  *)
(***************************************************************************)
ReopenKeepsTable == [][Reopen /\ ~spoiled' => table' = table]_vars

(***************************************************************************)
(* Closing and opening a storage keeps its records: what was put is there, *)
(* and what was deleted is not.                                            *)
(***************************************************************************)
ReopenKeepsRecords == [][Reopen => found' = found]_vars
=============================================================================
