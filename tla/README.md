# libkvs in TLA+

A formal model of libkvs, a key-value library: clients mount subtrees of
*volumes* (trees of hash tables on disk) into one *virtual storage* and get, put
and delete records by a path and a key, from any number of threads.  The modules
in this directory are translated from the code in `src/`; TLC checks them on
small instances, and TLAPS proves the safety of the lock, of the mount table, of
the client calls' locking and of ranges of keys, and that the hash table is a map, for all instances.

## 1. Inventory

| Part (code) | State | Operations | Hard part | What makes it correct |
|---|---|---|---|---|
| `MGMutex`, `MGLockGuard` | current mode, running list, waiting list | `lock`, its spinning loop, `unlock` | one mode stands for all holders; only the last holder promotes the queue | exclusion, first come first served, nobody waits for ever |
| `LinearHashVolume` | tree of nodes, the storage objects of its nodes, the volume file | constructor, `loadStorage`, `unloadStorage`, `saveNodes` | the file outlives the process; constructors throw half way down the tree | the hierarchy comes back; one object and one pair of files per node |
| `LinearHashStorageRegistry` | open volumes, a reference count per key | `acquireStorage`, `releaseStorage` | the same storage is reached by several mounts | a storage lives exactly as long as a mount needs it |
| `VirtualStorage`, the mount table | virtual nodes with a vector of (storage, priority), mount points, mount ids | `mount`, `unmount`, re-mounting | a mount redoes other mounts; mounts overlap | what is mounted is what was asked for, less what was unmounted |
| `VirtualStorage`, the client calls | none of its own | `getValue`, `putValue`, `deleteValue`, `getKeysRange` | a call takes and gives back many locks | calls are atomic, reach no destroyed storage, return |
| `LinearHashStorage` | its mutex, its hash table | the same four, `hasKey`, `getSize` | replace is remove + insert; records expire | readers never see the middle of a put |
| `LinearHashingTable` (`libs/index-cpp`) | level, split pointer, buckets, overflow chains | `insert`, `remove`, `find`, `getKeysRange`, split, merge | a bucket's chain is walked while it is split or merged | it is a map |
| `FileBucketManager` (same file) | cache of buckets, dirty marks, free list, header, two files | fetch, flush, create and free buckets, open, close | eviction in the middle of a split and under shared locks, flush at close | cache and files together are the table; opening brings it back |
| `Key`, `Value`, `Record`, `Status`, ... | none | accessors | | |
| utilities, load test, example, vendored libraries | | | | |

The parts interact by calls, never by messages.  A client thread calls
`VirtualStorage`, which locks virtual nodes from the root down, each with an
`MGMutex`, then calls storages through raw pointers that the registry handed to
`mount`; a storage locks its own `MGMutex` and uses its hash table.  `mount` and
`unmount` hold the root in mode X from their first line to their last.

## 2. Modules

| Module | Models | Based on |
|---|---|---|
| `MGLock` | an `MGMutex` as a value; `lock` and `unlock` as functions of it | |
| `MGMutex` | one mutex and the threads around it | `MGLock` |
| `MGLock_proofs`, `MGMutex_proofs` | theorems | the two above |
| `SequenceLemmas` | lemmas on sequences, positions and cardinalities | library theorems |
| `Paths` | paths, the strings made of them, prefixes | |
| `StorageRegistry` | registry and volumes as a value, with their operations | `Paths` |
| `MountTable` | `mount`, `unmount`, re-mounting, failures, restarts | `StorageRegistry` |
| `MountTable_proofs` | theorems on both | the two above, `SequenceLemmas` |
| `VirtualStorage` | all calls but `getKeysRange`, interleaved lock by lock | `MGLock`, `StorageRegistry`, instance of `MountTable_proofs` (`MountTable` with its theorems) |
| `VirtualStorage_proofs` | theorems | `VirtualStorage`, `MGLock_proofs` |
| `AtomicStore` | what a client is promised: calls that happen at one instant | |
| `SingleStorageNode` | `VirtualStorage` implements `AtomicStore` at a node with one storage | `VirtualStorage`, instance of `AtomicStore` |
| `HashTable` | a `LinearHashingTable` as a value; `insert`, `remove`, `find`, `getKeysRange`, splits and merges as functions of it | |
| `LinearHashTable` | the hash table of a storage, with expirations | `HashTable`, instance of `ExpiringMap` |
| `HashTable_proofs` | lemmas on the table as a value | `HashTable`, `SequenceLemmas` |
| `LinearHashTable_proofs` | theorems | `LinearHashTable`, `HashTable_proofs` |
| `ExpiringMap` | what a storage promises: a map whose expired records may be dropped | |
| `PersistentTable` | the same table over `FileBucketManager`: cache, files, readers, closing and opening | instance of `LinearHashTable` |
| `KeysRange` | `getKeysRange` of one thread over the storages of a node, among changes by others | `HashTable` |
| `KeysRange_proofs` | theorems | `KeysRange`, `HashTable_proofs` |
| `MCMGMutex`, `MCMountTable`, `MCVirtualStorage`, `MCLinearHashTable`, `MCPersistentTable`, `MCKeysRange` | values of the constants | |

**The mutex.**  All of `lock`'s and `unlock`'s accesses to the mutex are made
under its `std::mutex`, so each critical section is one action: `Lock` (the top
of `lock`), `Poll` (the turn of the spinning loop that finds the caller among the
running threads; the other turns change nothing) and `Unlock`.  The running list is
only searched by thread id and tested for emptiness, and is a set; the waiting
list is a sequence.  `m_currentType` is kept as the code keeps it: it is the mode
of the thread that entered first, even after that thread has left.

**The registry and the volumes.**  A storage, and the pointer to it, is named by
volume and path.  `registry.volumes`, `trees`, `loaded`, `counters`, `registered` and `files`
stand for `m_volumes`, the `TreeNode`s below each volume's `m_rootNode`, the tree nodes with a
storage object, `m_storageCounters`, the storages in `m_storageKeys`, and the nodes listed in the volume
files.  Opening a volume empties its file, as the `trunc` flag does.  Paths are
sequences of components, the empty one among them, and components and volume paths are short sequences of atoms, which is
just enough to tell string prefixes (`startsWith`), path prefixes, the
underscores in names of data files and the colon in the registry's keys apart.
`Key` is the string `volume:path`, and counters are kept by it: the volumes `v` and `v:w` share one
counter for their nodes `w:A` and `A`, and only the storage that came first is registered.
`UnloadTarget` is what `releaseStorage` reads in a key: what is before its first colon for the volume, and what
is behind it, split at every `/` (`Split`), for the node.  For a volume without a colon `Split` undoes `PathString`, and the
target is the storage itself.

**The mount table.**  `nodeStorages` is the `storages` vector of every virtual
node that exists, `mountPoints` joins `m_mountPoints` with the `MountPoint`
records, `volumeNodes` is `m_volumesToNodeMountPointsMap`, from which nothing is
ever removed.  `Mount` is the whole of `mount`: acquire, re-mount in any order the
unordered maps may iterate in, create the path, insert.  `failure` records that an
assertion of the code fails, or that a null pointer is read, which is where the process ends.  Exceptions may leave `mount` from the first
acquisition (`MountThrowsAtAcquire`) or from that of a re-mount
(`MountThrowsAtRemount`), with any prefix-closed part of the subtree's storages
created.

**The client calls.**  A thread takes one `lock` call or one `unlock` call per
step; between them lie the body of `mount` or `unmount` (actions of `MountTable`,
used through an instance), or the body of a `LinearHashStorage` method, of which
`putValue` is two steps because it removes and then inserts.  A storage's contents
are a function from keys to records; a record with a time to live may turn
`Expired` at any moment, which `getValue` and `hasKey` take for absent and
`deleteValue` does not.  Contents survive the storage object, whose destructor writes the
cached buckets.  An insert may drop an expired record of another key, as the hash
table does when it meets one.

**The hash table.**  `table` holds `n`, `p` and `size` of the metadata and
`bucket_chains_`, each chain a sequence of buckets and each bucket a sequence of
records.  A storage's X lock makes `putValue` and `deleteValue` one step each, with
their splits and merges.  `digest & (n - 1)` is `Hash[key] % n`, because `n` is a
power of two (`BucketsMatchLevel`).  `Split` and `Merge` are one turn of the loops of
`rebalance_split` and `rebalance_merge`, and `ReinsertBucket` one turn of the loops inside them.
`IsPowerOfTwo` says that every divisor above 1 is even.  `found` is not state of the code: it is
what `find` answers for each key, and the refinement mapping to `ExpiringMap`.  The
load factors are constants of the module, since `LinearHashStorage` does not pass
`HashTableParams::minLoadFactor` and `maxLoadFactor` on and the table keeps its defaults.

**Cache and files.**  `manager` is the table as the code holds it: each `Bucket` object
with its slot in a file, whether it is in the cache, whether it is dirty, and its
records; the set of taken overflow slots; the two files as functions from slots to what
is stored there, and the header.  `load`, `flush`, `discard`, `create_overflow` and `grow` take the
bucket manager's steps in the code's order, each with the places of the buckets that
`FlushLock`s protect at that point, so that a put with a split evicts and fetches
buckets in its middle exactly where the code does.  The overflow link of a bucket survives
its eviction and is read from the file only when there is none.  Writers are
one step, under X; a reader takes one step per critical section of the bucket manager and one
per look at a bucket's records (`Fetch`, `Scan`, `Copy`), because `Bucket::data` returns a reference that
is used after the mutex is given back.  `Reopen` is the destructor of the table and the
constructor of another over the same files.  `table`, `found` and `spoiled` are observers: `View` joins
cache and files into a table of `LinearHashTable`, and is the refinement mapping; `spoiled`
remembers that the table was once closed with a stale header.

**Ranges of keys.**  `call` holds the locals of `getKeysRange`.  One turn of either
loop is three steps, `getSize`, `getKeysRange` of the storage and `getSize` again,
since each takes the storage's lock for itself; puts, deletes and expirations of
other threads come between any two.  Differences of `size_t` are taken modulo
`Word`, and `vector::reserve` throws above `MaxReserve`.  `changes` and `lasting` are observers:
how many changes happened since the call began (two and more are not told apart), and which keys
could be listed all along.

## 3. Runs

| Run | Result | Question |
|---|---|---|
| `mgmutex_node` | passes | four threads, modes IS, IX, X (what virtual nodes see): types, exclusion, no lost wake-up, lists, first come first served, no starvation |
| `mount_table` | passes | every order of up to three mounts out of eight, with unmounts, an exception of each kind, a restart, a volume that cannot be opened, one with a colon and one whose key is the same: the books balance |
| `mount_priorities` | violated | does an entry keep the priority its mount asked for, when other mounts of the storage go? |
| `mount_hierarchy` | violated | does a volume remember its nodes? |
| `mount_files` | violated | does each node have files of its own? |
| `storage_single` | passes | three threads and all calls at a node with one storage: linearizable, memory-safe, every call returns |
| `storage_layers` | violated | with two storages at a node, can a key be in both? |
| `hash_table` | passes | six keys, two values, buckets of two records: is the table a map, through every sequence of puts, deletes and expirations? |
| `bucket_files` | passes | three keys, buckets of one record, a cache of two buckets, one reader: are cache and files the table of `LinearHashTable`, and does it survive closing? |
| `bucket_readers` | violated | do two readers of one storage get the right answers? |
| `bucket_reopen` | violated | are the records the same after closing and opening? |
| `keys_range` | passes | two storages with a key in common, four requests, changes at any moment: are pages right, bounded, free of repetitions, and does the call return? |

The runs of the tables compose.  `bucket_files` shows that cache and files take the steps of
`LinearHashTable` (`ImplementsTable`) and that opening keeps the table (`ReopenKeepsTable`);
`hash_table` shows that `LinearHashTable` is a map with expiring records (`ImplementsMap`);
`storage_single` uses a storage as such a map.  Two conditions remain of the chain:
the table was never closed with a stale header (`bucket_reopen`; all properties of `bucket_files` say
`~spoiled`), and there are no two readers at once (`bucket_readers`).

**Bounds.**

* `MaxMounts` bounds the mount ids a process hands out, `MaxThrows` the exceptions
  of each kind, `MaxRestarts` the restarts.  Three mounts suffice for a mount that is
  re-mounted by a later one while a third shares its storages; the options have a
  subtree, a node inside it mounted where the subtree already shows it, a grandchild
  that makes the first two re-mount, a sibling whose name has the first one's as a
  string prefix, a second volume at the same node, a volume that cannot be opened, a volume `v:w/x`, and the
  node `w/x:A` of `v`, whose key is that of the former's `A`.  The subtree and the node inside it ask for different priorities.
* Three threads are the least with which two conflicting holders and a waiter occur,
  four add a waiter behind it, and the theorems cover the rest.
* One key and two values are enough for the client calls, whose steps treat keys
  independently but for dropped expired records, which `hash_table` covers.
* Six records in buckets of two take the table from one bucket to four, over two
  doublings of `n` and back; digests 0, 16 and 4 make a chain with an overflow
  bucket, which every split of bucket 0 empties and fills again.
* The three keys of the runs of `PersistentTable` have digests 3, 7 and 1, so that a
  chain can have three buckets, and splits and merges take it apart and join it again.
  `NotSpoiled` ends a behaviour of `bucket_files` where the table has been closed with a stale header, behind
  which the properties promise nothing.
* `CacheSize` is what the code compares the number of cached buckets with.  It is two in all runs of
  `PersistentTable`, so that a put with a split evicts buckets several times
  over; the code passes `bucketCacheSizeBytes` on as that number, so that a real
  cache is full only after that many buckets (at least `maxRecordSizeBytes`, 102400 unless it is changed).  An eviction drops every bucket that is not locked,
  whatever the size, so that a greater cache evicts less often and not differently.
  `MaxChain` and `MaxTurns` are what the functions that stand for loops are
  defined up to; no chain and no loop is longer (of `MaxTurns` this is proved, see
  *The hash table* in section 4).
* In `keys_range`, `Word` is 8 and `MaxReserve` 5: sizes stay below both, and a wrapped
  difference is above.  One storage has keys with buckets of their own, the other a
  chain with an overflow bucket; the requests ask for everything, for a page
  in the middle, for an offset behind the end and for more than a vector can hold.
  `MaxChanges` bounds an observer, not the changes.

Deadlock is not checked in the runs of `MountTable`: with the bound on mounts reached,
nothing unmounted and no restart left, or with the process dead, the model stops on purpose.

**Fairness.**  `MGMutex` assumes that a thread that spins in `lock` and may
proceed does so at some time, since the loop yields and the scheduler of the operating
system runs it again, and that a holder unlocks, since `MGLockGuard` unlocks at
the end of a scope.  `VirtualStorage` assumes weak fairness of each thread's next step in its call:
the calls contain loops over finite vectors and no waiting but the locks.
`KeysRange` assumes it of the steps of the call, whose locks are granted (`EveryLockGranted`), and
of nothing else.  Nothing obliges a thread to start a call.  The loops of `getKeysRange` follow
sizes that others may keep changing, so that `CallReturns` promises an end only if the changes do not go on for ever.

**What the violated runs show.**

* `mount_priorities`: `unmount` erases the first entry with the right pointer, not the
  entry of the mount it undoes.  With the subtree `A` mounted at `X` with priority 1 and its node `A/B` at `X/B` with
  priority 0, unmounting the second leaves `X/B` an entry of priority 0 only, though the mount that is left asked for 1.
  What holds in spite of it is `NoPriorityGained`: since the vector is sorted, the first entry is the highest, so that
  an unmount may put a storage behind where its mounts want it, never ahead.
* `mount_hierarchy`: the volume file is opened with `trunc` and then read.
* `mount_files`: the nodes `A/B` and `A_B` of a volume use the same two files.
* `storage_layers`: `putValue` visits storages one lock at a time.  A put finds the key in the
  second storage and gives its lock back; before it writes there, another thread deletes the key, and a second put finds
  it in no storage and writes to the first.  The key is then in two storages, where an older value comes back once the newer is deleted.
* `bucket_readers`: a lookup fetches a bucket under the bucket manager's mutex and
  searches it afterwards, without a flush lock.  Readers share the S lock of the
  storage, and another one whose fetch fills the cache (of two buckets) evicts the bucket in
  between: a record that is there is not found, or read from freed memory.  With
  one reader (`bucket_files`) every answer is right; that run keeps writers out by the lock and says
  nothing about readers among themselves.
* `bucket_reopen`: `flush` writes the header only if it wrote a dirty bucket.  A delete
  dirties the bucket of its record; if the merge that follows takes that bucket
  out of the table and no other one changes, closing writes nothing, and
  opening finds the table of before the delete.  `HeaderStale` describes these
  states, and `ReopenKeepsTable` shows that they are the only ones that closing spoils.
  What is opened then need not be any table at all: evictions write headers too, also in the
  middle of a split or a merge.  The stale header may count a bucket that the table did not yet have, or take an overflow slot
  for occupied that a merge was about to free, so that records lie outside their chain, and later changes lose
  records that nobody touched.  Hence `spoiled`: nothing is promised from then on.

**What the passing runs show besides.**

* With fewer than five buckets, one merge takes the load from below the minimum to above
  the maximum, where it stays until the next insert that counts.  `LoadInBounds`
  therefore says that either bound is only ever passed by undoing one bucket, never further.
* An exception of a storage constructor in the middle of a re-mount leaves a mount
  listed that is down; its unmount fails an assertion (or, without assertions,
  erases the end iterator).
* `releaseStorage` cuts a key at its first colon.  If that is inside the volume path, no
  volume is found when the last reference goes, and an assertion fails.  With `v:w/x` mounted first, the node `w/x:A` of `v`
  finds its key counted and is not registered; once the first mount is undone, releasing the second finds no
  key, and an assertion fails for a volume whose path has no colon.  These are the cases that `AssertionsHold`
  excepts; TLC finds them when it is stated without, and it says that nothing else fails an assertion.
* After an exception in a re-mount the books no longer balance, and
  `CountsMatchMounts`, `EntriesMatchMounts` and `NoPriorityGained` say nothing; `NoDanglingStorage` and `AssertionsHold` still do.
* An exception of the first acquisition leaves storages loaded that nobody counts, and nodes that
  no mount shows.  `NoLeakedStorage` and `WholeSubtreeMounted` are about behaviours without one.
* The mutex compares a newcomer with the mode of the first holder only, so that IS,
  IX and S would all be let in together.  No mutex of the library sees such a mix: virtual nodes
  see IS, IX and X, storages S and X.  The theorem `MutualExclusion` says which sets of modes are safe.
* When `getSize` falls below the index between two turns, the number of keys to read
  wraps around.  The result stays in bounds and free of repetitions all the same, but
  the storage reserves space for the wrapped number and throws if the caller asked to skip as
  many (`ThrowsOnHugeRequests`).
* `getKeysRange` of the table goes through primary buckets and not through their overflow
  buckets, so that keys which `getValue` finds are listed at no offset.  `QuietCallExact` is about
  the keys that a table lists, `ListableKeys`.
* Offsets of `getKeysRange` count a key once for each storage that lists it, the result
  lists it once.  With a key in two storages the page that begins where the
  last one ended may repeat keys; `Page` in `KeysRange` says exactly which.
* A mount that finds no new node re-mounts all the same, so that it can change the
  order of two mounts of equal priority, and a volume that cannot be opened makes the code
  read a null pointer.  The model does both; no property is about them alone.

## 4. Proofs

Every theorem holds for all values of the constants that satisfy the named assumptions of the
modules, which say what the types of the code say: `ModesAssumption` (no caller locks with
the null mode), `VolumesAssumption` (volume paths are strings), `MountOptionsAssumption` and
`CallsAssumption` (paths of mounts and calls are not empty, priorities are integers, volumes
are volumes).  The bounds `MaxMounts`, `MaxThrows` and `MaxRestarts` are any numbers.  Stronger hypotheses are
stated by the theorem that needs them.

### The mutex

`MGLock_proofs` holds facts about one mutex value, for any set of threads and any
set of modes without the null mode:

1. `PromotedCountProperty`: the promotion loop takes at least one waiter, only
   waiters that suit the first, and stops at one that does not.
2. `PromoteOrderly`, `AfterLockOrderly`, `AfterUnlockOrderly`: the operations
   preserve `Orderly`, and put exactly the caller on, or off, a list.
3. `AfterUnlockInOrder`: promotion does not pass anybody in the queue.

`Orderly` is the core of the inductive invariant.  None of the checked
invariants is inductive by itself: `NoLostWakeup` and `HoldersCompatible` need
to know where the current mode comes from.  `AdmittedByFirst` says it: it is the
mode of some node *first*, which may have left, and every other holder was compatible with
it.  That is also why exclusion needs a hypothesis: two holders other than *first*
were never compared with each other, and are compatible only if modes that are compatible with a
third one always are (`ModesCompose`).

| Theorem of `MGMutex_proofs` | Statement |
|---|---|
| `TypeCorrect` | `Spec => []TypeOK` |
| `ListsCorrect` | `Spec => []ListsMatchThreads` |
| `NoWakeupLost` | `Spec => []NoLostWakeup` |
| `MutualExclusion` | `ModesCompose(Modes) => (Spec => []HoldersCompatible)` |
| `LibraryMutualExclusion` | the same for the two sets of modes the library uses, without hypothesis |
| `Fifo` | `Spec => NoOvertaking` |

All rest on `Invariance` (`Spec => []IInv`), with one step per action, each by a
lemma of `MGLock_proofs`.

### The mount table

`MountTable_proofs` goes from the strings up: `Split` and `PathString` undo each other, so that two nodes of a volume have two keys,
and a key with no colon in its volume path is read right; then what acquiring and releasing do
to counters, registered and loaded storages and trees, what insertions and erasures do to sorted vectors, the
accounts, and the invariant with one lemma per action.
No theorem but the last two assumes anything of the volume paths.

| Theorem of `MountTable_proofs` | Statement |
|---|---|
| `TypeCorrect` | `Spec => []TypeOK` |
| `Ordered` | `Spec => []PriorityOrder` |
| `CountsRight` | `Spec => []CountsMatchMounts` |
| `EntriesRight` | `Spec => []EntriesMatchMounts` |
| `NothingLeaks` | `Spec => []NoLeakedStorage` |
| `AssertionsSafe` | `Spec => []AssertionsHold` |
| `PrioritiesBounded` | `Spec => []NoPriorityGained` |
| `NothingDangles` | `Spec => []NoDanglingStorage` |
| `SubtreesShown` | `KeysApart => (Spec => []WholeSubtreeMounted)` |
| `TableConfined` | `KeysApart => (Spec => [](IInv /\ Rooted))` |

The inductive invariant `IInv` (`Invariance`) is `Typed /\ Accounts /\ AssertionsHold`.
`Typed` contains that vectors are sorted, without which `upper_bound` finds nothing in particular, and that exactly one
registered storage goes with each counter.
`Accounts` has these books: what the vectors list under a key is counted at least as often (`Covered`) and loaded (`Alive`), a
key is counted once per mount that reaches it (`CountsExact`), a storage is listed at a node once
per mount that brings it there (`EntriesExact`) and never too high (`NoneGained`), and what is loaded is counted (`NoLeak`).
`Covered` and `Alive` alone survive an exception in the middle of
a re-mount, and are what still keeps pointers good then.  All are stated with the storages
that are acquired and not yet listed (`pending`), because a mount re-mounts others between
its own acquisition and its own insertions, in the order in which unordered maps happen to
iterate; `RemountAllFacts` is the induction over these re-mounts, for any order.

Keys that are shared or misread do not endanger pointers, whatever the volume paths.  What `releaseStorage` reads in a
key is a storage with that same key, and it reads it only when the count of the key reaches zero; by `Covered`, no vector then lists any
storage with the key.  What they do cost is said by the properties: an assertion that fails (`AssertionsHold`), and
a storage that is not destroyed (`NoLeakedStorage`, about the storages whose key is read right).

The trees need a hypothesis.  A misread key makes `unloadStorage` create the node it names, which may be below a mounted one and which
no mount then shows.  `KeysApart` excludes just that: the key of a node that one volume's mount asks for is no prefix of
one that another volume's mount asks for.  It holds whenever no volume path has a colon.  Under it
`TreeInv` is inductive: trees are closed under ancestors, hold below the mounted nodes only what options ask for, virtual nodes and
their entries are those that options bring forth (`Rooted`), and every mount shows at its virtual nodes all that its subtree has grown to.

### The client calls

| Theorem of `VirtualStorage_proofs` | Statement |
|---|---|
| `MountsAlone` | `Spec => []MountExclusive` |
| `IteratorsValid` | `Spec => IterationStable` |
| `ImplementsTable` | `Spec => Table!Spec` |
| `PointersGood` | `Spec => []StoragesInUseLoaded` |
| `AccessesSeparate` | `Table!KeysApart => (Spec => []NoConflictingAccess)` |
| `TypeCorrect` | `Table!KeysApart => (Spec => []TypeOK)` |

`IInv` says of the mutex of every node and every storage that it is `Orderly` and that its lists hold
exactly the threads whose calls claim it: a client call claims the nodes
it passed on its path, the root first, and the storage it calls; a mount claims the root.  One step of a
thread touches one mutex, so that the lemmas of `MGLock_proofs` about one mutex value do all the work.
`MountsAlone` follows because whoever holds anything holds the root, and X at the root excludes that.

`ImplementsTable` is a refinement: whatever the clients do between, the table takes the
steps of `MountTable` and no others.  It carries the theorems of `MountTable_proofs` over to the
concurrent system, in particular that what is listed at a node is loaded.  With `AllReached` (every node a thread
has passed exists, its iterator is within the vector, its pointer is that of the entry the iterator is at) this
gives `PointersGood`, and `AccessesSeparate`, since both threads are then on the lists of one mutex.

### The hash table

| Theorem of `LinearHashTable_proofs` | Statement |
|---|---|
| `TableIsMap` | `Spec => ImplementsMap` |
| `RecordsCorrect` | `Spec => []RecordsInTheirChain` |
| `SizeCorrect` | `Spec => []SizeMatchesRecords` |
| `LoadCorrect` | `Spec => []LoadInBounds` |
| `BucketsCorrect` | `Spec => []BucketsMatchLevel` |
| `TypeCorrect` | `Spec => []TypeOK` |

They hold for any keys, values and digests, any bucket capacity above 0 and any power of two as the
minimum of buckets (`HashTableAssumption`).  The invariant is `Good(table)` with `found = Lookups(table)`.
`Good` has three parts:

* `Sound`: `n` and `p` are a `Level` that has as many chains as the table; each chain has
  only records that belong to it, no key twice, and no bucket above its capacity.  `Level` says that `n` is the minimum
  times a power of two.  That is more than `BucketsMatchLevel` says, and needed: a merge at `p = 0` halves `n`, and
  that the half is no smaller than the minimum follows only from how `n` came to be.
* `Counted`: `size` is the cardinality of `Contents`, the set of all records.
* `LoadOK`: the load bounds, which are inductive: a split only happens above the maximum and a merge only below the
  minimum, so that the load after one is known from the load before.

The arithmetic is in two facts: `h % 2n` is `h % n` or `h % n + n` (`DoubleMod`), from which `HomeAfterSplit` and
`HomeAfterMerge` follow: a split or a merge sends elsewhere only keys of the one bucket it takes out.
These facts and the lemmas above them are in `HashTable_proofs`, for `LinearHashTable` and `KeysRange` both.
Each operation has a lemma that says what it does to `Contents`: `ChainWith`, `insert_internal` and `Reinsert` add
their records, `Split` and `Merge` change nothing (`SplitFacts`, `MergeFacts`), `insert` adds one record and
drops at most an expired one, `remove` drops the record of its key.  Since no key has two
records, `Contents` decides every lookup (`LookupFacts`), and the refinement follows case by case.

The loops are functions over their turns.  The library's induction theorems cannot be used here, so each has a
lemma that says what its rows are (`BucketRows`, `ChainRows`, `SplitRows`, `MergeRows`), by the lemma `UpTo`, which is the
induction over an interval for a set instead of a formula.  `RebalanceSplitFacts` and `RebalanceMergeFacts`
show that `MaxTurns` turns are enough: when they are done, the loop's condition is false.
For the split this needs that one insert puts the load at most at twice what the buckets hold.

### Ranges of keys

| Theorem of `KeysRange_proofs` | Statement |
|---|---|
| `ResultBounded` | `Spec => []ResultInBounds` |
| `ThrowsRight` | `Spec => []ThrowsOnHugeRequests` |
| `QuietCallsExact` | `Spec => []QuietCallExact` |
| `OneChangeHarmless` | `Spec => []OneChangeLosesNothing` |
| `TypeCorrect` | `Spec => []TypeOK` |

They hold for any number of storages, any requests and any changes, under `KeysRangeAssumption`: numbers of keys are
those of a `size_t`, and a storage has fewer keys than a vector can hold.  Three invariants build on each other:

* `IInv` (`CallSound` and `TablesGood`): the keys in the result are remembered, so that none is
  listed again; nothing is listed before all is skipped; and while nothing has changed, the index does not run ahead of the
  size, so that the difference does not wrap and no reservation throws.  With changes it may, and the
  bounds hold because the number of keys to read is at most what the caller still wants.
* `QInv`: without changes, the call has come to a `Position` in the lists of all storages, one after the other, and
  its result is what `Exact` says of the entries before it.  `Page` is that of the last position.
* `OInv`: a call for all keys, with at most one change.  Before it (`Calm`), each storage is read as a whole;
  after it (`Stirred`), every key that stayed is in the result or still ahead of the index.  `Roomy` says that the
  result always has room for what is ahead.

All three stand on `Good` of the storages' tables, which every put, delete and expiration keeps, and on
`ListableFacts`: the keys a table lists are those of its primary buckets, no more than its size.

The proof of `OneChangeHarmless` failed at first, and rightly: the property had asked for a count of all
keys, where one key in two storages is one key.  A call for so many may read a storage in two parts, and a delete in between
moves keys in front of the index, where they are not listed.  The count must be that of the keys of each storage, added up (`Room`).

### Only model-checked

* `EveryLockGranted`, `EveryCallReturns` and `CallReturns`: liveness is beyond the prover.
* `Linearizable`, the refinement of `AtomicStore`: its mapping chooses the instant of a call
  after the fact, and is given for a node with one storage.
* Everything about `PersistentTable`: its loops over chains of buckets in cache and files, which carry the locked places
  and both files along, would each need the rows and the induction of those of the hash table.  That cache and
  files are the table is shown on the instances of `bucket_files`.
* The violated properties: each is refuted by its run.

## 5. Not modelled, and the plan

* *Bytes*: the format of records, buckets and the JSON file, and with it records that
  are longer than `maxRecordSizeBytes`, the cache's size in bytes, and files reopened
  with another record size.  Buckets and records are abstract values.
* *I/O errors*, after which a bucket that was not written is marked clean, and *crashes*
  between two flushes: neither the code nor its documents promise anything about
  what is left, and nothing repairs it.
* *The lifetime of heap objects inside a call*: `rebalance_split` unlocks a bucket that it
  has already destroyed.
* Directories and random names, the wording of statuses, the load test, the example.
* The vendored libraries other than the hash table (JSON, test framework,
  stack traces, paths, arguments, geometry): they make up nine tenths of the lines
  in the repository and have no part in the library's protocols.
* Hash table parameters: those of the first mount of a node win, and a constructor that
  refuses them is one of the exceptions of the model.
* `MGLockGuard`'s move constructor, which would unlock twice and is never
  called, and `TransientBucketManager`, which nobody uses.

What is left is to prove what `bucket_files` checks: first `FreeListExact` and `CleanBucketsStored`,
then that cache and files implement `LinearHashTable`.
