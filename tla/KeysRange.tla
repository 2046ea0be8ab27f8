----------------------------- MODULE KeysRange ------------------------------
(***************************************************************************)
(* VirtualStorage::getKeysRange, of one thread over the storages of a      *)
(* node.  The lock of the node keeps the storages in place for the call.   *)
(* Each storage is locked for one question at a time: its size, some of    *)
(* its keys, its size again.  Other threads put and delete, and records    *)
(* expire, between any two questions.                                      *)
(*                                                                         *)
(* size_t is a number below Word.  vector::reserve throws when it is asked *)
(* for more than MaxReserve elements.                                      *)
(***************************************************************************)
EXTENDS HashTable

CONSTANTS
  KeysAt,         \* per storage of the node, the keys that clients put there
  Requests,       \* the calls' offsets and numbers of keys, as pairs
  Word,
  MaxReserve

\* A storage has fewer keys than a vector may hold: each takes room in its file.
ASSUME KeysRangeAssumption ==
  /\ KeysAt \in Seq(SUBSET Keys) /\ KeysAt # <<>>
  /\ {Word, MaxReserve} \subseteq Nat /\ MaxReserve < Word
  /\ \A i \in DOMAIN KeysAt : IsFiniteSet(KeysAt[i]) /\ Cardinality(KeysAt[i]) <= MaxReserve
  /\ Requests \subseteq (0..Word - 1) \X (0..Word - 1)

VARIABLES
  storages,   \* storages[i] is the hash table of node->storages[i - 1]
  call,       \* the locals of the call
  changes,    \* observer: the changes since the call began; above MaxChanges all alike
  lasting     \* observer: the keys that could be listed all along since then, for one change

vars == <<storages, call, changes, lasting>>

Storages == DOMAIN KeysAt

MaxChanges == 2  \* bound of the observer, not of the changes

-----------------------------------------------------------------------------
Idle == [phase |-> "idle"]

\* node->storages is read in order; a storage behind the last one ends both loops.
InNode(c) == c.storage \in Storages

keysLeft(c) == c.count - Len(c.result)

(***************************************************************************)
(* The conditions of the two loops, the first of which skips indexFrom     *)
(* keys.  Between them space is reserved for the result.                   *)
(***************************************************************************)
Turn(c) ==
  [c EXCEPT !.phase =
     IF InNode(c) /\ c.indicesToSkip > 0 THEN "size"
     ELSE IF c.count > MaxReserve THEN "throw"
     ELSE IF InNode(c) /\ keysLeft(c) > 0 THEN "size"
     ELSE "return"]

Wanted(c) == IF c.indicesToSkip > 0 THEN c.indicesToSkip ELSE keysLeft(c)

\* Mutant of keysToRead: the caller's number is not compared with the rest of the storage.
keysToRead_unbounded(c, size) == Wanted(c)

\* Mutant of keysToRead: the difference is signed.
keysToRead_signed(c, size) == Min({Wanted(c), size - c.storageKeyIndex})

\* The difference is one of size_t.
keysToRead(c, size) == Min({Wanted(c), (size - c.storageKeyIndex) % Word})

\* Mutant of ListKey: a key of two storages is listed twice.
ListKey_repeats(c, key) ==
  [c EXCEPT !.result = Append(@, key), !.excludeKeys = @ \union {key}]

\* A key is listed unless an earlier storage or the skipped part had it.
ListKey(c, key) ==
  IF key \in c.excludeKeys THEN c
  ELSE [c EXCEPT !.result = Append(@, key), !.excludeKeys = @ \union {key}]

ListKeys(c, keys) ==
  LET done[i \in 0..Len(keys)] == IF i = 0 THEN c ELSE ListKey(done[i - 1], keys[i])
  IN done[Len(keys)]

\* Mutant of SkipKeys: skipped keys are not remembered.
SkipKeys_forgets(c, keys) == [c EXCEPT !.indicesToSkip = @ - Len(keys)]

SkipKeys(c, keys) ==
  [c EXCEPT !.excludeKeys = @ \union ToSet(keys), !.indicesToSkip = @ - Len(keys)]

\* Mutant of TakeKeys: the index moves by the keys that came.
TakeKeys_byReturned(c, keys) ==
  [(IF c.indicesToSkip > 0 THEN SkipKeys(c, keys) ELSE ListKeys(c, keys))
     EXCEPT !.storageKeyIndex = (@ + Len(keys)) % Word]

TakeKeys(c, keys) ==
  [(IF c.indicesToSkip > 0 THEN SkipKeys(c, keys) ELSE ListKeys(c, keys))
     EXCEPT !.storageKeyIndex = (@ + c.keysToRead) % Word]

\* Mutant of NextStorage: the storage is left without a look at its size.
NextStorage_always(c, size) == [c EXCEPT !.storage = @ + 1, !.storageKeyIndex = 0]

NextStorage(c, size) ==
  IF c.storageKeyIndex >= size THEN [c EXCEPT !.storage = @ + 1, !.storageKeyIndex = 0] ELSE c

-----------------------------------------------------------------------------
Listable(tables) == UNION {ToSet(ListableKeys(tables[i])) : i \in Storages}

Init ==
  /\ storages = [i \in Storages |-> NewTable]
  /\ call = Idle
  /\ changes = 0
  /\ lasting = {}

getKeysRange_call(from, count) ==
  /\ call = Idle
  /\ call' = Turn([phase |-> "call", from |-> from, count |-> count, indicesToSkip |-> from,
                   storage |-> 1, storageKeyIndex |-> 0, keysToRead |-> 0,
                   excludeKeys |-> {}, result |-> <<>>])
  /\ changes' = 0
  /\ lasting' = Listable(storages)
  /\ UNCHANGED storages

getSize ==
  /\ call.phase = "size"
  /\ call' = [call EXCEPT !.phase = "keys",
                          !.keysToRead = keysToRead(call, storages[call.storage].size)]
  /\ UNCHANGED <<storages, changes, lasting>>

\* The storage reserves space for keysToRead keys before it looks for them.
getKeysRange_storage ==
  LET keys == getKeysRange(storages[call.storage], call.storageKeyIndex, call.keysToRead)
  IN /\ call.phase = "keys"
     /\ call' = IF call.keysToRead > MaxReserve THEN [call EXCEPT !.phase = "throw"]
                ELSE [TakeKeys(call, keys) EXCEPT !.phase = "again"]
     /\ UNCHANGED <<storages, changes, lasting>>

getSize_again ==
  /\ call.phase = "again"
  /\ call' = Turn(NextStorage(call, storages[call.storage].size))
  /\ UNCHANGED <<storages, changes, lasting>>

\* The caller takes the keys, or catches the exception.
Return ==
  /\ call.phase \in {"return", "throw"}
  /\ call' = Idle
  /\ changes' = 0
  /\ lasting' = {}
  /\ UNCHANGED storages

-----------------------------------------------------------------------------
(***************************************************************************)
(* What other threads, and the clock, do to a storage.                     *)
(***************************************************************************)
Observe ==
  IF call = Idle THEN UNCHANGED <<changes, lasting>>
  ELSE /\ changes' = Min({changes + 1, MaxChanges})
       /\ lasting' = IF changes = 0 THEN lasting \intersect Listable(storages') ELSE {}

putValue(i, key, value) ==
  /\ storages' = [storages EXCEPT ![i] = insert(remove(@, key), key, value)]
  /\ Observe
  /\ UNCHANGED call

deleteValue(i, key) ==
  /\ contains(storages[i], key)
  /\ storages' = [storages EXCEPT ![i] = remove(@, key)]
  /\ Observe
  /\ UNCHANGED call

Expire(i, key) ==
  \E place \in Places(storages[i]) :
    /\ RecordAt(storages[i], place).key = key
    /\ RecordAt(storages[i], place).value \in Expiring
    /\ storages' =
         [storages EXCEPT ![i].chains[place[1]][place[2]][place[3]].value = Expired]
    /\ Observe
    /\ UNCHANGED call

Change ==
  \E i \in Storages : \E key \in KeysAt[i] :
    \/ \E value \in Values : putValue(i, key, value)
    \/ deleteValue(i, key)
    \/ Expire(i, key)

CallStep == getSize \/ getKeysRange_storage \/ getSize_again \/ Return

Next ==
  \/ \E request \in Requests : getKeysRange_call(request[1], request[2])
  \/ CallStep
  \/ Change

(***************************************************************************)
(* A thread in a call is run again; nobody has to start one.               *)
(***************************************************************************)
Spec == Init /\ [][Next]_vars /\ WF_vars(CallStep)

-----------------------------------------------------------------------------
(***************************************************************************)
(* The locals of a call have their types: a wrapped difference stays in    *)
(* size_t, and the storage index passes the end by one at most.            *)
(***************************************************************************)
TypeOK ==
  call # Idle =>
    /\ call.indicesToSkip \in 0..call.from
    /\ call.storage \in 1..Len(KeysAt) + 1
    /\ call.storageKeyIndex \in 0..Word - 1 /\ call.keysToRead \in 0..Word - 1
    /\ call.excludeKeys \subseteq Keys

(***************************************************************************)
(* Whatever other threads do meanwhile, and although getSize() may have    *)
(* fallen below the index so that the difference wraps, the caller gets no *)
(* more keys than it asked for, and no key twice.                          *)
(***************************************************************************)
ResultInBounds ==
  call.phase = "return" =>
    /\ Len(call.result) <= call.count
    /\ IsInjective(call.result)

(***************************************************************************)
(* A call that nothing disturbs returns a page of the storages' lists, one *)
(* after the other: it passes over the first `from' entries, and lists the *)
(* next `count' keys which it has not met before.                          *)
(***************************************************************************)
Page(from, count) ==
  LET lists == FlattenSeq([i \in Storages |-> ListableKeys(storages[i])])
      fresh == {i \in DOMAIN lists : i > from /\ \A j \in 1..i - 1 : lists[j] # lists[i]}
      Nth(n) == CHOOSE i \in fresh : Cardinality({j \in fresh : j <= i}) = n
  IN [n \in 1..Min({count, Cardinality(fresh)}) |-> lists[Nth(n)]]

QuietCallExact ==
  call.phase = "return" /\ changes = 0 => call.result = Page(call.from, call.count)

\* How many keys the storages before the i-th, and it, list at most.
Room[i \in 0..Len(KeysAt)] == IF i = 0 THEN 0 ELSE Room[i - 1] + Cardinality(KeysAt[i])

(***************************************************************************)
(* One change by another thread costs a call for all keys of all storages  *)
(* no key that could be listed before and after it: what a put adds behind *)
(* the size that was read first is found in another turn of the loop.  (A  *)
(* call for fewer keys may read a storage in several parts, and a delete   *)
(* between two moves keys in front of the index.)                          *)
(***************************************************************************)
OneChangeLosesNothing ==
  call.phase = "return" /\ changes <= 1 /\ call.from = 0 /\ call.count >= Room[Len(KeysAt)] =>
    lasting \subseteq ToSet(call.result)

(***************************************************************************)
(* An exception means that more keys were asked for than a vector can      *)
(* hold, or that an offset was, and the storage shrank under the call.     *)
(***************************************************************************)
ThrowsOnHugeRequests ==
  call.phase = "throw" =>
    \/ call.count > MaxReserve
    \/ call.from > MaxReserve /\ changes > 0

(***************************************************************************)
(* A call returns unless other threads change the storages for ever,       *)
(* though storages list fewer keys than their sizes promise.               *)
(***************************************************************************)
CallReturns == []<>(call = Idle) \/ []<><<TRUE>>_storages
=============================================================================
