--------------------------- MODULE VirtualStorage ---------------------------
(***************************************************************************)
(* VirtualStorage under concurrent calls: the operations of MountTable and *)
(* the get, put and delete operations on the LinearHashStorages, run by    *)
(* threads that take the multiple granularity locks of virtual nodes       *)
(* (Node::nodeLock) and of storages (LinearHashStorage::m_storageLock) one *)
(* lock() call, and one unlock() call, at a time.                          *)
(*                                                                         *)
(* The contents of a storage outlive the object: its destructor writes     *)
(* what is cached, and the next object on the same files reads it.         *)
(***************************************************************************)
EXTENDS MGLock, StorageRegistry, Integers, FiniteSets

CONSTANTS
  Threads,
  Keys,
  Values,
  Expiring,      \* the values stored with a time to live that may pass
  Absent,
  Expired,
  Repertoire,    \* per thread, the calls it may make
  MountOptions,
  MaxMounts      \* bound: mounts per process

ASSUME ValuesAssumption ==
  /\ Expiring \subseteq Values
  /\ Absent \notin Values /\ Expired \notin Values /\ Absent # Expired

VARIABLES
  registry, nodeStorages, mountPoints, volumeNodes, mountIdCounter,
  failure, throws, restarts,   \* the mount table
  nodeLock,     \* per virtual node, existing or not, its MGMutex
  storageLock,  \* per storage, its MGMutex
  data,         \* per storage and key, the record
  thread        \* per thread, where it is in its call

\* The table together with what is proved of it.
Table == INSTANCE MountTable_proofs WITH
           UnopenedVolumes <- {}, MaxRestarts <- 0,
           MaxThrows <- [place \in {"acquire", "remount"} |-> 0]

ClientCalls ==
  [kind : {"get", "delete"}, path : Path, key : Keys] \union
  [kind : {"put"}, path : Path, key : Keys, value : Values] \union
  [kind : {"mount"}, options : MountOptions] \union
  [kind : {"unmount"}, id : Nat]

ASSUME CallsAssumption ==
  /\ MaxMounts \in Nat
  /\ \A o \in MountOptions : Table!WellFormed(o)
  /\ \A t \in Threads : Repertoire[t] \subseteq ClientCalls

tableVars == <<registry, nodeStorages, mountPoints, volumeNodes, mountIdCounter,
               failure, throws, restarts>>
vars == <<tableVars, nodeLock, storageLock, data, thread>>

(***************************************************************************)
(* Every virtual node and every storage that the mounts can bring forth.   *)
(***************************************************************************)
VolumePaths(volume) ==
  UNION {NodesTo(o.nodePath) : o \in {q \in MountOptions : q.volume = volume}}

AllStorages == UNION {{Storage(v, path) : path \in VolumePaths(v)} : v \in Volumes}

AllNodes ==
  {<<>>} \union
  UNION {NodesTo(o.mountPath) \union
         {Transplant(path, o.nodePath, o.mountPath) :
            path \in {q \in VolumePaths(o.volume) : IsInSubtree(q, o.nodePath)}} :
         o \in MountOptions}
-----------------------------------------------------------------------------
(***************************************************************************)
(* A thread: `depth' counts the components of the path of the node it has  *)
(* reached, `index' is its position in the `storages' vector of the        *)
(* resolved node, `searching' tells putValue's hasKey round from its write,*)
(* `storage' is the pointer it calls through, `removed' the record that    *)
(* LinearHashStorage::putValue took out, `status' what it will return.     *)
(***************************************************************************)
NoCall == [kind |-> "none"]

IdleThread ==
  [pc |-> "idle", call |-> NoCall, depth |-> 0, index |-> 1, searching |-> FALSE,
   storage |-> Storage(<<>>, <<>>), removed |-> Absent, status |-> "none"]

Kind(t) == thread[t].call.kind

NodeOf(t) ==
  IF Kind(t) \in {"none", "mount", "unmount"} THEN <<>>
  ELSE SubSeq(thread[t].call.path, 1, thread[t].depth)

\* Mutant of NodeMode: mount and unmount announce a write below the root only.
NodeMode_mountIX(kind) ==
  IF kind = "get" THEN "IS" ELSE "IX"

\* Mutant of NodeMode: mount and unmount let readers in.
NodeMode_mountSIX(kind) ==
  CASE kind \in {"mount", "unmount"} -> "SIX"
    [] kind \in {"put", "delete"} -> "IX"
    [] kind = "get" -> "IS"

NodeMode(kind) ==
  CASE kind \in {"mount", "unmount"} -> "X"
    [] kind \in {"put", "delete"} -> "IX"
    [] kind = "get" -> "IS"

\* Mutant of StorageMode: a put shares the storage with readers.
StorageMode_putShared(kind, searching) == IF kind = "delete" THEN "X" ELSE "S"

StorageMode(kind, searching) ==
  IF kind = "get" \/ searching THEN "S" ELSE "X"

Init ==
  /\ Table!Init
  /\ nodeLock = [n \in AllNodes |-> FreeMutex]
  /\ storageLock = [s \in AllStorages |-> FreeMutex]
  /\ data = [s \in AllStorages |-> [k \in Keys |-> Absent]]
  /\ thread = [t \in Threads |-> IdleThread]

Goto(t, pc) == thread' = [thread EXCEPT ![t].pc = pc]

(***************************************************************************)
(* A client call.  The bound on mounts counts those that are under way.    *)
(***************************************************************************)
Call(t) ==
  /\ thread[t].pc = "idle"
  /\ \E call \in Repertoire[t] :
       /\ call.kind = "mount" =>
            mountIdCounter + Cardinality({u \in Threads : Kind(u) = "mount"}) <= MaxMounts
       /\ thread' = [thread EXCEPT ![t] =
            [IdleThread EXCEPT !.pc = "lockNode", !.call = call, !.searching = call.kind = "put"]]
  /\ UNCHANGED <<tableVars, nodeLock, storageLock, data>>

(***************************************************************************)
(* resolveNode(), and the lock of mount() and unmount(): lock the root,    *)
(* then node by node down the path, each in the mode of the operation.     *)
(***************************************************************************)
LockNextNode(t) ==
  /\ thread[t].pc = "lockNode"
  /\ nodeLock' = [nodeLock EXCEPT ![NodeOf(t)] = AfterLock(@, t, NodeMode(Kind(t)))]
  /\ Goto(t, "awaitNode")
  /\ UNCHANGED <<tableVars, storageLock, data>>

\* Mutant of EnterNode: the emptiness of the vector is not looked at.
EnterNode_emptyAsWell(t) ==
  /\ thread[t].pc = "awaitNode"
  /\ Holds(nodeLock[NodeOf(t)], t)
  /\ IF Kind(t) \in {"mount", "unmount"}
     THEN Goto(t, "body")
     ELSE LET path == thread[t].call.path
              depth == thread[t].depth
              atNode == depth = Len(path)
              found == atNode \/ SubSeq(path, 1, depth + 1) \in DOMAIN nodeStorages
          IN thread' = [thread EXCEPT ![t].pc =
                          CASE ~found -> "unlockNode"
                            [] found /\ atNode -> "lockStorage"
                            [] OTHER -> "lockNode",
                        ![t].depth = IF found /\ ~atNode THEN @ + 1 ELSE @,
                        ![t].status = IF found THEN @ ELSE "NodeNotFound"]
  /\ UNCHANGED <<tableVars, nodeLock, storageLock, data>>

EnterNode(t) ==
  /\ thread[t].pc = "awaitNode"
  /\ Holds(nodeLock[NodeOf(t)], t)
  /\ IF Kind(t) \in {"mount", "unmount"}
     THEN Goto(t, "body")
     ELSE LET path == thread[t].call.path
              depth == thread[t].depth
              atNode == depth = Len(path)
              child == SubSeq(path, 1, depth + 1)
              found == IF atNode THEN nodeStorages[path] # <<>> ELSE child \in DOMAIN nodeStorages
          IN thread' = [thread EXCEPT ![t].pc =
                          CASE ~found -> "unlockNode"
                            [] found /\ atNode -> "lockStorage"
                            [] OTHER -> "lockNode",
                        ![t].depth = IF found /\ ~atNode THEN @ + 1 ELSE @,
                        ![t].status = IF found THEN @ ELSE "NodeNotFound"]
  /\ UNCHANGED <<tableVars, nodeLock, storageLock, data>>

(***************************************************************************)
(* The bodies of mount() and unmount(), under the X lock of the root.      *)
(***************************************************************************)
MountBody(t) ==
  /\ thread[t].pc = "body"
  /\ Kind(t) = "mount"
  /\ Table!Mount(thread[t].call.options)
  /\ thread' = [thread EXCEPT ![t].pc = "unlockNode", ![t].status = "Ok"]
  /\ UNCHANGED <<nodeLock, storageLock, data>>

UnmountBody(t) ==
  /\ thread[t].pc = "body"
  /\ Kind(t) = "unmount"
  /\ LET live == thread[t].call.id \in DOMAIN mountPoints
     IN /\ IF live THEN Table!Unmount(thread[t].call.id) ELSE UNCHANGED tableVars
        /\ thread' = [thread EXCEPT ![t].pc = "unlockNode",
                                    ![t].status = IF live THEN "Ok" ELSE "InvalidMountId"]
  /\ UNCHANGED <<nodeLock, storageLock, data>>

(***************************************************************************)
(* The loop over the resolved node's storages: each turn calls one method  *)
(* of LinearHashStorage, which locks and unlocks the storage.              *)
(***************************************************************************)
LockStorage(t) ==
  /\ thread[t].pc = "lockStorage"
  /\ LET storage == nodeStorages[NodeOf(t)][thread[t].index].storage
     IN /\ storageLock' = [storageLock EXCEPT ![storage] =
             AfterLock(@, t, StorageMode(Kind(t), thread[t].searching))]
        /\ thread' = [thread EXCEPT ![t].pc = "awaitStorage", ![t].storage = storage]
  /\ UNCHANGED <<tableVars, nodeLock, data>>

Entered(t) == thread[t].pc = "awaitStorage" /\ Holds(storageLock[thread[t].storage], t)

RecordFor(t) == data[thread[t].storage][thread[t].call.key]

Write(t, record) == data' = [data EXCEPT ![thread[t].storage][thread[t].call.key] = record]

\* Mutant of GetValue: an expired record is still found.
GetValue_ignoresExpiration(t) ==
  /\ Entered(t)
  /\ Kind(t) = "get"
  /\ thread' = [thread EXCEPT ![t].pc = "unlockStorage",
                  ![t].status = IF RecordFor(t) = Absent THEN "KeyNotFound" ELSE RecordFor(t)]
  /\ UNCHANGED <<tableVars, nodeLock, storageLock, data>>

(***************************************************************************)
(* LinearHashStorage::getValue: a record that has expired is not found.    *)
(***************************************************************************)
GetValue(t) ==
  /\ Entered(t)
  /\ Kind(t) = "get"
  /\ thread' = [thread EXCEPT ![t].pc = "unlockStorage",
                  ![t].status = IF RecordFor(t) \in Values THEN RecordFor(t) ELSE "KeyNotFound"]
  /\ UNCHANGED <<tableVars, nodeLock, storageLock, data>>

(***************************************************************************)
(* LinearHashStorage::hasKey, the first round of putValue: on a hit the    *)
(* write goes to this storage.                                             *)
(***************************************************************************)
HasKey(t) ==
  /\ Entered(t)
  /\ thread[t].searching
  /\ thread' = [thread EXCEPT ![t].pc = "unlockStorage",
                              ![t].searching = RecordFor(t) \notin Values]
  /\ UNCHANGED <<tableVars, nodeLock, storageLock, data>>

(***************************************************************************)
(* LinearHashStorage::putValue removes the record of the key, expired or   *)
(* not, and inserts the new one.  The table's insert may first drop an     *)
(* expired record that it meets in the same bucket (see LinearHashTable).  *)
(***************************************************************************)
RemoveOld(t) ==
  /\ Entered(t)
  /\ Kind(t) = "put" /\ ~thread[t].searching
  /\ thread' = [thread EXCEPT ![t].pc = "insert", ![t].removed = RecordFor(t)]
  /\ Write(t, Absent)
  /\ UNCHANGED <<tableVars, nodeLock, storageLock>>

Droppable(t) ==
  {k \in Keys \ {thread[t].call.key} : data[thread[t].storage][k] = Expired}

InsertNew(t) ==
  /\ thread[t].pc = "insert"
  /\ \E dropped \in {{}} \union {{k} : k \in Droppable(t)} :
       data' = [data EXCEPT ![thread[t].storage] =
                  [k \in Keys |-> IF k = thread[t].call.key THEN thread[t].call.value
                                  ELSE IF k \in dropped THEN Absent ELSE @[k]]]
  /\ thread' = [thread EXCEPT ![t].pc = "unlockStorage", ![t].status = "Ok"]
  /\ UNCHANGED <<tableVars, nodeLock, storageLock>>

(***************************************************************************)
(* LinearHashStorage::deleteValue does not look at the expiration time.    *)
(***************************************************************************)
DeleteValue(t) ==
  /\ Entered(t)
  /\ Kind(t) = "delete"
  /\ Write(t, Absent)
  /\ thread' = [thread EXCEPT ![t].pc = "unlockStorage",
                  ![t].status = IF RecordFor(t) = Absent THEN "KeyNotFound" ELSE "Ok"]
  /\ UNCHANGED <<tableVars, nodeLock, storageLock>>

(***************************************************************************)
(* Back in the loop: the operation is over, or goes on to the next storage *)
(* after a miss; putValue that found the key nowhere writes to the front.  *)
(***************************************************************************)
Missed(t) == thread[t].searching \/ thread[t].status = "KeyNotFound"

IsLast(t) == thread[t].index = Len(nodeStorages[NodeOf(t)])

UnlockStorage(t) ==
  /\ thread[t].pc = "unlockStorage"
  /\ storageLock' = [storageLock EXCEPT ![thread[t].storage] = AfterUnlock(@, t)]
  /\ LET th == thread[t]
         next ==
           CASE Missed(t) /\ ~IsLast(t) ->
                  [th EXCEPT !.pc = "lockStorage", !.index = @ + 1, !.status = "none"]
             [] th.searching /\ IsLast(t) ->
                  [th EXCEPT !.pc = "lockStorage", !.index = 1, !.searching = FALSE]
             [] Kind(t) = "put" /\ ~th.searching /\ th.status = "none" ->
                  [th EXCEPT !.pc = "lockStorage"]
             [] OTHER -> [th EXCEPT !.pc = "unlockNode"]
     IN thread' = [thread EXCEPT ![t] = next]
  /\ UNCHANGED <<tableVars, nodeLock, data>>

\* Mutant of UnlockNode: the lock of the root is never given back.
UnlockNode_keepsRoot(t) ==
  /\ thread[t].pc = "unlockNode"
  /\ nodeLock' = IF thread[t].depth = 0 THEN nodeLock
                 ELSE [nodeLock EXCEPT ![NodeOf(t)] = AfterUnlock(@, t)]
  /\ thread' = IF thread[t].depth = 0 THEN [thread EXCEPT ![t] = IdleThread]
               ELSE [thread EXCEPT ![t].depth = @ - 1]
  /\ UNCHANGED <<tableVars, storageLock, data>>

(***************************************************************************)
(* ~MGMultiLockGuard() unlocks the nodes in reverse order; the call        *)
(* returns after the root.                                                 *)
(***************************************************************************)
UnlockNode(t) ==
  /\ thread[t].pc = "unlockNode"
  /\ nodeLock' = [nodeLock EXCEPT ![NodeOf(t)] = AfterUnlock(@, t)]
  /\ thread' = IF thread[t].depth = 0 THEN [thread EXCEPT ![t] = IdleThread]
               ELSE [thread EXCEPT ![t].depth = @ - 1]
  /\ UNCHANGED <<tableVars, storageLock, data>>

(***************************************************************************)
(* The clock passes the expiration time of a record.                       *)
(***************************************************************************)
Expire(storage, key) ==
  /\ data[storage][key] \in Expiring
  /\ data' = [data EXCEPT ![storage][key] = Expired]
  /\ UNCHANGED <<tableVars, nodeLock, storageLock, thread>>

Step(t) ==
  \/ LockNextNode(t) \/ EnterNode(t) \/ UnlockNode(t)
  \/ MountBody(t) \/ UnmountBody(t)
  \/ LockStorage(t) \/ UnlockStorage(t)
  \/ GetValue(t) \/ HasKey(t) \/ RemoveOld(t) \/ InsertNew(t) \/ DeleteValue(t)

Next ==
  \/ \E t \in Threads : Call(t) \/ Step(t)
  \/ \E storage \in AllStorages, key \in Keys : Expire(storage, key)

Spec == Init /\ [][Next]_vars

(***************************************************************************)
(* A thread that can take the next step of its call is scheduled: calls    *)
(* contain no waiting but the locks.                                       *)
(***************************************************************************)
FairSpec == Spec /\ \A t \in Threads : WF_vars(Step(t))
-----------------------------------------------------------------------------
PCs == {"idle", "lockNode", "awaitNode", "body", "lockStorage", "awaitStorage",
        "insert", "unlockStorage", "unlockNode"}

InsideStorage(t) == thread[t].pc \in {"insert", "unlockStorage"}

UsesStorage(t) == InsideStorage(t) \/ thread[t].pc = "awaitStorage"

Writes(t) ==
  \/ Kind(t) = "delete"
  \/ Kind(t) = "put" /\ (thread[t].pc = "insert" \/ thread[t].status = "Ok")

AtNode(t) == UsesStorage(t) \/ thread[t].pc = "lockStorage"

(***************************************************************************)
(* Every variable of the threads, locks and records has its type, and the  *)
(* position of a thread in the `storages' vector of its node is one the    *)
(* vector has: a node that was unmounted is empty but still there.         *)
(***************************************************************************)
TypeOK ==
  /\ nodeLock \in [AllNodes -> Mutex(Threads, {"IS", "IX", "X"})]
  /\ storageLock \in [AllStorages -> Mutex(Threads, {"S", "X"})]
  /\ data \in [AllStorages -> [Keys -> Values \union {Absent, Expired}]]
  /\ \A t \in Threads :
       /\ thread[t].pc \in PCs
       /\ thread[t].call \in Repertoire[t] \union {NoCall}
       /\ NodeOf(t) \in AllNodes
       /\ AtNode(t) => thread[t].index \in DOMAIN nodeStorages[NodeOf(t)]
       /\ thread[t].removed \in Values \union {Absent, Expired}

(***************************************************************************)
(* A thread that calls through a storage pointer, or waits inside the      *)
(* storage for its lock, finds the object alive: no unmount or re-mount    *)
(* destroys it meanwhile.                                                  *)
(***************************************************************************)
StoragesInUseLoaded ==
  \A t \in Threads : UsesStorage(t) => thread[t].storage \in registry.loaded

(***************************************************************************)
(* While a thread walks the `storages' vector of a node, nothing inserts   *)
(* into it or erases from it, which would invalidate the iterator.         *)
(***************************************************************************)
IterationStable ==
  [][\A t \in Threads : AtNode(t) => nodeStorages'[NodeOf(t)] = nodeStorages[NodeOf(t)]]_vars

(***************************************************************************)
(* "For mount/unmount operations the virtual storage is locked in X mode   *)
(* so nobody can do anything until mount/unmount is finished" (README): at *)
(* that point no other thread holds a lock of a node or of a storage.      *)
(***************************************************************************)
MountExclusive ==
  \A t, u \in Threads :
    t # u /\ thread[t].pc = "body" =>
      /\ \A n \in AllNodes : ~Holds(nodeLock[n], u)
      /\ \A s \in AllStorages : ~Holds(storageLock[s], u)

(***************************************************************************)
(* Two threads are inside one storage together only if both read: nobody   *)
(* sees the record missing between the two halves of a put.                *)
(***************************************************************************)
NoConflictingAccess ==
  \A t, u \in Threads :
    t # u /\ InsideStorage(t) /\ InsideStorage(u) /\ thread[t].storage = thread[u].storage =>
      ~Writes(t)

(***************************************************************************)
(* Among the storages of a virtual node, at most one holds a live record   *)
(* for a key: putValue looks for the storage that has the key before it    *)
(* writes, so that no record shadows another.  Stated for clients that     *)
(* reach the storages through one virtual node.                            *)
(***************************************************************************)
NoShadowedRecord ==
  \A n \in DOMAIN nodeStorages, k \in Keys :
    \A i, j \in DOMAIN nodeStorages[n] :
      LET r == nodeStorages[n][i].storage
          s == nodeStorages[n][j].storage
      IN data[r][k] \in Values /\ data[s][k] \in Values => r = s

(***************************************************************************)
(* Every call returns: the locks, taken root first and storage last, never *)
(* block a thread for good.                                                *)
(***************************************************************************)
EveryCallReturns == \A t \in Threads : thread[t].pc # "idle" ~> thread[t].pc = "idle"
=============================================================================
