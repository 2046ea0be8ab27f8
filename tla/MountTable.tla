----------------------------- MODULE MountTable -----------------------------
(***************************************************************************)
(* The mount table of VirtualStorage: which storages of which volumes are  *)
(* reachable at which virtual node, in which order.  mount() and unmount() *)
(* hold the X lock of the root node from their first line to their last    *)
(* one, so each is one action here; VirtualStorage.tla interleaves them    *)
(* with the operations that read the table.                                *)
(***************************************************************************)
EXTENDS StorageRegistry, Integers, FiniteSets

CONSTANTS
  MountOptions,    \* the mounts a client may ask for
  UnopenedVolumes, \* the volumes whose volume file cannot be opened
  MaxMounts,       \* bound: mounts per process
  MaxThrows,       \* bound: exceptions, per kind of place they leave
  MaxRestarts      \* bound: restarts of the process

WellFormed(o) ==
  /\ o \in [mountPath : Path, volume : Volumes, nodePath : Path, priority : Int]
  /\ o.mountPath # <<>> /\ o.nodePath # <<>>

ASSUME MountOptionsAssumption == \A o \in MountOptions : WellFormed(o)

ASSUME BoundsAssumption ==
  /\ MaxMounts \in Nat /\ MaxRestarts \in Nat
  /\ MaxThrows \in [{"acquire", "remount"} -> Nat]

VARIABLES
  registry,        \* m_storageRegistry
  nodeStorages,    \* per existing virtual node, its `storages' vector
  mountPoints,     \* per live mount id, the MountPoint and its virtual node
  volumeNodes,     \* m_volumesToNodeMountPointsMap
  mountIdCounter,  \* m_mountIdCounter
  failure,         \* what the process died of: "none", "assertion" or "badAccess"
  throws, restarts \* how often the bounded events happened

vars == <<registry, nodeStorages, mountPoints, volumeNodes, mountIdCounter,
          failure, throws, restarts>>

StartedTable(files) ==
  /\ registry = StartedRegistry(files)
  /\ nodeStorages = [n \in {<<>>} |-> <<>>]
  /\ mountPoints = [id \in {} |-> {}]
  /\ volumeNodes = [v \in Volumes |-> <<>>]
  /\ mountIdCounter = 1

Init ==
  /\ StartedTable([v \in Volumes |-> {}])
  /\ failure = "none"
  /\ throws = [place \in DOMAIN MaxThrows |-> 0]
  /\ restarts = 0
-----------------------------------------------------------------------------
(***************************************************************************)
(* mount(Node&, StorageNode&, int): one entry in each node of the subtree, *)
(* after the entries of the same or a higher priority.  Missing nodes are  *)
(* created.                                                                *)
(***************************************************************************)
Targets(node, storageNode) ==
  {Transplant(path, storageNode.nodePath, node) : path \in storageNode.paths}

SourceOf(target, node, storageNode) ==
  Storage(storageNode.volume, Transplant(target, node, storageNode.nodePath))

\* Mutant of InsertByPriority: new storages go to the end.
InsertByPriority_append(entries, entry) == Append(entries, entry)

InsertByPriority(entries, entry) ==
  LET before == {i \in DOMAIN entries : entries[i].priority >= entry.priority}
  IN InsertAt(entries, Cardinality(before) + 1, entry)

EntriesAt(storages, node) == IF node \in DOMAIN storages THEN storages[node] ELSE <<>>

\* Mutant of MountSubtree: the children are forgotten.
MountSubtree_rootOnly(storages, node, storageNode, priority) ==
  [storages EXCEPT ![node] = InsertByPriority(@,
     [storage |-> Storage(storageNode.volume, storageNode.nodePath), priority |-> priority])]

MountSubtree(storages, node, storageNode, priority) ==
  LET targets == Targets(node, storageNode) IN
  [n \in DOMAIN storages \union targets |->
     IF n \in targets
     THEN InsertByPriority(EntriesAt(storages, n),
            [storage |-> SourceOf(n, node, storageNode), priority |-> priority])
     ELSE storages[n]]

createNodesForPath(storages, path) ==
  [n \in DOMAIN storages \union NodesTo(path) |-> EntriesAt(storages, n)]

(***************************************************************************)
(* unmount(Node&, StorageNode&): releases each storage of the subtree and  *)
(* erases the first entry that holds it, whatever its priority.  The code  *)
(* asserts that there is one.                                              *)
(***************************************************************************)
CanUnmountSubtree(table, node, storageNode) ==
  /\ \A n \in Targets(node, storageNode) :
       \E i \in DOMAIN EntriesAt(table.nodeStorages, n) :
         table.nodeStorages[n][i].storage = SourceOf(n, node, storageNode)
  /\ CanRelease(table.registry, StoragesOf(storageNode))

\* Mutant of UnmountSubtree: all entries of the storage go, not only the first.
UnmountSubtree_erasesAll(table, node, storageNode) ==
  [table EXCEPT
     !.registry = releaseStorages(@, StoragesOf(storageNode)),
     !.nodeStorages = [n \in DOMAIN @ |->
        IF n \in Targets(node, storageNode)
        THEN SelectSeq(@[n], LAMBDA entry : entry.storage # SourceOf(n, node, storageNode))
        ELSE @[n]]]

\* Mutant of UnmountSubtree: the search starts from the back.
UnmountSubtree_erasesLast(table, node, storageNode) ==
  [table EXCEPT
     !.registry = releaseStorages(@, StoragesOf(storageNode)),
     !.nodeStorages = [n \in DOMAIN @ |->
        IF n \in Targets(node, storageNode)
        THEN Reverse(RemoveFirstMatch(Reverse(@[n]),
               LAMBDA entry : entry.storage = SourceOf(n, node, storageNode)))
        ELSE @[n]]]

UnmountSubtree(table, node, storageNode) ==
  [table EXCEPT
     !.registry = releaseStorages(@, StoragesOf(storageNode)),
     !.nodeStorages = [n \in DOMAIN @ |->
        IF n \in Targets(node, storageNode)
        THEN RemoveFirstMatch(@[n],
               LAMBDA entry : entry.storage = SourceOf(n, node, storageNode))
        ELSE @[n]]]

(***************************************************************************)
(* remountNodes(): the mounts to redo are the live ones of the volume whose *)
(* node path is a string prefix of the new one and not equal to it, node   *)
(* by node as m_volumesToNodeMountPointsMap lists them.  Nothing is ever   *)
(* taken off that list, and a node is on it once per mount, so a mount may *)
(* come up more than once.  `order' is the order in which the unordered    *)
(* maps `mountPoints' hand out their entries.                              *)
(***************************************************************************)
IterationOrders ==
  {order \in [1..Cardinality(DOMAIN mountPoints) -> DOMAIN mountPoints] : IsInjective(order)}

RemountEntries(options, order) ==
  LET Affected(id) ==
        LET storageNode == mountPoints[id].storageNode IN
        /\ storageNode.volume = options.volume
        /\ startsWith(options.nodePath, storageNode.nodePath)
        /\ options.nodePath # storageNode.nodePath
      EntriesOf(node) ==
        FlattenSeq([j \in DOMAIN order |->
          IF mountPoints[order[j]].node = node /\ Affected(order[j]) THEN <<order[j]>> ELSE <<>>])
  IN FlattenSeq([i \in DOMAIN volumeNodes[options.volume] |->
                   EntriesOf(volumeNodes[options.volume][i])])

Remount(table, id) ==
  LET mountPoint == table.mountPoints[id] IN
  IF ~table.ok \/ ~CanUnmountSubtree(table, mountPoint.node, mountPoint.storageNode)
  THEN [table EXCEPT !.ok = FALSE]
  ELSE LET unmounted == UnmountSubtree(table, mountPoint.node, mountPoint.storageNode)
           acquired == acquireStorage(unmounted.registry, mountPoint.storageNode.volume,
                                      mountPoint.storageNode.nodePath)
       IN [unmounted EXCEPT
             !.registry = acquired.registry,
             !.mountPoints[id].storageNode = acquired.storageNode,
             !.nodeStorages = MountSubtree(@, mountPoint.node, acquired.storageNode,
                                           mountPoint.priority)]

RemountAll(table, entries) ==
  LET redone[k \in 0..Len(entries)] ==
        IF k = 0 THEN table ELSE Remount(redone[k - 1], entries[k])
  IN redone[Len(entries)]

TableAfter(acquired) ==
  [registry |-> acquired, nodeStorages |-> nodeStorages, mountPoints |-> mountPoints, ok |-> TRUE]
-----------------------------------------------------------------------------
CanMount(options) ==
  /\ failure = "none"
  /\ mountIdCounter <= MaxMounts
  /\ options.volume \notin UnopenedVolumes

(***************************************************************************)
(* mount(const MountOptions&).  The new storages are acquired before the   *)
(* affected mounts are redone.                                             *)
(***************************************************************************)
Mount(options) ==
  /\ CanMount(options)
  /\ \E order \in IterationOrders :
       LET acquired == acquireStorage(registry, options.volume, options.nodePath)
           remounted == RemountAll(TableAfter(acquired.registry), RemountEntries(options, order))
           withPath == createNodesForPath(remounted.nodeStorages, options.mountPath)
       IN IF ~remounted.ok
          THEN /\ failure' = "assertion"
               /\ UNCHANGED <<registry, nodeStorages, mountPoints, volumeNodes, mountIdCounter>>
          ELSE /\ registry' = remounted.registry
               /\ nodeStorages' = MountSubtree(withPath, options.mountPath,
                                               acquired.storageNode, options.priority)
               /\ mountPoints' =
                    [id \in DOMAIN mountPoints \union {mountIdCounter} |->
                       IF id = mountIdCounter
                       THEN [node |-> options.mountPath, storageNode |-> acquired.storageNode,
                             priority |-> options.priority]
                       ELSE remounted.mountPoints[id]]
               /\ volumeNodes' = [volumeNodes EXCEPT ![options.volume] =
                                    Append(@, options.mountPath)]
               /\ mountIdCounter' = mountIdCounter + 1
               /\ UNCHANGED failure
  /\ UNCHANGED <<throws, restarts>>

(***************************************************************************)
(* An exception leaves mount() from the first acquisition.                 *)
(***************************************************************************)
MountThrowsAtAcquire(options) ==
  /\ CanMount(options)
  /\ throws["acquire"] < MaxThrows["acquire"]
  /\ registry' \in ThrownAcquisitions(registry, options.volume, options.nodePath)
  /\ throws' = [throws EXCEPT !["acquire"] = @ + 1]
  /\ UNCHANGED <<nodeStorages, mountPoints, volumeNodes, mountIdCounter, failure, restarts>>

(***************************************************************************)
(* An exception leaves mount() from the acquisition of the k-th mount it   *)
(* redoes, after that mount was taken down.                                *)
(***************************************************************************)
MountThrowsAtRemount(options) ==
  /\ CanMount(options)
  /\ throws["remount"] < MaxThrows["remount"]
  /\ \E order \in IterationOrders :
       LET acquired == acquireStorage(registry, options.volume, options.nodePath)
           entries == RemountEntries(options, order)
       IN \E k \in DOMAIN entries :
            LET before == RemountAll(TableAfter(acquired.registry), SubSeq(entries, 1, k - 1))
                mountPoint == before.mountPoints[entries[k]]
                unmounted == UnmountSubtree(before, mountPoint.node, mountPoint.storageNode)
            IN /\ before.ok
               /\ CanUnmountSubtree(before, mountPoint.node, mountPoint.storageNode)
               /\ registry' \in ThrownAcquisitions(unmounted.registry,
                     mountPoint.storageNode.volume, mountPoint.storageNode.nodePath)
               /\ nodeStorages' = unmounted.nodeStorages
               /\ mountPoints' = unmounted.mountPoints
  /\ throws' = [throws EXCEPT !["remount"] = @ + 1]
  /\ UNCHANGED <<volumeNodes, mountIdCounter, failure, restarts>>

(***************************************************************************)
(* The volume file cannot be opened.  acquireStorage() then builds a       *)
(* StorageAcquisitionResult without a root, and its constructor reads      *)
(* through the null pointer: the build dies there or, when the optimiser   *)
(* has dropped the read with the assertions, reports kVolumeLoadError.     *)
(***************************************************************************)
MountUnopenedVolume(options) ==
  /\ failure = "none"
  /\ options.volume \in UnopenedVolumes
  /\ failure' \in {"none", "badAccess"}
  /\ UNCHANGED <<registry, nodeStorages, mountPoints, volumeNodes, mountIdCounter,
                 throws, restarts>>

(***************************************************************************)
(* unmount(const UnmountOptions&) of a live mount id; any other id is      *)
(* answered kInvalidMountId and changes nothing.                           *)
(***************************************************************************)
Unmount(id) ==
  /\ failure = "none"
  /\ id \in DOMAIN mountPoints
  /\ LET table == TableAfter(registry)
         mountPoint == mountPoints[id]
         unmounted == UnmountSubtree(table, mountPoint.node, mountPoint.storageNode)
     IN IF CanUnmountSubtree(table, mountPoint.node, mountPoint.storageNode)
        THEN /\ registry' = unmounted.registry
             /\ nodeStorages' = unmounted.nodeStorages
             /\ mountPoints' = Restrict(mountPoints, DOMAIN mountPoints \ {id})
             /\ UNCHANGED failure
        ELSE /\ failure' = "assertion"
             /\ UNCHANGED <<registry, nodeStorages, mountPoints>>
  /\ UNCHANGED <<volumeNodes, mountIdCounter, throws, restarts>>

(***************************************************************************)
(* The process ends, in order or not, and another one starts: only the     *)
(* files remain.                                                           *)
(***************************************************************************)
Restart ==
  /\ restarts < MaxRestarts
  /\ registry' = StartedRegistry(registry.files)
  /\ nodeStorages' = [n \in {<<>>} |-> <<>>]
  /\ mountPoints' = [id \in {} |-> {}]
  /\ volumeNodes' = [v \in Volumes |-> <<>>]
  /\ mountIdCounter' = 1
  /\ failure' = "none"
  /\ restarts' = restarts + 1
  /\ UNCHANGED throws

Next ==
  \/ \E options \in MountOptions :
       \/ Mount(options)
       \/ MountThrowsAtAcquire(options)
       \/ MountThrowsAtRemount(options)
       \/ MountUnopenedVolume(options)
  \/ \E id \in DOMAIN mountPoints : Unmount(id)
  \/ Restart

Spec == Init /\ [][Next]_vars
-----------------------------------------------------------------------------
(***************************************************************************)
(* Every variable has its type.                                            *)
(***************************************************************************)
TypeOK ==
  /\ registry.volumes \subseteq Volumes
  /\ registry.loaded \subseteq Storages
  /\ registry.registered \subseteq Storages
  /\ DOMAIN registry.counters = KeysOf(registry.registered)
  /\ \A key \in DOMAIN registry.counters : registry.counters[key] \in Nat \ {0}
  /\ \A n \in DOMAIN nodeStorages :
       nodeStorages[n] \in Seq([storage : Storages, priority : Int])
  /\ DOMAIN mountPoints \subseteq 1..(mountIdCounter - 1)
  /\ \A id \in DOMAIN mountPoints : mountPoints[id].node \in DOMAIN nodeStorages
  /\ \A v \in Volumes : ToSet(volumeNodes[v]) \subseteq DOMAIN nodeStorages
  /\ failure \in {"none", "assertion", "badAccess"}

MountedBy(id) == StoragesOf(mountPoints[id].storageNode)

MountedKeys(id) == KeysOf(MountedBy(id))

Root(id) == Storage(mountPoints[id].storageNode.volume, mountPoints[id].storageNode.nodePath)

InterruptedRemount == throws["remount"] > 0

(***************************************************************************)
(* The reference count of a key is the number of live mounts that reach a  *)
(* storage with that key, whatever mounts, unmounts and re-mounts led      *)
(* there, and even if exceptions left mounts from their first acquisition; *)
(* a key that no live mount reaches has no counter.  A re-mount that an    *)
(* exception leaves half done spoils this.                                 *)
(***************************************************************************)
CountsMatchMounts ==
  ~InterruptedRemount =>
    /\ DOMAIN registry.counters = UNION {MountedKeys(id) : id \in DOMAIN mountPoints}
    /\ \A key \in DOMAIN registry.counters :
         registry.counters[key] = Cardinality({id \in DOMAIN mountPoints : key \in MountedKeys(id)})

(***************************************************************************)
(* No virtual node holds a pointer to a destroyed storage: getValue and    *)
(* the other operations call through every entry of the vector.            *)
(***************************************************************************)
NoDanglingStorage ==
  \A n \in DOMAIN nodeStorages : \A i \in DOMAIN nodeStorages[n] :
    nodeStorages[n][i].storage \in registry.loaded

(***************************************************************************)
(* A storage object lives only as long as a live mount reaches its key:    *)
(* destroying it is what writes its cached buckets to the data files.      *)
(* What leaks is what an exception left behind, and the storages whose     *)
(* keys are cut at a colon of the volume path.                             *)
(***************************************************************************)
NoLeakedStorage ==
  throws["acquire"] = 0 /\ ~InterruptedRemount => \A s \in registry.loaded :
    UnloadTarget(s) # s \/ \E id \in DOMAIN mountPoints : Key(s) \in MountedKeys(id)

Contributes(id, node, storage) ==
  LET mountPoint == mountPoints[id] IN
  /\ node \in Targets(mountPoint.node, mountPoint.storageNode)
  /\ storage = SourceOf(node, mountPoint.node, mountPoint.storageNode)

(***************************************************************************)
(* A virtual node lists a storage once for each live mount that brings the *)
(* storage there: an unmount takes away what its mount brought, even when  *)
(* several mounts overlap and some were re-mounted in between, unless an   *)
(* exception left a re-mount half done.                                    *)
(***************************************************************************)
EntriesMatchMounts ==
  ~InterruptedRemount => \A n \in DOMAIN nodeStorages, s \in registry.loaded :
    Cardinality({i \in DOMAIN nodeStorages[n] : nodeStorages[n][i].storage = s})
      = Cardinality({id \in DOMAIN mountPoints : Contributes(id, n, s)})

(***************************************************************************)
(* Each entry carries the priority of a live mount that brings its storage *)
(* to its node (MountOptions::priority, "Priority of the node being        *)
(* mounted", and the mount id "which is used later to unmount the node").  *)
(* An unmount takes the first entry of a storage, which may be that of     *)
(* another mount.                                                          *)
(***************************************************************************)
PrioritiesMatchMounts ==
  ~InterruptedRemount => \A n \in DOMAIN nodeStorages : \A i \in DOMAIN nodeStorages[n] :
    \E id \in DOMAIN mountPoints :
      /\ Contributes(id, n, nodeStorages[n][i].storage)
      /\ mountPoints[id].priority = nodeStorages[n][i].priority

(***************************************************************************)
(* What holds of priorities when mounts of one storage at one node ask for *)
(* different ones: erasing the first entry of the storage never leaves the *)
(* storage ahead of where its live mounts put it.  Down to any entry, the  *)
(* entries of its storage are no more than the live mounts that asked for  *)
(* its priority or a higher one.                                           *)
(***************************************************************************)
NoPriorityGained ==
  ~InterruptedRemount => \A n \in DOMAIN nodeStorages : \A j \in DOMAIN nodeStorages[n] :
    LET entry == nodeStorages[n][j] IN
    Cardinality({i \in DOMAIN nodeStorages[n] :
                   /\ nodeStorages[n][i].storage = entry.storage
                   /\ nodeStorages[n][i].priority >= entry.priority})
      <= Cardinality({id \in DOMAIN mountPoints :
                        /\ Contributes(id, n, entry.storage)
                        /\ mountPoints[id].priority >= entry.priority})

(***************************************************************************)
(* Lookups meet higher priorities first: the vector stays sorted, which    *)
(* std::upper_bound presumes, through every insertion and erasure.         *)
(***************************************************************************)
PriorityOrder ==
  \A n \in DOMAIN nodeStorages : \A i, j \in DOMAIN nodeStorages[n] :
    i < j => nodeStorages[n][i].priority >= nodeStorages[n][j].priority

(***************************************************************************)
(* A mount shows the whole subtree of its volume node as the volume has it *)
(* now, nodes that later mounts created below it included: this is what    *)
(* remountNodes() is for.  Nodes that a mount made before an exception     *)
(* ended it are not shown.                                                 *)
(***************************************************************************)
WholeSubtreeMounted ==
  throws["acquire"] = 0 /\ ~InterruptedRemount => \A id \in DOMAIN mountPoints :
    LET storageNode == mountPoints[id].storageNode IN
    storageNode = Subtree(registry, storageNode.volume, storageNode.nodePath)

(***************************************************************************)
(* An assertion of mount(), unmount() or releaseStorage() only fails after *)
(* a re-mount was left half done, or when a live mount's volume path has a *)
(* colon, or when a storage of another volume is registered with a key     *)
(* that reads like one below the root of a live mount: every other mount   *)
(* can be unmounted and redone, and every other exception survived.        *)
(***************************************************************************)
AssertionsHold ==
  failure = "assertion" =>
    \/ InterruptedRemount
    \/ \E id \in DOMAIN mountPoints :
         \/ UnloadTarget(Root(id)) # Root(id)
         \/ \E s \in registry.registered :
              s.volume # Root(id).volume /\ IsPrefix(Key(Root(id)), Key(s))

(***************************************************************************)
(* Each loaded node of a volume has data files of its own (README: "Each   *)
(* node consist of 2 files").                                              *)
(***************************************************************************)
OwnDataFiles ==
  \A r, s \in registry.loaded :
    r.volume = s.volume /\ DataFileName(r.path) = DataFileName(s.path) => r = s

(***************************************************************************)
(* Opening a volume brings back the hierarchy its volume file holds        *)
(* (README: the volume file "contains a nodes hierarchy structure").       *)
(***************************************************************************)
HierarchySurvives ==
  [][\A v \in registry'.volumes \ registry.volumes :
       registry.files[v] \subseteq registry'.trees[v]]_vars
=============================================================================
