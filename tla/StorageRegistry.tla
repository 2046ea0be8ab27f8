-------------------------- MODULE StorageRegistry ---------------------------
(***************************************************************************)
(* LinearHashStorageRegistry and the LinearHashVolumes it owns, as a value *)
(* and as functions of that value.  The code changes it under the X lock   *)
(* of the root node only, one whole mount or unmount at a time.            *)
(*                                                                         *)
(*   volumes   m_volumes: the volumes this process has opened, never closed *)
(*   trees     per volume, the paths of the nodes below its m_rootNode     *)
(*   loaded    the tree nodes with a LinearHashStorage object              *)
(*   counters  m_storageCounters: per key "volume:path", a reference count *)
(*   registered  the storages m_storageKeys knows the key of               *)
(*   files     per volume, the hierarchy its volume file holds on disk     *)
(*                                                                         *)
(* A storage, and the pointer to it, is named by its volume and its path.  *)
(***************************************************************************)
EXTENDS Paths

CONSTANT Volumes    \* volume file paths, as sequences of atoms

ASSUME VolumesAssumption == Volumes \subseteq Seq(STRING)

Storage(volume, path) == [volume |-> volume, path |-> path]

Storages == [volume : Volumes, path : Path]

(***************************************************************************)
(* The key of a storage: a string, so that "v" with the path "w:A" and     *)
(* "v:w" with the path "A" have one key and share one counter.             *)
(***************************************************************************)
Key(storage) == storage.volume \o <<":">> \o PathString(storage.path)

KeysOf(storages) == {Key(s) : s \in storages}

(***************************************************************************)
(* A StorageNode: the subtree of a volume that one acquisition returned.   *)
(***************************************************************************)
StorageNode(volume, nodePath, paths) ==
  [volume |-> volume, nodePath |-> nodePath, paths |-> paths]

StoragesOf(storageNode) == {Storage(storageNode.volume, path) : path \in storageNode.paths}

StartedRegistry(files) ==
  [volumes  |-> {},
   trees    |-> [v \in Volumes |-> {}],
   loaded   |-> {},
   counters |-> [key \in {} |-> 0],
   registered |-> {},
   files    |-> files]

(***************************************************************************)
(* The LinearHashVolume constructor opens the volume file with `trunc', so *)
(* it always reads an empty hierarchy.                                     *)
(***************************************************************************)
OpenVolume(registry, volume) ==
  IF volume \in registry.volumes
  THEN registry
  ELSE [registry EXCEPT !.volumes = @ \union {volume}, !.files[volume] = {}]

(***************************************************************************)
(* findTreeNode() creates what is missing on the way to `path'.            *)
(***************************************************************************)
findTreeNode(registry, volume, path) ==
  [registry EXCEPT !.trees[volume] = @ \union NodesTo(path)]

Subtree(registry, volume, path) ==
  StorageNode(volume, path, {q \in registry.trees[volume] : IsInSubtree(q, path)})

(***************************************************************************)
(* loadStorage() creates the storages of the subtree that do not exist and *)
(* saves the hierarchy.                                                    *)
(***************************************************************************)
saveNodes(registry, volume) == [registry EXCEPT !.files[volume] = registry.trees[volume]]

loadStorage(registry, storageNode) ==
  saveNodes([registry EXCEPT !.loaded = @ \union StoragesOf(storageNode)], storageNode.volume)

\* Mutant of Counted: a key that has a counter keeps its count.
Counted_onlyNew(counters, keys) ==
  [key \in DOMAIN counters \union keys |-> IF key \in DOMAIN counters THEN counters[key] ELSE 1]

(***************************************************************************)
(* The private acquireStorage(): one more reference for the key of each    *)
(* storage of the subtree; a storage is registered with its key if that    *)
(* had no counter.                                                         *)
(***************************************************************************)
Counted(counters, keys) ==
  [key \in DOMAIN counters \union keys |->
     (IF key \in DOMAIN counters THEN counters[key] ELSE 0) + (IF key \in keys THEN 1 ELSE 0)]

NewlyCounted(counters, storages) == {s \in storages : Key(s) \notin DOMAIN counters}

acquireStorage(registry, volume, path) ==
  LET found == findTreeNode(OpenVolume(registry, volume), volume, path)
      storageNode == Subtree(found, volume, path)
      loaded == loadStorage(found, storageNode)
      storages == StoragesOf(storageNode)
  IN [registry    |-> [loaded EXCEPT
                         !.counters = Counted(@, KeysOf(storages)),
                         !.registered = @ \union NewlyCounted(loaded.counters, storages)],
      storageNode |-> storageNode]

(***************************************************************************)
(* The LinearHashStorage constructor may throw: the data files cannot be   *)
(* opened, or the hash table refuses its parameters.  The exception leaves *)
(* through loadStorage(), which walks parents before children: tree nodes  *)
(* and the storages created so far stay, and nothing is counted or saved.  *)
(***************************************************************************)
ThrownAcquisitions(registry, volume, path) ==
  LET found == findTreeNode(OpenVolume(registry, volume), volume, path)
      missing == StoragesOf(Subtree(found, volume, path)) \ found.loaded
      ParentsFirst(created) ==
        \A s \in created, r \in missing : IsInSubtree(s.path, r.path) => r \in created
  IN {[found EXCEPT !.loaded = @ \union created] :
        created \in {c \in SUBSET missing : c # missing /\ ParentsFirst(c)}}

(***************************************************************************)
(* releaseStorage() finds the volume and the node of a storage by cutting  *)
(* the key at its first colon, which is inside the volume path when that   *)
(* has one; the rest is split at every "/".                                *)
(***************************************************************************)
UnloadTarget(storage) ==
  LET key == Key(storage)
      colon == SelectInSeq(key, LAMBDA atom : atom = ":")
  IN Storage(SubSeq(key, 1, colon - 1), Split(SubSeq(key, colon + 1, Len(key))))

\* Mutant of Freed: every release unloads.
Freed_always(registry, storages) == storages

Freed(registry, storages) == {s \in storages : registry.counters[Key(s)] = 1}

(***************************************************************************)
(* The assertions of releaseStorage() and of its caller: each storage has  *)
(* a key, the key a counter, and the volume a freed key names is open.     *)
(***************************************************************************)
CanRelease(registry, storages) ==
  /\ storages \subseteq registry.registered
  /\ KeysOf(storages) \subseteq DOMAIN registry.counters
  /\ \A s \in Freed(registry, storages) : UnloadTarget(s).volume \in registry.volumes

(***************************************************************************)
(* unloadStorage() resets the storage of the tree node it finds, or makes. *)
(***************************************************************************)
unloadStorages(registry, targets) ==
  [registry EXCEPT
     !.loaded = @ \ targets,
     !.trees = [v \in Volumes |->
                  @[v] \union UNION {NodesTo(s.path) : s \in {r \in targets : r.volume = v}}]]

\* Mutant of Released: a counter that reaches zero stays in the map.
Released_keepsCounter(registry, storages) ==
  [registry EXCEPT
     !.counters = [key \in DOMAIN @ |-> IF key \in KeysOf(storages) THEN @[key] - 1 ELSE @[key]],
     !.registered = @ \ Freed(registry, storages)]

(***************************************************************************)
(* Each storage of a subtree loses one reference; a key that had one is    *)
(* forgotten.                                                              *)
(***************************************************************************)
Released(registry, storages) ==
  LET freed == Freed(registry, storages)
  IN [registry EXCEPT
        !.counters = [key \in DOMAIN @ \ KeysOf(freed) |->
                        IF key \in KeysOf(storages) THEN @[key] - 1 ELSE @[key]],
        !.registered = @ \ freed]

\* Mutant of releaseStorages: the volume is never told to unload.
releaseStorages_noUnload(registry, storages) == Released(registry, storages)

(***************************************************************************)
(* releaseStorage() for every storage of a subtree.                        *)
(***************************************************************************)
releaseStorages(registry, storages) ==
  unloadStorages(Released(registry, storages),
                 {UnloadTarget(s) : s \in Freed(registry, storages)})
=============================================================================
