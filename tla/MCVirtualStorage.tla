-------------------------- MODULE MCVirtualStorage --------------------------
(***************************************************************************)
(* Volumes, mounts and repertoires for the runs of VirtualStorage.         *)
(***************************************************************************)
EXTENDS SingleStorageNode

CONSTANTS t1, t2, t3, k1, v1, v2

v == <<"v">>
OneVolume == {v}

A == <<"A">>
B == <<"B">>
X == <<"X">>

option(mountPath, nodePath, priority) ==
  [mountPath |-> mountPath, volume |-> v, nodePath |-> nodePath, priority |-> priority]

Get(path) == [kind |-> "get", path |-> path, key |-> k1]
Delete(path) == [kind |-> "delete", path |-> path, key |-> k1]
Put(path, value) == [kind |-> "put", path |-> path, key |-> k1, value |-> value]
MountOf(options) == [kind |-> "mount", options |-> options]
UnmountOf(id) == [kind |-> "unmount", id |-> id]

(***************************************************************************)
(* One storage at node X, mounted up to MaxMounts times.                   *)
(***************************************************************************)
AtX == {option(<<X>>, <<A>>, 0)}
StorageA == Storage(v, <<A>>)
SingleRepertoire ==
  t1 :> {Get(<<X>>), Put(<<X>>, v1)} @@
  t2 :> {Put(<<X>>, v2), Delete(<<X>>)} @@
  t3 :> {MountOf(o) : o \in AtX} \union {UnmountOf(1)}

(***************************************************************************)
(* Two storages at node X, the later one with the higher priority.         *)
(***************************************************************************)
TwoLayers == {option(<<X>>, <<A>>, 0), option(<<X>>, <<B>>, 1)}
LayeredRepertoire ==
  t1 :> {Put(<<X>>, v1)} @@
  t2 :> {Put(<<X>>, v1), Delete(<<X>>)} @@
  t3 :> {MountOf(o) : o \in TwoLayers}
=============================================================================
