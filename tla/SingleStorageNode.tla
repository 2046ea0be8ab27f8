------------------------- MODULE SingleStorageNode --------------------------
(***************************************************************************)
(* A virtual node that only ever gets one storage is linearizable: there   *)
(* VirtualStorage implements AtomicStore.  A get takes effect when it      *)
(* reads, a put when it inserts, a delete when it removes, and a call to a *)
(* node without storages when it resolves the path.                        *)
(***************************************************************************)
EXTENDS VirtualStorage

CONSTANT TheStorage    \* the storage all mounts bring to the node

Returning(t) ==
  \/ thread[t].pc = "unlockNode"
  \/ /\ thread[t].pc = "unlockStorage"
     /\ thread[t].status # "none"
     /\ thread[t].status = "KeyNotFound" => IsLast(t)

Phase(t) ==
  CASE thread[t].pc = "idle" -> "idle"
    [] Returning(t) -> "done"
    [] OTHER -> "pending"

AbstractCall(call) ==
  CASE call.kind \in {"get", "delete"} -> [kind |-> call.kind, key |-> call.key]
    [] call.kind = "put" -> [kind |-> "put", key |-> call.key, value |-> call.value]
    [] call.kind = "mount" -> [kind |-> "mount"]
    [] OTHER -> call

(***************************************************************************)
(* Between the two halves of a put the record is still the old one.        *)
(***************************************************************************)
AbstractRecord(key) ==
  IF \E t \in Threads : thread[t].pc = "insert" /\ thread[t].call.key = key
  THEN thread[CHOOSE t \in Threads :
                thread[t].pc = "insert" /\ thread[t].call.key = key].removed
  ELSE data[TheStorage][key]

Atomic == INSTANCE AtomicStore WITH
  MountIds <- 1..MaxMounts,
  store <- [k \in Keys |-> AbstractRecord(k)],
  mounts <- DOMAIN mountPoints,
  calls <- [t \in Threads |->
              [phase |-> Phase(t), call |-> AbstractCall(thread[t].call),
               status |-> IF Phase(t) = "done" THEN thread[t].status ELSE "none"]]

(***************************************************************************)
(* Every history of gets, puts, deletes, mounts and unmounts looks as if   *)
(* each call had happened at one instant.                                  *)
(***************************************************************************)
Linearizable == Atomic!Spec
=============================================================================
