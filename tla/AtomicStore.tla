---------------------------- MODULE AtomicStore -----------------------------
(***************************************************************************)
(* What the library promises a client of one virtual node, whatever the    *)
(* number of threads: each call of IStorage.hpp and ICompositeStorage.hpp  *)
(* takes effect at one instant between its start and its return.           *)
(***************************************************************************)
EXTENDS Naturals

CONSTANTS
  Threads,
  Keys,
  Values,
  Expiring,  \* the values stored with a time to live that may pass
  Absent,    \* no record under the key
  Expired,   \* a record whose time to live has passed
  MountIds

VARIABLES
  store,     \* per key, its record
  mounts,    \* the live mounts of the node's storage
  calls      \* per thread, its call and how far that has come

vars == <<store, mounts, calls>>

NoCall == [kind |-> "none"]

Idle == [phase |-> "idle", call |-> NoCall, status |-> "none"]

Call ==
  [kind : {"get", "delete"}, key : Keys]
    \union [kind : {"put"}, key : Keys, value : Values]
    \union [kind : {"mount"}]
    \union [kind : {"unmount"}, id : MountIds]

Init ==
  /\ store = [k \in Keys |-> Absent]
  /\ mounts = {}
  /\ calls = [t \in Threads |-> Idle]

Start(t) ==
  /\ calls[t].phase = "idle"
  /\ \E call \in Call :
       calls' = [calls EXCEPT ![t] = [phase |-> "pending", call |-> call, status |-> "none"]]
  /\ UNCHANGED <<store, mounts>>

Return(t) ==
  /\ calls[t].phase = "done"
  /\ calls' = [calls EXCEPT ![t] = Idle]
  /\ UNCHANGED <<store, mounts>>

Pending(t, kind) == calls[t].phase = "pending" /\ calls[t].call.kind = kind

Answer(t, status) ==
  calls' = [calls EXCEPT ![t].phase = "done", ![t].status = status]

(***************************************************************************)
(* A call to a node that nothing is mounted at.                            *)
(***************************************************************************)
Unresolved(t) ==
  /\ \E kind \in {"get", "put", "delete"} : Pending(t, kind)
  /\ mounts = {}
  /\ Answer(t, "NodeNotFound")
  /\ UNCHANGED <<store, mounts>>

Get(t) ==
  /\ Pending(t, "get")
  /\ mounts # {}
  /\ LET record == store[calls[t].call.key]
     IN Answer(t, IF record \in Values THEN record ELSE "KeyNotFound")
  /\ UNCHANGED <<store, mounts>>

(***************************************************************************)
(* A put may drop an expired record of another key.                        *)
(***************************************************************************)
Put(t) ==
  /\ Pending(t, "put")
  /\ mounts # {}
  /\ LET key == calls[t].call.key
     IN \E dropped \in {{}} \union {{k} : k \in {other \in Keys \ {key} : store[other] = Expired}} :
          store' = [k \in Keys |-> IF k = key THEN calls[t].call.value
                                   ELSE IF k \in dropped THEN Absent ELSE store[k]]
  /\ Answer(t, "Ok")
  /\ UNCHANGED mounts

Delete(t) ==
  /\ Pending(t, "delete")
  /\ mounts # {}
  /\ LET key == calls[t].call.key
     IN /\ store' = [store EXCEPT ![key] = Absent]
        /\ Answer(t, IF store[key] = Absent THEN "KeyNotFound" ELSE "Ok")
  /\ UNCHANGED mounts

Mount(t) ==
  /\ Pending(t, "mount")
  /\ \E id \in MountIds \ mounts :
       mounts' = mounts \union {id} /\ Answer(t, "Ok")
  /\ UNCHANGED store

Unmount(t) ==
  /\ Pending(t, "unmount")
  /\ mounts' = mounts \ {calls[t].call.id}
  /\ Answer(t, IF calls[t].call.id \in mounts THEN "Ok" ELSE "InvalidMountId")
  /\ UNCHANGED store

Expire(key) ==
  /\ store[key] \in Expiring
  /\ store' = [store EXCEPT ![key] = Expired]
  /\ UNCHANGED <<mounts, calls>>

Next ==
  \/ \E t \in Threads :
       \/ Start(t) \/ Return(t) \/ Unresolved(t)
       \/ Get(t) \/ Put(t) \/ Delete(t) \/ Mount(t) \/ Unmount(t)
  \/ \E key \in Keys : Expire(key)

Spec == Init /\ [][Next]_vars
=============================================================================
