------------------------ MODULE VirtualStorage_proofs ------------------------
(***************************************************************************)
(* The locking of VirtualStorage, for any threads, calls, mounts and       *)
(* storages.  The inductive invariant says of every mutex who is on its    *)
(* lists, and in which mode: a thread is on the lists of the nodes it has  *)
(* passed on its path, the root first, and of the storage it calls.        *)
(***************************************************************************)
EXTENDS VirtualStorage, MGLock_proofs

NodeModes == {"IS", "IX", "X"}

StorageModes == {"S", "X"}

MountKinds == {"mount", "unmount"}

Fields == {"pc", "call", "depth", "index", "searching", "storage", "removed", "status"}

(***************************************************************************)
(* Where a thread can be, by the kind of its call.                         *)
(***************************************************************************)
ThreadSound(t) ==
  /\ DOMAIN thread[t] = Fields
  /\ thread[t].pc \in PCs /\ thread[t].depth \in Nat /\ thread[t].searching \in BOOLEAN
  /\ thread[t].call \in Repertoire[t] \union {NoCall}
  /\ thread[t].pc = "idle" <=> thread[t].call = NoCall
  /\ Kind(t) \in MountKinds \union {"none"} => thread[t].depth = 0
  /\ Kind(t) \in MountKinds => thread[t].pc \in {"lockNode", "awaitNode", "body", "unlockNode"}
  /\ Kind(t) \in {"get", "put", "delete"} =>
       thread[t].depth <= Len(thread[t].call.path) /\ thread[t].pc # "body"
  /\ thread[t].searching => Kind(t) = "put"
  /\ thread[t].pc = "insert" => Kind(t) = "put" /\ ~thread[t].searching
  /\ thread[t].status = "Ok" =>
       ~thread[t].searching /\ (Kind(t) = "put" => thread[t].pc \in {"unlockStorage", "unlockNode"})

ThreadsSound == DOMAIN thread = Threads /\ \A t \in Threads : ThreadSound(t)

(***************************************************************************)
(* A thread asked for the lock of a node, and has not given it back: the   *)
(* node is on its path, and not deeper than it went.                       *)
(***************************************************************************)
Claims(t, n) ==
  /\ thread[t].pc # "idle"
  /\ Len(n) <= thread[t].depth
  /\ Len(n) = thread[t].depth => thread[t].pc # "lockNode"
  /\ n # <<>> => n = SubSeq(thread[t].call.path, 1, Len(n))

Awaits(t, n) == thread[t].pc = "awaitNode" /\ n = NodeOf(t)

NodeEntry(t) == [threadId |-> t, lockType |-> NodeMode(Kind(t))]

NodeLocksSound ==
  /\ DOMAIN nodeLock = AllNodes
  /\ \A n \in AllNodes :
       /\ Orderly(nodeLock[n], Threads, NodeModes)
       /\ Entries(nodeLock[n]) = {NodeEntry(t) : t \in {u \in Threads : Claims(u, n)}}
       /\ \A t \in Threads : Claims(t, n) /\ ~Awaits(t, n) => Holds(nodeLock[n], t)

(***************************************************************************)
(* The mode in which a thread has, or waits for, the lock of its storage.  *)
(* hasKey, which a put asks first, reads.                                  *)
(***************************************************************************)
ModeAsked(t) ==
  IF \/ Kind(t) = "delete"
     \/ /\ Kind(t) = "put"
        /\ \/ thread[t].pc = "insert" \/ thread[t].status = "Ok"
           \/ thread[t].pc = "awaitStorage" /\ ~thread[t].searching
  THEN "X" ELSE "S"

StorageEntry(t) == [threadId |-> t, lockType |-> ModeAsked(t)]

Calls(t, s) == UsesStorage(t) /\ thread[t].storage = s

StorageLocksSound ==
  /\ DOMAIN storageLock = AllStorages
  /\ \A s \in AllStorages :
       /\ Orderly(storageLock[s], Threads, StorageModes)
       /\ Entries(storageLock[s]) = {StorageEntry(t) : t \in {u \in Threads : Calls(u, s)}}
       /\ \A t \in Threads : Calls(t, s) /\ InsideStorage(t) => Holds(storageLock[s], t)

IInv == ThreadsSound /\ NodeLocksSound /\ StorageLocksSound
-----------------------------------------------------------------------------
(***************************************************************************)
(* The first n components of a path are a path of n components.            *)
(***************************************************************************)
LEMMA PrefixOfPath ==
  ASSUME NEW S, NEW p \in Seq(S), NEW n \in 0..Len(p)
  PROVE  SubSeq(p, 1, n) \in Seq(S) /\ Len(SubSeq(p, 1, n)) = n
<1>1. \A i \in 1..n : p[i] \in S
  OBVIOUS
<1>2. /\ SubSeq(p, 1, n) \in Seq(S)
      /\ Len(SubSeq(p, 1, n)) = IF 1 <= n THEN n - 1 + 1 ELSE 0
  BY <1>1, SubSeqProperties
<1> QED
  BY <1>2

LEMMA NodesToPaths ==
  ASSUME NEW p \in Path
  PROVE  NodesTo(p) \subseteq Path
<1> SUFFICES ASSUME NEW n \in 1..Len(p) PROVE SubSeq(p, 1, n) \in Path
  BY DEF NodesTo
<1>1. n \in 0..Len(p)
  BY DEF Path
<1> QED
  BY <1>1, PrefixOfPath DEF Path

LEMMA TransplantPath ==
  ASSUME NEW p \in Path, NEW from \in Path, NEW at \in Path
  PROVE  Transplant(p, from, at) \in Path
<1>1. Len(from) \in Nat /\ Len(p) \in Nat
  BY DEF Path
<1>2. \A i \in (Len(from) + 1)..Len(p) : p[i] \in Component
  BY <1>1 DEF Path
<1>3. SubSeq(p, Len(from) + 1, Len(p)) \in Path
  BY <1>1, <1>2, SubSeqProperties DEF Path
<1> QED
  BY <1>3, ConcatProperties DEF Transplant, Path

(***************************************************************************)
(* The nodes that have locks are paths.                                    *)
(***************************************************************************)
LEMMA NodesArePaths == <<>> \in AllNodes /\ AllNodes \subseteq Path
<1>1. \A o \in MountOptions : o.mountPath \in Path /\ o.nodePath \in Path
  BY CallsAssumption DEF Table!WellFormed, Table!Path, Table!Component, Path, Component
<1>2. \A v : VolumePaths(v) \subseteq Path
  BY <1>1, NodesToPaths DEF VolumePaths
<1>3. \A o \in MountOptions, q \in Path : Transplant(q, o.nodePath, o.mountPath) \in Path
  BY <1>1, TransplantPath
<1>4. \A o \in MountOptions :
        {Transplant(path, o.nodePath, o.mountPath) :
           path \in {q \in VolumePaths(o.volume) : IsInSubtree(q, o.nodePath)}} \subseteq Path
  BY <1>2, <1>3
<1>5. <<>> \in Path
  BY EmptySeq DEF Path
<1> QED
  BY <1>1, <1>4, <1>5, NodesToPaths DEF AllNodes

LEMMA NodeLength ==
  ASSUME NEW n \in AllNodes
  PROVE  Len(n) \in Nat /\ (Len(n) = 0 <=> n = <<>>)
<1>1. n \in Path
  BY NodesArePaths
<1> QED
  BY <1>1, EmptySeq DEF Path

(***************************************************************************)
(* What the calls of a thread can be.                                      *)
(***************************************************************************)
LEMMA CallShape ==
  ASSUME NEW t \in Threads, NEW call \in Repertoire[t] \union {NoCall}
  PROVE  /\ call.kind \in {"none", "get", "delete", "put", "mount", "unmount"}
         /\ call.kind = "none" <=> call = NoCall
         /\ call.kind \in {"get", "delete", "put"} => call.path \in Path /\ call.key \in Keys
         /\ call.kind = "put" => call.value \in Values
         /\ call.kind = "mount" => call.options \in MountOptions
<1>1. call \in ClientCalls \/ call = NoCall
  BY CallsAssumption
<1> QED
  BY <1>1 DEF ClientCalls, NoCall

(***************************************************************************)
(* The node a thread is at is the one as deep as it went.                  *)
(***************************************************************************)
LEMMA NodeOfThread ==
  ASSUME NEW t \in Threads, ThreadSound(t)
  PROVE  /\ NodeOf(t) \in Path
         /\ Len(NodeOf(t)) = thread[t].depth
         /\ \A n \in AllNodes : n = NodeOf(t) <=>
              /\ Len(n) = thread[t].depth
              /\ n # <<>> => n = SubSeq(thread[t].call.path, 1, Len(n))
<1> DEFINE call == thread[t].call
<1>1. /\ call.kind \in {"none", "get", "delete", "put", "mount", "unmount"}
      /\ call.kind \in {"get", "delete", "put"} => call.path \in Path
  BY CallShape DEF ThreadSound
<1>2. \A n \in AllNodes : Len(n) \in Nat /\ (Len(n) = 0 <=> n = <<>>)
  BY NodeLength
<1>3. CASE call.kind \in {"get", "delete", "put"}
  <2>1. thread[t].depth \in 0..Len(call.path) /\ call.path \in Path
    BY <1>1, <1>3 DEF ThreadSound, Kind, Path
  <2>2. SubSeq(call.path, 1, thread[t].depth) \in Path
        /\ Len(SubSeq(call.path, 1, thread[t].depth)) = thread[t].depth
    BY <2>1, PrefixOfPath DEF Path
  <2>3. NodeOf(t) = SubSeq(call.path, 1, thread[t].depth)
    BY <1>3 DEF NodeOf, Kind
  <2>4. <<>> = SubSeq(call.path, 1, 0)
    BY SubSeqEmpty
  <2> QED
    BY <1>2, <2>1, <2>2, <2>3, <2>4
<1>4. CASE call.kind \in {"none", "mount", "unmount"}
  <2>1. NodeOf(t) = <<>>
    BY <1>4 DEF NodeOf, Kind
  <2>2. thread[t].depth = 0
    BY <1>4 DEF ThreadSound, Kind, MountKinds
  <2>3. <<>> \in Path /\ Len(<<>>) = 0
    BY EmptySeq DEF Path
  <2> QED
    BY <1>2, <2>1, <2>2, <2>3
<1> QED
  BY <1>1, <1>3, <1>4

(***************************************************************************)
(* The constructor leaves a mutex orderly, with nobody on its lists.       *)
(***************************************************************************)
LEMMA FreeOrderly ==
  ASSUME NEW T, NEW M
  PROVE  Orderly(FreeMutex, T, M) /\ Entries(FreeMutex) = {}
<1>1. /\ FreeMutex.currentType = "NL" /\ FreeMutex.runningThreads = {}
      /\ FreeMutex.waitingThreads = <<>> /\ FreeMutex \in Mutex(T, M)
  BY EmptySeq DEF FreeMutex, Mutex
<1> QED
  BY <1>1 DEF Orderly, EachThreadOnce, WaitersBlocked, AdmittedByFirst, Entries

LEMMA InitIInv == Init => IInv
<1> SUFFICES ASSUME Init PROVE IInv
  OBVIOUS
<1>1. /\ DOMAIN thread = Threads
      /\ \A t \in Threads : /\ thread[t] = IdleThread /\ thread[t].pc = "idle"
                            /\ thread[t].call = NoCall /\ thread[t].depth = 0
                            /\ thread[t].searching = FALSE /\ thread[t].status = "none"
  BY DEF Init, IdleThread
<1>2. NoCall.kind = "none"
  BY DEF NoCall
<1>3. DOMAIN IdleThread = Fields
  BY DEF IdleThread, Fields
<1>4. ThreadsSound
  <2> SUFFICES ASSUME NEW t \in Threads PROVE ThreadSound(t)
    BY <1>1 DEF ThreadsSound
  <2>1. Kind(t) = "none"
    BY <1>1, <1>2 DEF Kind
  <2>2. thread[t].searching \in BOOLEAN /\ ~thread[t].searching
    BY <1>1, Zenon
  <2> QED
    BY <1>1, <1>3, <2>1, <2>2 DEF ThreadSound, PCs, MountKinds
<1>5. NodeLocksSound
  <2>1. DOMAIN nodeLock = AllNodes /\ \A n \in AllNodes : nodeLock[n] = FreeMutex
    BY DEF Init
  <2>2. \A t \in Threads : \A n : ~Claims(t, n)
    BY <1>1 DEF Claims
  <2> QED
    BY <2>1, <2>2, FreeOrderly DEF NodeLocksSound
<1>6. StorageLocksSound
  <2>1. DOMAIN storageLock = AllStorages /\ \A s \in AllStorages : storageLock[s] = FreeMutex
    BY DEF Init
  <2>2. \A t \in Threads : \A s : ~Calls(t, s)
    BY <1>1 DEF Calls, UsesStorage, InsideStorage
  <2> QED
    BY <2>1, <2>2, FreeOrderly DEF StorageLocksSound
<1> QED
  BY <1>4, <1>5, <1>6 DEF IInv

-----------------------------------------------------------------------------
(***************************************************************************)
(* A step of one thread leaves the others where they are.                  *)
(***************************************************************************)
OnlyMoves(t) == DOMAIN thread' = Threads /\ \A u \in Threads \ {t} : thread'[u] = thread[u]

LEMMA Others ==
  ASSUME NEW t, OnlyMoves(t), NEW u \in Threads \ {t}
  PROVE  /\ ThreadSound(u)' <=> ThreadSound(u)
         /\ NodeEntry(u)' = NodeEntry(u) /\ StorageEntry(u)' = StorageEntry(u)
         /\ InsideStorage(u)' <=> InsideStorage(u)
         /\ \A n : (Claims(u, n)' <=> Claims(u, n)) /\ (Awaits(u, n)' <=> Awaits(u, n))
         /\ \A s : Calls(u, s)' <=> Calls(u, s)
<1>1. thread'[u] = thread[u] /\ Kind(u)' = Kind(u) /\ NodeOf(u)' = NodeOf(u)
  BY DEF OnlyMoves, Kind, NodeOf
<1>2. ThreadSound(u)' <=> ThreadSound(u)
  BY <1>1 DEF ThreadSound
<1>3. NodeEntry(u)' = NodeEntry(u) /\ StorageEntry(u)' = StorageEntry(u)
  BY <1>1 DEF NodeEntry, StorageEntry, ModeAsked
<1> QED
  BY <1>1, <1>2, <1>3 DEF InsideStorage, UsesStorage, Claims, Awaits, Calls

(***************************************************************************)
(* Steps of a thread that keep what it has of the locks of nodes, and      *)
(* steps that keep what it has of the locks of storages.                   *)
(***************************************************************************)
LEMMA NodeLocksKept ==
  ASSUME NodeLocksSound, nodeLock' = nodeLock, NEW t \in Threads, OnlyMoves(t),
         \A n \in AllNodes :
           /\ Claims(t, n)' <=> Claims(t, n)
           /\ Claims(t, n) => Kind(t)' = Kind(t)
           /\ Claims(t, n) /\ Awaits(t, n) => Awaits(t, n)' \/ Holds(nodeLock[n], t)
  PROVE  NodeLocksSound'
<1> SUFFICES ASSUME NEW n \in AllNodes
             PROVE  /\ {NodeEntry(u)' : u \in {w \in Threads : Claims(w, n)'}}
                          = {NodeEntry(u) : u \in {w \in Threads : Claims(w, n)}}
                    /\ \A u \in Threads : Claims(u, n)' /\ ~Awaits(u, n)' => Holds(nodeLock[n], u)
  BY DEF NodeLocksSound
<1>1. \A u \in Threads : Claims(u, n)' <=> Claims(u, n)
  BY Others
<1>2. \A u \in Threads : Claims(u, n) => NodeEntry(u)' = NodeEntry(u)
  BY Others DEF NodeEntry
<1>3. \A u \in Threads : Claims(u, n)' /\ ~Awaits(u, n)' => Holds(nodeLock[n], u)
  BY Others DEF NodeLocksSound
<1> QED
  BY <1>1, <1>2, <1>3

LEMMA StorageLocksKept ==
  ASSUME StorageLocksSound, storageLock' = storageLock, NEW t \in Threads, OnlyMoves(t),
         \A s \in AllStorages :
           /\ Calls(t, s)' <=> Calls(t, s)
           /\ Calls(t, s) => ModeAsked(t)' = ModeAsked(t)
           /\ Calls(t, s) /\ InsideStorage(t)' => Holds(storageLock[s], t)
  PROVE  StorageLocksSound'
<1> SUFFICES ASSUME NEW s \in AllStorages
             PROVE  /\ {StorageEntry(u)' : u \in {w \in Threads : Calls(w, s)'}}
                          = {StorageEntry(u) : u \in {w \in Threads : Calls(w, s)}}
                    /\ \A u \in Threads : Calls(u, s)' /\ InsideStorage(u)' => Holds(storageLock[s], u)
  BY DEF StorageLocksSound
<1>1. \A u \in Threads : Calls(u, s)' <=> Calls(u, s)
  BY Others
<1>2. \A u \in Threads : Calls(u, s) => StorageEntry(u)' = StorageEntry(u)
  BY Others DEF StorageEntry
<1>3. \A u \in Threads : Calls(u, s)' /\ InsideStorage(u)' => Holds(storageLock[s], u)
  BY Others DEF StorageLocksSound
<1> QED
  BY <1>1, <1>2, <1>3
(***************************************************************************)
(* Steps of a thread that neither starts nor ends a call and stays at its  *)
(* node, past the wait for the lock of the node.                           *)
(***************************************************************************)
StaysAtNode(t) ==
  /\ OnlyMoves(t)
  /\ thread[t].pc \notin {"idle", "lockNode"}
  /\ thread'[t].pc \notin {"idle", "lockNode", "awaitNode"}
  /\ thread'[t].call = thread[t].call /\ thread'[t].depth = thread[t].depth
  /\ thread[t].pc = "awaitNode" => Holds(nodeLock[NodeOf(t)], t)

LEMMA StaysKeepsNodeLocks ==
  ASSUME NodeLocksSound, nodeLock' = nodeLock, NEW t \in Threads, StaysAtNode(t)
  PROVE  NodeLocksSound'
<1>1. \A n \in AllNodes : Claims(t, n)' <=> Claims(t, n)
  BY DEF StaysAtNode, Claims
<1>2. Kind(t)' = Kind(t)
  BY DEF StaysAtNode, Kind
<1>3. \A n \in AllNodes : Awaits(t, n) => Holds(nodeLock[n], t)
  BY DEF StaysAtNode, Awaits
<1> QED
  BY <1>1, <1>2, <1>3, NodeLocksKept DEF StaysAtNode

LEMMA OutsideKeepsStorageLocks ==
  ASSUME StorageLocksSound, storageLock' = storageLock, NEW t \in Threads, OnlyMoves(t),
         ~UsesStorage(t), ~UsesStorage(t)'
  PROVE  StorageLocksSound'
BY StorageLocksKept DEF Calls, UsesStorage

(***************************************************************************)
(* The start of a call, and the lock and unlock of a node.                 *)
(***************************************************************************)
LEMMA CallKeepsIInv ==
  ASSUME IInv, NEW t \in Threads, Call(t)
  PROVE  IInv'
<1>1. PICK call \in Repertoire[t] :
        thread' = [thread EXCEPT ![t] =
          [IdleThread EXCEPT !.pc = "lockNode", !.call = call, !.searching = call.kind = "put"]]
  BY DEF Call
<1>2. thread[t].pc = "idle" /\ nodeLock' = nodeLock /\ storageLock' = storageLock
  BY DEF Call
<1>3. /\ OnlyMoves(t)
      /\ thread'[t].pc = "lockNode" /\ thread'[t].call = call /\ thread'[t].depth = 0
      /\ thread'[t].searching = (call.kind = "put") /\ thread'[t].status = "none"
      /\ DOMAIN thread'[t] = Fields
  BY <1>1 DEF OnlyMoves, IInv, ThreadsSound, IdleThread, Fields
<1>4. call \in ClientCalls /\ call # NoCall
  BY CallsAssumption DEF ClientCalls, NoCall
<1>5. ThreadSound(t)'
  <2>1. Kind(t)' = call.kind /\ call.kind \in {"get", "delete", "put", "mount", "unmount"}
    BY <1>3, <1>4 DEF Kind, ClientCalls
  <2>2. call.kind \in {"get", "put", "delete"} => Len(call.path) \in Nat
    BY <1>4 DEF ClientCalls, Path
  <2>3. thread'[t].searching \in BOOLEAN /\ (thread'[t].searching <=> call.kind = "put")
    BY <1>3, Zenon
  <2> QED
    BY <1>3, <1>4, <2>1, <2>2, <2>3 DEF ThreadSound, PCs, MountKinds
<1>6. ThreadsSound'
  BY <1>3, <1>5, Others DEF IInv, ThreadsSound, OnlyMoves
<1>7. NodeLocksSound'
  <2>1. \A n \in AllNodes : ~Claims(t, n) /\ ~Claims(t, n)'
    BY <1>2, <1>3, NodeLength DEF Claims
  <2> QED
    BY <1>2, <1>3, <2>1, NodeLocksKept DEF IInv
<1>8. StorageLocksSound'
  BY <1>2, <1>3, OutsideKeepsStorageLocks DEF IInv, UsesStorage, InsideStorage
<1> QED
  BY <1>6, <1>7, <1>8 DEF IInv

LEMMA LockNextNodeKeepsIInv ==
  ASSUME IInv, NEW t \in Threads, LockNextNode(t)
  PROVE  IInv'
<1> DEFINE here == NodeOf(t)
           mode == NodeMode(Kind(t))
<1>1. /\ thread[t].pc = "lockNode" /\ storageLock' = storageLock
      /\ nodeLock' = [nodeLock EXCEPT ![here] = AfterLock(@, t, mode)]
      /\ thread' = [thread EXCEPT ![t].pc = "awaitNode"]
  BY DEF LockNextNode, Goto
<1>2. ThreadsSound /\ ThreadSound(t) /\ DOMAIN thread[t] = Fields
  BY DEF IInv, ThreadsSound, ThreadSound
<1>3. /\ OnlyMoves(t)
      /\ thread'[t] = [thread[t] EXCEPT !.pc = "awaitNode"]
      /\ DOMAIN thread'[t] = Fields /\ thread'[t].pc = "awaitNode"
      /\ \A f \in Fields \ {"pc"} : thread'[t][f] = thread[t][f]
  BY <1>1, <1>2 DEF OnlyMoves, ThreadsSound, Fields
<1>4. /\ thread'[t].call = thread[t].call /\ thread'[t].depth = thread[t].depth
      /\ thread'[t].searching = thread[t].searching /\ thread'[t].status = thread[t].status
      /\ Kind(t)' = Kind(t) /\ NodeOf(t)' = NodeOf(t)
  BY <1>3 DEF Fields, Kind, NodeOf
<1>5. ThreadSound(t)'
  BY <1>1, <1>2, <1>3, <1>4 DEF ThreadSound, PCs, MountKinds
<1>6. ThreadsSound'
  BY <1>2, <1>3, <1>5, Others DEF ThreadsSound, OnlyMoves
<1>7. NodeLocksSound'
  <2>1. Kind(t) \in {"get", "put", "delete"} \union MountKinds /\ mode \in NodeModes
    BY <1>1, <1>2, CallShape DEF ThreadSound, Kind, NodeMode, NodeModes, MountKinds
  <2>2. \A n \in AllNodes :
          /\ Claims(t, n)' <=> Claims(t, n) \/ n = here
          /\ n = here => ~Claims(t, n)
          /\ ~Awaits(t, n) /\ (Awaits(t, n)' <=> n = here)
    BY <1>1, <1>2, <1>3, <1>4, NodeOfThread, NodeLength DEF Claims, Awaits, ThreadSound
  <2>3. \A u \in Threads : NodeEntry(u)' = NodeEntry(u)
    BY <1>3, <1>4, Others DEF NodeEntry
  <2>4. \A u \in Threads, n \in AllNodes :
          Claims(u, n)' <=> Claims(u, n) \/ (u = t /\ n = here)
    BY <1>3, <2>2, Others
  <2>5. DOMAIN nodeLock = AllNodes /\ DOMAIN nodeLock' = AllNodes
    BY <1>1 DEF IInv, NodeLocksSound
  <2> SUFFICES ASSUME NEW n \in AllNodes
               PROVE  /\ Orderly(nodeLock'[n], Threads, NodeModes)
                      /\ Entries(nodeLock'[n])
                           = {NodeEntry(u) : u \in {w \in Threads : Claims(w, n)'}}
                      /\ \A u \in Threads : Claims(u, n)' /\ ~Awaits(u, n)'
                                              => Holds(nodeLock'[n], u)
    BY <2>3, <2>5 DEF NodeLocksSound
  <2>6. /\ Orderly(nodeLock[n], Threads, NodeModes)
        /\ Entries(nodeLock[n]) = {NodeEntry(u) : u \in {w \in Threads : Claims(w, n)}}
        /\ \A u \in Threads : Claims(u, n) /\ ~Awaits(u, n) => Holds(nodeLock[n], u)
    BY DEF IInv, NodeLocksSound
  <2>7. CASE n # here
    <3>1. nodeLock'[n] = nodeLock[n]
      BY <1>1, <2>5, <2>7
    <3>2. {w \in Threads : Claims(w, n)'} = {w \in Threads : Claims(w, n)}
      BY <2>4, <2>7
    <3>3. \A u \in Threads : Claims(u, n)' /\ ~Awaits(u, n)' => Claims(u, n) /\ ~Awaits(u, n)
      BY <1>3, <2>2, <2>4, <2>7, Others
    <3> QED
      BY <2>6, <3>1, <3>2, <3>3
  <2>8. CASE n = here
    <3>1. nodeLock'[n] = AfterLock(nodeLock[n], t, mode)
      BY <1>1, <2>5, <2>8
    <3>2. ~Holds(nodeLock[n], t) /\ ~Waits(nodeLock[n], t)
      BY <2>2, <2>6, <2>8, ListedIsEntry DEF NodeEntry
    <3>3. /\ Orderly(nodeLock'[n], Threads, NodeModes)
          /\ \A u : Holds(nodeLock[n], u) => Holds(nodeLock'[n], u)
      BY <2>1, <2>6, <3>1, <3>2, AfterLockOrderly DEF NodeModes, LockType
    <3>4. Entries(nodeLock'[n]) = Entries(nodeLock[n]) \union {NodeEntry(t)}
      BY <2>1, <2>6, <3>1, EntriesAfterLock DEF Orderly, NodeEntry
    <3>5. {w \in Threads : Claims(w, n)'} = {w \in Threads : Claims(w, n)} \union {t}
      BY <2>4, <2>8
    <3>6. \A u \in Threads : Claims(u, n)' /\ ~Awaits(u, n)' => Claims(u, n) /\ ~Awaits(u, n)
      BY <1>3, <2>2, <2>4, <2>8, Others
    <3> QED
      BY <2>6, <3>3, <3>4, <3>5, <3>6
  <2> QED
    BY <2>7, <2>8
<1>8. StorageLocksSound'
  BY <1>1, <1>3, OutsideKeepsStorageLocks DEF IInv, UsesStorage, InsideStorage
<1> QED
  BY <1>6, <1>7, <1>8 DEF IInv

(***************************************************************************)
(* What the two steps with several outcomes make of their thread.          *)
(***************************************************************************)
LEMMA EnterNodeMoves ==
  ASSUME ThreadsSound, NEW t \in Threads, EnterNode(t)
  PROVE  LET th == thread[t]
             path == th.call.path
         IN /\ OnlyMoves(t)
            /\ \/ Kind(t) \in MountKinds /\ thread'[t] = [th EXCEPT !.pc = "body"]
               \/ /\ Kind(t) \notin MountKinds
                  /\ thread'[t] = [th EXCEPT !.pc = "unlockNode", !.status = "NodeNotFound"]
               \/ /\ Kind(t) \notin MountKinds /\ th.depth = Len(path) /\ nodeStorages[path] # <<>>
                  /\ thread'[t] = [th EXCEPT !.pc = "lockStorage"]
               \/ /\ Kind(t) \notin MountKinds /\ th.depth # Len(path)
                  /\ SubSeq(path, 1, th.depth + 1) \in DOMAIN nodeStorages
                  /\ thread'[t] = [th EXCEPT !.pc = "lockNode", !.depth = th.depth + 1]
<1> DEFINE th == thread[t]
           path == th.call.path
           atNode == th.depth = Len(path)
           found == IF atNode THEN nodeStorages[path] # <<>>
                    ELSE SubSeq(path, 1, th.depth + 1) \in DOMAIN nodeStorages
<1>1. DOMAIN thread = Threads /\ DOMAIN th = Fields
  BY DEF ThreadsSound, ThreadSound
<1>2. CASE Kind(t) \in MountKinds
  <2>1. thread' = [thread EXCEPT ![t].pc = "body"]
    BY <1>2 DEF EnterNode, Goto, MountKinds
  <2> QED
    BY <1>1, <1>2, <2>1 DEF OnlyMoves
<1>3. CASE Kind(t) \notin MountKinds
  <2>1. thread' = [thread EXCEPT ![t].pc = CASE ~found -> "unlockNode"
                                             [] found /\ atNode -> "lockStorage"
                                             [] OTHER -> "lockNode",
                                 ![t].depth = IF found /\ ~atNode THEN @ + 1 ELSE @,
                                 ![t].status = IF found THEN @ ELSE "NodeNotFound"]
    BY <1>3 DEF EnterNode, MountKinds
  <2>2. (atNode <=> th.depth = Len(path))
        /\ (found /\ atNode => nodeStorages[path] # <<>>)
        /\ (found /\ ~atNode => SubSeq(path, 1, th.depth + 1) \in DOMAIN nodeStorages)
    OBVIOUS
  <2> HIDE DEF found, atNode
  <2>3. CASE ~found
    <3>1. thread' = [thread EXCEPT ![t].pc = "unlockNode", ![t].depth = th.depth,
                                   ![t].status = "NodeNotFound"]
      BY <2>1, <2>3
    <3>2. thread'[t] = [th EXCEPT !.pc = "unlockNode", !.status = "NodeNotFound"]
      BY <1>1, <3>1 DEF Fields
    <3> QED
      BY <1>1, <1>3, <3>1, <3>2 DEF OnlyMoves
  <2>4. CASE found /\ atNode
    <3>1. thread' = [thread EXCEPT ![t].pc = "lockStorage", ![t].depth = th.depth,
                                   ![t].status = th.status]
      BY <2>1, <2>4
    <3>2. thread'[t] = [th EXCEPT !.pc = "lockStorage"]
      BY <1>1, <3>1 DEF Fields
    <3> QED
      BY <1>1, <1>3, <2>2, <2>4, <3>1, <3>2 DEF OnlyMoves
  <2>5. CASE found /\ ~atNode
    <3>1. thread' = [thread EXCEPT ![t].pc = "lockNode", ![t].depth = th.depth + 1,
                                   ![t].status = th.status]
      BY <2>1, <2>5
    <3>2. thread'[t] = [th EXCEPT !.pc = "lockNode", !.depth = th.depth + 1]
      BY <1>1, <3>1 DEF Fields
    <3> QED
      BY <1>1, <1>3, <2>2, <2>5, <3>1, <3>2 DEF OnlyMoves
  <2> QED
    BY <2>3, <2>4, <2>5
<1> QED
  BY <1>2, <1>3

LEMMA UnlockStorageMoves ==
  ASSUME ThreadsSound, NEW t \in Threads, UnlockStorage(t)
  PROVE  LET th == thread[t]
         IN /\ OnlyMoves(t)
            /\ \/ /\ ~IsLast(t)
                  /\ thread'[t] = [th EXCEPT !.pc = "lockStorage", !.index = th.index + 1,
                                             !.status = "none"]
               \/ /\ th.searching
                  /\ thread'[t] = [th EXCEPT !.pc = "lockStorage", !.index = 1, !.searching = FALSE]
               \/ th.status = "none" /\ thread'[t] = [th EXCEPT !.pc = "lockStorage"]
               \/ thread'[t] = [th EXCEPT !.pc = "unlockNode"]
<1> DEFINE th == thread[t]
           next ==
             CASE Missed(t) /\ ~IsLast(t) ->
                    [th EXCEPT !.pc = "lockStorage", !.index = @ + 1, !.status = "none"]
               [] th.searching /\ IsLast(t) ->
                    [th EXCEPT !.pc = "lockStorage", !.index = 1, !.searching = FALSE]
               [] Kind(t) = "put" /\ ~th.searching /\ th.status = "none" ->
                    [th EXCEPT !.pc = "lockStorage"]
               [] OTHER -> [th EXCEPT !.pc = "unlockNode"]
<1>1. thread' = [thread EXCEPT ![t] = next]
  BY DEF UnlockStorage
<1>2. OnlyMoves(t) /\ thread'[t] = next
  <2> HIDE DEF next
  <2> QED
    BY <1>1 DEF OnlyMoves, ThreadsSound
<1>3. CASE Missed(t) /\ ~IsLast(t)
  BY <1>2, <1>3
<1>4. CASE ~(Missed(t) /\ ~IsLast(t)) /\ th.searching /\ IsLast(t)
  BY <1>2, <1>4
<1>5. CASE ~(Missed(t) /\ ~IsLast(t)) /\ ~(th.searching /\ IsLast(t))
           /\ Kind(t) = "put" /\ ~th.searching /\ th.status = "none"
  BY <1>2, <1>5
<1>6. CASE ~(Missed(t) /\ ~IsLast(t)) /\ ~(th.searching /\ IsLast(t))
           /\ ~(Kind(t) = "put" /\ ~th.searching /\ th.status = "none")
  BY <1>2, <1>6
<1> QED
  BY <1>3, <1>4, <1>5, <1>6

LEMMA EnterNodeKeepsIInv ==
  ASSUME IInv, NEW t \in Threads, EnterNode(t)
  PROVE  IInv'
<1> DEFINE same(f) == thread'[t][f] = thread[t][f]
<1>1. /\ thread[t].pc = "awaitNode" /\ Holds(nodeLock[NodeOf(t)], t)
      /\ nodeLock' = nodeLock /\ storageLock' = storageLock
  BY DEF EnterNode
<1>2. ThreadsSound /\ ThreadSound(t) /\ DOMAIN thread[t] = Fields
  BY DEF IInv, ThreadsSound, ThreadSound
<1>3. /\ OnlyMoves(t) /\ DOMAIN thread'[t] = Fields
      /\ thread'[t].call = thread[t].call /\ thread'[t].searching = thread[t].searching
      /\ \/ /\ Kind(t) \in MountKinds /\ thread'[t].pc = "body"
            /\ thread'[t].depth = thread[t].depth /\ thread'[t].status = thread[t].status
         \/ /\ Kind(t) \notin MountKinds /\ thread'[t].pc \in {"lockStorage", "unlockNode"}
            /\ thread'[t].depth = thread[t].depth
            /\ thread'[t].status \in {thread[t].status, "NodeNotFound"}
         \/ /\ Kind(t) \notin MountKinds /\ thread'[t].pc = "lockNode"
            /\ thread[t].depth # Len(thread[t].call.path)
            /\ thread'[t].depth = thread[t].depth + 1 /\ thread'[t].status = thread[t].status
  BY <1>2, EnterNodeMoves DEF Fields
<1>4. Kind(t)' = Kind(t)
      /\ Kind(t) \in {"get", "delete", "put", "mount", "unmount"}
      /\ (Kind(t) \in {"get", "delete", "put"} => Len(thread[t].call.path) \in Nat)
  BY <1>1, <1>2, <1>3, CallShape DEF Kind, ThreadSound, Path
<1>5. ThreadSound(t)'
  BY <1>1, <1>2, <1>3, <1>4 DEF ThreadSound, PCs, MountKinds
<1>6. ThreadsSound'
  BY <1>2, <1>3, <1>5, Others DEF ThreadsSound, OnlyMoves
<1>7. NodeLocksSound'
  <2>1. CASE thread'[t].pc = "lockNode"
    <3>1. \A n \in AllNodes : Claims(t, n)' <=> Claims(t, n)
      BY <1>1, <1>2, <1>3, <2>1, NodeLength DEF Claims, ThreadSound
    <3>2. \A n \in AllNodes : Awaits(t, n) => Holds(nodeLock[n], t)
      BY <1>1 DEF Awaits
    <3> QED
      BY <1>1, <1>3, <1>4, <3>1, <3>2, NodeLocksKept DEF IInv
  <2>2. CASE thread'[t].pc # "lockNode"
    <3>1. StaysAtNode(t)
      BY <1>1, <1>3, <2>2 DEF StaysAtNode
    <3> QED
      BY <1>1, <3>1, StaysKeepsNodeLocks DEF IInv
  <2> QED
    BY <2>1, <2>2
<1>8. StorageLocksSound'
  BY <1>1, <1>3, OutsideKeepsStorageLocks DEF IInv, UsesStorage, InsideStorage
<1> QED
  BY <1>6, <1>7, <1>8 DEF IInv

LEMMA UnlockNodeKeepsIInv ==
  ASSUME IInv, NEW t \in Threads, UnlockNode(t)
  PROVE  IInv'
<1> DEFINE here == NodeOf(t)
<1>1. /\ thread[t].pc = "unlockNode" /\ storageLock' = storageLock
      /\ nodeLock' = [nodeLock EXCEPT ![here] = AfterUnlock(@, t)]
      /\ thread' = IF thread[t].depth = 0 THEN [thread EXCEPT ![t] = IdleThread]
                   ELSE [thread EXCEPT ![t].depth = @ - 1]
  BY DEF UnlockNode
<1>2. ThreadsSound /\ ThreadSound(t) /\ DOMAIN thread[t] = Fields
  BY DEF IInv, ThreadsSound, ThreadSound
<1>3. OnlyMoves(t) /\ DOMAIN thread'[t] = Fields
  BY <1>1, <1>2 DEF OnlyMoves, ThreadsSound, IdleThread, Fields
<1>4. ThreadSound(t)' /\ ~UsesStorage(t) /\ ~UsesStorage(t)'
      /\ \A n \in AllNodes :
           /\ Claims(t, n)' <=> Claims(t, n) /\ n # here
           /\ Claims(t, n)' => Kind(t)' = Kind(t)
           /\ n = here => Claims(t, n)
           /\ ~Awaits(t, n) /\ ~Awaits(t, n)'
  <2>1. CASE thread[t].depth = 0
    <3>1. /\ thread'[t].pc = "idle" /\ thread'[t].call = NoCall /\ thread'[t].depth = 0
          /\ thread'[t].searching = FALSE /\ thread'[t].status = "none"
      BY <1>1, <1>2, <2>1 DEF ThreadsSound, IdleThread
    <3>2. thread'[t].searching \in BOOLEAN /\ ~thread'[t].searching
      BY <3>1, Zenon
    <3>3. Kind(t)' = "none"
      BY <3>1 DEF Kind, NoCall
    <3>4. ThreadSound(t)'
      BY <1>3, <3>1, <3>2, <3>3 DEF ThreadSound, PCs, MountKinds
    <3>5. ~UsesStorage(t) /\ ~UsesStorage(t)'
      BY <1>1, <3>1 DEF UsesStorage, InsideStorage
    <3> QED
      BY <1>1, <1>2, <2>1, <3>1, <3>4, <3>5, NodeOfThread, NodeLength DEF Claims, Awaits
  <2>2. CASE thread[t].depth # 0
    <3>1. thread'[t] = [thread[t] EXCEPT !.depth = thread[t].depth - 1]
      BY <1>1, <1>2, <2>2 DEF ThreadsSound
    <3>2. /\ thread'[t].pc = "unlockNode" /\ thread'[t].call = thread[t].call
          /\ thread'[t].depth = thread[t].depth - 1
          /\ thread'[t].searching = thread[t].searching /\ thread'[t].status = thread[t].status
      BY <1>1, <1>2, <3>1 DEF Fields
    <3>3. Kind(t)' = Kind(t)
          /\ Kind(t) \in {"none", "get", "delete", "put", "mount", "unmount"}
          /\ (Kind(t) \in {"get", "delete", "put"} => Len(thread[t].call.path) \in Nat)
      BY <1>2, <3>2, CallShape DEF Kind, ThreadSound, Path
    <3>4. ThreadSound(t)'
      BY <1>1, <1>2, <1>3, <2>2, <3>2, <3>3 DEF ThreadSound, PCs, MountKinds
    <3>5. ~UsesStorage(t) /\ ~UsesStorage(t)'
      BY <1>1, <3>2 DEF UsesStorage, InsideStorage
    <3>6. \A n \in AllNodes :
           /\ Claims(t, n)' <=> Claims(t, n) /\ n # here
           /\ n = here => Claims(t, n)
           /\ ~Awaits(t, n) /\ ~Awaits(t, n)'
      BY <1>1, <1>2, <2>2, <3>2, NodeOfThread, NodeLength DEF Claims, Awaits, ThreadSound
    <3> QED
      BY <3>3, <3>4, <3>5, <3>6
  <2> QED
    BY <2>1, <2>2
<1>5. ThreadsSound'
  BY <1>2, <1>3, <1>4, Others DEF ThreadsSound, OnlyMoves
<1>6. NodeLocksSound'
  <2>1. DOMAIN nodeLock = AllNodes /\ DOMAIN nodeLock' = AllNodes
    BY <1>1 DEF IInv, NodeLocksSound
  <2>2. \A u \in Threads, n \in AllNodes :
          /\ Claims(u, n)' <=> Claims(u, n) /\ ~(u = t /\ n = here)
          /\ Claims(u, n)' => NodeEntry(u)' = NodeEntry(u)
          /\ ~Awaits(u, n)' => ~Awaits(u, n)
    BY <1>3, <1>4, Others DEF NodeEntry
  <2> SUFFICES ASSUME NEW n \in AllNodes
               PROVE  /\ Orderly(nodeLock'[n], Threads, NodeModes)
                      /\ Entries(nodeLock'[n])
                           = {NodeEntry(u)' : u \in {w \in Threads : Claims(w, n)'}}
                      /\ \A u \in Threads : Claims(u, n)' /\ ~Awaits(u, n)'
                                              => Holds(nodeLock'[n], u)
    BY <2>1 DEF NodeLocksSound
  <2>3. {NodeEntry(u)' : u \in {w \in Threads : Claims(w, n)'}}
          = {NodeEntry(u) : u \in {w \in Threads : Claims(w, n)'}}
    BY <2>2
  <2>4. /\ Orderly(nodeLock[n], Threads, NodeModes)
        /\ Entries(nodeLock[n]) = {NodeEntry(u) : u \in {w \in Threads : Claims(w, n)}}
        /\ \A u \in Threads : Claims(u, n) /\ ~Awaits(u, n) => Holds(nodeLock[n], u)
    BY DEF IInv, NodeLocksSound
  <2>5. CASE n # here
    <3>1. nodeLock'[n] = nodeLock[n]
      BY <1>1, <2>1, <2>5
    <3> QED
      BY <2>2, <2>3, <2>4, <2>5, <3>1
  <2>6. CASE n = here
    <3>1. nodeLock'[n] = AfterUnlock(nodeLock[n], t)
      BY <1>1, <2>1, <2>6
    <3>2. Holds(nodeLock[n], t)
      BY <1>4, <2>4, <2>6
    <3>3. /\ Orderly(nodeLock'[n], Threads, NodeModes)
          /\ \A u : u # t /\ Holds(nodeLock[n], u) => Holds(nodeLock'[n], u)
      BY <2>4, <3>1, <3>2, AfterUnlockOrderly DEF NodeModes, LockType
    <3>4. Entries(nodeLock'[n]) = {e \in Entries(nodeLock[n]) : e.threadId # t}
      BY <2>4, <3>1, <3>2, EntriesAfterUnlock
    <3>5. Entries(nodeLock'[n]) = {NodeEntry(u) : u \in {w \in Threads : Claims(w, n)'}}
      <4>1. \A u \in Threads : NodeEntry(u).threadId = u
        BY DEF NodeEntry
      <4> QED
        BY <2>2, <2>4, <2>6, <3>4, <4>1
    <3> QED
      BY <2>2, <2>3, <2>4, <2>6, <3>3, <3>5
  <2> QED
    BY <2>5, <2>6
<1>7. StorageLocksSound'
  BY <1>1, <1>3, <1>4, OutsideKeepsStorageLocks DEF IInv
<1> QED
  BY <1>5, <1>6, <1>7 DEF IInv
(***************************************************************************)
(* The bodies of mount() and unmount() move their thread only.             *)
(***************************************************************************)
LEMMA BodyKeepsIInv ==
  ASSUME IInv, NEW t \in Threads, MountBody(t) \/ UnmountBody(t)
  PROVE  IInv'
<1>1. /\ thread[t].pc = "body" /\ nodeLock' = nodeLock /\ storageLock' = storageLock
      /\ \E status \in {"Ok", "InvalidMountId"} :
           thread' = [thread EXCEPT ![t].pc = "unlockNode", ![t].status = status]
  BY DEF MountBody, UnmountBody
<1>2. ThreadsSound /\ ThreadSound(t) /\ DOMAIN thread[t] = Fields
  BY DEF IInv, ThreadsSound, ThreadSound
<1>3. /\ OnlyMoves(t) /\ DOMAIN thread'[t] = Fields /\ thread'[t].pc = "unlockNode"
      /\ thread'[t].call = thread[t].call /\ thread'[t].depth = thread[t].depth
      /\ thread'[t].searching = thread[t].searching
  BY <1>1, <1>2 DEF OnlyMoves, ThreadsSound, Fields
<1>4. Kind(t)' = Kind(t) /\ Kind(t) \in MountKinds
  BY <1>1, <1>2, <1>3, CallShape DEF Kind, ThreadSound, MountKinds
<1>5. ThreadSound(t)'
  BY <1>1, <1>2, <1>3, <1>4 DEF ThreadSound, PCs, MountKinds
<1>6. ThreadsSound'
  BY <1>2, <1>3, <1>5, Others DEF ThreadsSound, OnlyMoves
<1>7. NodeLocksSound'
  BY <1>1, <1>3, StaysKeepsNodeLocks DEF IInv, StaysAtNode
<1>8. StorageLocksSound'
  BY <1>1, <1>3, OutsideKeepsStorageLocks DEF IInv, UsesStorage, InsideStorage
<1> QED
  BY <1>6, <1>7, <1>8 DEF IInv

(***************************************************************************)
(* The methods of LinearHashStorage, between their lock and their unlock.  *)
(***************************************************************************)
LEMMA MethodKeepsIInv ==
  ASSUME IInv, NEW t \in Threads,
         GetValue(t) \/ HasKey(t) \/ RemoveOld(t) \/ InsertNew(t) \/ DeleteValue(t)
  PROVE  IInv'
<1>1. /\ nodeLock' = nodeLock /\ storageLock' = storageLock
      /\ UsesStorage(t)
      /\ InsideStorage(t) \/ Holds(storageLock[thread[t].storage], t)
  BY DEF GetValue, HasKey, RemoveOld, InsertNew, DeleteValue, Entered, UsesStorage, InsideStorage
<1>2. ThreadsSound /\ ThreadSound(t) /\ DOMAIN thread[t] = Fields
  BY DEF IInv, ThreadsSound, ThreadSound
<1>3. /\ OnlyMoves(t) /\ DOMAIN thread'[t] = Fields
      /\ thread'[t].call = thread[t].call /\ thread'[t].depth = thread[t].depth
      /\ thread'[t].storage = thread[t].storage
      /\ InsideStorage(t)'
  BY <1>2 DEF GetValue, HasKey, RemoveOld, InsertNew, DeleteValue, OnlyMoves, ThreadsSound, Fields,
              InsideStorage
<1>4. Kind(t)' = Kind(t)
      /\ Kind(t) \in {"get", "delete", "put"}
      /\ Len(thread[t].call.path) \in Nat
  BY <1>1, <1>2, <1>3, CallShape
     DEF Kind, ThreadSound, Path, UsesStorage, InsideStorage, MountKinds
<1>5. ThreadSound(t)' /\ ModeAsked(t)' = ModeAsked(t)
  <2> USE DEF ThreadSound, ModeAsked, PCs, MountKinds
  <2>1. CASE GetValue(t)
    <3>1. /\ thread[t].pc = "awaitStorage" /\ Kind(t) = "get"
          /\ thread'[t].pc = "unlockStorage" /\ thread'[t].searching = thread[t].searching
      BY <1>2, <2>1 DEF GetValue, Entered, ThreadsSound, Fields
    <3> QED
      BY <1>2, <1>3, <1>4, <3>1
  <2>2. CASE HasKey(t)
    <3>1. /\ thread[t].pc = "awaitStorage" /\ thread[t].searching
          /\ thread'[t].pc = "unlockStorage" /\ thread'[t].status = thread[t].status
          /\ thread'[t].searching = (RecordFor(t) \notin Values)
      BY <1>2, <2>2 DEF HasKey, Entered, ThreadsSound, Fields
    <3>2. thread'[t].searching \in BOOLEAN
      BY <3>1, Zenon
    <3> QED
      BY <1>2, <1>3, <1>4, <3>1, <3>2
  <2>3. CASE RemoveOld(t)
    <3>1. /\ thread[t].pc = "awaitStorage" /\ Kind(t) = "put" /\ ~thread[t].searching
          /\ thread'[t].pc = "insert" /\ thread'[t].searching = thread[t].searching
          /\ thread'[t].status = thread[t].status
      BY <1>2, <2>3 DEF RemoveOld, Entered, ThreadsSound, Fields
    <3> QED
      BY <1>2, <1>3, <1>4, <3>1
  <2>4. CASE InsertNew(t)
    <3>1. /\ thread[t].pc = "insert" /\ thread'[t].pc = "unlockStorage"
          /\ thread'[t].searching = thread[t].searching /\ thread'[t].status = "Ok"
      BY <1>2, <2>4 DEF InsertNew, ThreadsSound, Fields
    <3> QED
      BY <1>2, <1>3, <1>4, <3>1
  <2>5. CASE DeleteValue(t)
    <3>1. /\ thread[t].pc = "awaitStorage" /\ Kind(t) = "delete"
          /\ thread'[t].pc = "unlockStorage" /\ thread'[t].searching = thread[t].searching
      BY <1>2, <2>5 DEF DeleteValue, Entered, ThreadsSound, Fields
    <3> QED
      BY <1>2, <1>3, <1>4, <3>1
  <2> QED
    BY <2>1, <2>2, <2>3, <2>4, <2>5
<1>6. ThreadsSound'
  BY <1>2, <1>3, <1>5, Others DEF ThreadsSound, OnlyMoves
<1>7. NodeLocksSound'
  BY <1>1, <1>3, StaysKeepsNodeLocks DEF IInv, StaysAtNode, UsesStorage, InsideStorage
<1>8. StorageLocksSound'
  <2>1. \A s \in AllStorages :
           /\ Calls(t, s)' <=> Calls(t, s)
           /\ Calls(t, s) => Holds(storageLock[s], t)
    BY <1>1, <1>3 DEF IInv, StorageLocksSound, Calls, UsesStorage
  <2> QED
    BY <1>1, <1>3, <1>5, <2>1, StorageLocksKept DEF IInv
<1> QED
  BY <1>6, <1>7, <1>8 DEF IInv
(***************************************************************************)
(* The lock and unlock of a storage.                                       *)
(***************************************************************************)
LEMMA LockStorageKeepsIInv ==
  ASSUME IInv, NEW t \in Threads, LockStorage(t)
  PROVE  IInv'
<1> DEFINE mode == StorageMode(Kind(t), thread[t].searching)
<1>1. /\ thread[t].pc = "lockStorage" /\ nodeLock' = nodeLock
      /\ \E storage :
           /\ storageLock' = [storageLock EXCEPT ![storage] = AfterLock(@, t, mode)]
           /\ thread' = [thread EXCEPT ![t].pc = "awaitStorage", ![t].storage = storage]
  BY DEF LockStorage
<1>2. PICK storage :
        /\ storageLock' = [storageLock EXCEPT ![storage] = AfterLock(@, t, mode)]
        /\ thread' = [thread EXCEPT ![t].pc = "awaitStorage", ![t].storage = storage]
  BY <1>1
<1>3. ThreadsSound /\ ThreadSound(t) /\ DOMAIN thread[t] = Fields
  BY DEF IInv, ThreadsSound, ThreadSound
<1>4. /\ OnlyMoves(t) /\ DOMAIN thread'[t] = Fields
      /\ thread'[t].pc = "awaitStorage" /\ thread'[t].storage = storage
      /\ thread'[t].call = thread[t].call /\ thread'[t].depth = thread[t].depth
      /\ thread'[t].searching = thread[t].searching /\ thread'[t].status = thread[t].status
  BY <1>2, <1>3 DEF OnlyMoves, ThreadsSound, Fields
<1>5. Kind(t)' = Kind(t)
      /\ Kind(t) \in {"get", "delete", "put"}
      /\ Len(thread[t].call.path) \in Nat
  BY <1>1, <1>3, <1>4, CallShape DEF Kind, ThreadSound, Path, MountKinds
<1>6. ThreadSound(t)' /\ ModeAsked(t)' = mode /\ mode \in StorageModes
  BY <1>1, <1>3, <1>4, <1>5
     DEF ThreadSound, PCs, MountKinds, ModeAsked, StorageMode, StorageModes
<1>7. ThreadsSound'
  BY <1>3, <1>4, <1>6, Others DEF ThreadsSound, OnlyMoves
<1>8. NodeLocksSound'
  BY <1>1, <1>4, StaysKeepsNodeLocks DEF IInv, StaysAtNode
<1>9. StorageLocksSound'
  <2>1. \A s : ~Calls(t, s) /\ (Calls(t, s)' <=> s = storage) /\ ~InsideStorage(t)'
    BY <1>1, <1>4 DEF Calls, UsesStorage, InsideStorage
  <2>2. \A u \in Threads, s \in AllStorages :
          /\ Calls(u, s)' <=> Calls(u, s) \/ (u = t /\ s = storage)
          /\ Calls(u, s) => StorageEntry(u)' = StorageEntry(u)
          /\ Calls(u, s)' /\ InsideStorage(u)' => Calls(u, s) /\ InsideStorage(u)
    BY <1>4, <2>1, Others
  <2>3. StorageEntry(t)' = [threadId |-> t, lockType |-> mode]
    BY <1>6 DEF StorageEntry
  <2>4. DOMAIN storageLock = AllStorages /\ DOMAIN storageLock' = AllStorages
    BY <1>2 DEF IInv, StorageLocksSound
  <2> SUFFICES ASSUME NEW s \in AllStorages
               PROVE  /\ Orderly(storageLock'[s], Threads, StorageModes)
                      /\ Entries(storageLock'[s])
                           = {StorageEntry(u)' : u \in {w \in Threads : Calls(w, s)'}}
                      /\ \A u \in Threads : Calls(u, s)' /\ InsideStorage(u)'
                                              => Holds(storageLock'[s], u)
    BY <2>4 DEF StorageLocksSound
  <2>5. /\ Orderly(storageLock[s], Threads, StorageModes)
        /\ Entries(storageLock[s]) = {StorageEntry(u) : u \in {w \in Threads : Calls(w, s)}}
        /\ \A u \in Threads : Calls(u, s) /\ InsideStorage(u) => Holds(storageLock[s], u)
    BY DEF IInv, StorageLocksSound
  <2>6. CASE s # storage
    <3>1. storageLock'[s] = storageLock[s]
      BY <1>2, <2>4, <2>6
    <3> QED
      BY <2>2, <2>5, <2>6, <3>1
  <2>7. CASE s = storage
    <3>1. storageLock'[s] = AfterLock(storageLock[s], t, mode)
      BY <1>2, <2>4, <2>7
    <3>2. ~Holds(storageLock[s], t) /\ ~Waits(storageLock[s], t)
      BY <2>1, <2>5, ListedIsEntry DEF StorageEntry
    <3>3. /\ Orderly(storageLock'[s], Threads, StorageModes)
          /\ \A u : Holds(storageLock[s], u) => Holds(storageLock'[s], u)
      <4>1. StorageModes \subseteq LockType \ {"NL"}
        BY DEF StorageModes, LockType
      <4> HIDE DEF mode
      <4> QED
        BY <1>6, <2>5, <3>1, <3>2, <4>1, AfterLockOrderly
    <3>4. Entries(storageLock'[s]) = Entries(storageLock[s]) \union {StorageEntry(t)'}
      BY <1>6, <2>3, <2>5, <3>1, EntriesAfterLock DEF Orderly
    <3>5. {w \in Threads : Calls(w, s)'} = {w \in Threads : Calls(w, s)} \union {t}
      BY <2>2, <2>7
    <3>6. {StorageEntry(u)' : u \in {w \in Threads : Calls(w, s)'}}
            = {StorageEntry(u) : u \in {w \in Threads : Calls(w, s)}} \union {StorageEntry(t)'}
      BY <2>2, <3>5
    <3> QED
      BY <2>2, <2>5, <3>3, <3>4, <3>6
  <2> QED
    BY <2>6, <2>7
<1> QED
  BY <1>7, <1>8, <1>9 DEF IInv

LEMMA UnlockStorageKeepsIInv ==
  ASSUME IInv, NEW t \in Threads, UnlockStorage(t)
  PROVE  IInv'
<1> DEFINE storage == thread[t].storage
<1>1. /\ thread[t].pc = "unlockStorage" /\ nodeLock' = nodeLock
      /\ storageLock' = [storageLock EXCEPT ![storage] = AfterUnlock(@, t)]
  BY DEF UnlockStorage
<1>2. ThreadsSound /\ ThreadSound(t) /\ DOMAIN thread[t] = Fields
  BY DEF IInv, ThreadsSound, ThreadSound
<1>3. /\ OnlyMoves(t) /\ DOMAIN thread'[t] = Fields
      /\ thread'[t].pc \in {"lockStorage", "unlockNode"}
      /\ thread'[t].call = thread[t].call /\ thread'[t].depth = thread[t].depth
      /\ thread'[t].searching \in {thread[t].searching, FALSE}
      /\ thread'[t].status \in {thread[t].status, "none"}
      /\ thread'[t].pc = "lockStorage" /\ Kind(t) = "put" => thread'[t].status # "Ok"
  <2> DEFINE th == thread[t]
  <2>1. UnlockStorage(t)
    OBVIOUS
  <2>2. OnlyMoves(t)
    BY <1>2, <2>1, UnlockStorageMoves
  <2>3. \/ thread'[t] = [th EXCEPT !.pc = "lockStorage", !.index = th.index + 1, !.status = "none"]
        \/ /\ th.searching
           /\ thread'[t] = [th EXCEPT !.pc = "lockStorage", !.index = 1, !.searching = FALSE]
        \/ th.status = "none" /\ thread'[t] = [th EXCEPT !.pc = "lockStorage"]
        \/ thread'[t] = [th EXCEPT !.pc = "unlockNode"]
    BY <1>2, <2>1, UnlockStorageMoves
  <2>4. th.searching => th.status # "Ok"
    BY <1>2 DEF ThreadSound
  <2>5. thread'[t].searching \in {th.searching, FALSE}
    BY <1>2, <2>3, Zenon DEF Fields
  <2>6. /\ DOMAIN thread'[t] = Fields
        /\ thread'[t].pc \in {"lockStorage", "unlockNode"}
        /\ thread'[t].call = th.call /\ thread'[t].depth = th.depth
        /\ thread'[t].status \in {th.status, "none"}
        /\ thread'[t].pc = "lockStorage" => thread'[t].status = "none" \/ th.searching
    BY ZenonT(40), <1>2, <2>3 DEF Fields
  <2> QED
    BY <2>2, <2>4, <2>5, <2>6
<1>4. Kind(t)' = Kind(t)
      /\ Kind(t) \in {"get", "delete", "put"}
      /\ Len(thread[t].call.path) \in Nat
  BY <1>1, <1>2, <1>3, CallShape DEF Kind, ThreadSound, Path, MountKinds
<1>5. ThreadSound(t)'
  BY <1>1, <1>2, <1>3, <1>4 DEF ThreadSound, PCs, MountKinds
<1>6. ThreadsSound'
  BY <1>2, <1>3, <1>5, Others DEF ThreadsSound, OnlyMoves
<1>7. NodeLocksSound'
  BY <1>1, <1>3, StaysKeepsNodeLocks DEF IInv, StaysAtNode
<1>8. StorageLocksSound'
  <2>1. \A s : (Calls(t, s) <=> s = storage) /\ ~Calls(t, s)' /\ InsideStorage(t)
    BY <1>1, <1>3 DEF Calls, UsesStorage, InsideStorage
  <2>2. \A u \in Threads, s \in AllStorages :
          /\ Calls(u, s)' <=> Calls(u, s) /\ u # t
          /\ Calls(u, s)' => StorageEntry(u)' = StorageEntry(u)
          /\ Calls(u, s)' /\ InsideStorage(u)' => InsideStorage(u)
    BY <1>3, <2>1, Others
  <2>3. DOMAIN storageLock = AllStorages /\ DOMAIN storageLock' = AllStorages
    BY <1>1 DEF IInv, StorageLocksSound
  <2> SUFFICES ASSUME NEW s \in AllStorages
               PROVE  /\ Orderly(storageLock'[s], Threads, StorageModes)
                      /\ Entries(storageLock'[s])
                           = {StorageEntry(u)' : u \in {w \in Threads : Calls(w, s)'}}
                      /\ \A u \in Threads : Calls(u, s)' /\ InsideStorage(u)'
                                              => Holds(storageLock'[s], u)
    BY <2>3 DEF StorageLocksSound
  <2>4. {StorageEntry(u)' : u \in {w \in Threads : Calls(w, s)'}}
          = {StorageEntry(u) : u \in {w \in Threads : Calls(w, s)'}}
    BY <2>2
  <2>5. /\ Orderly(storageLock[s], Threads, StorageModes)
        /\ Entries(storageLock[s]) = {StorageEntry(u) : u \in {w \in Threads : Calls(w, s)}}
        /\ \A u \in Threads : Calls(u, s) /\ InsideStorage(u) => Holds(storageLock[s], u)
    BY DEF IInv, StorageLocksSound
  <2>6. CASE s # storage
    <3>1. storageLock'[s] = storageLock[s]
      BY <1>1, <2>3, <2>6
    <3>2. {w \in Threads : Calls(w, s)'} = {w \in Threads : Calls(w, s)}
      BY <2>1, <2>2, <2>6
    <3> QED
      BY <2>2, <2>4, <2>5, <3>1, <3>2
  <2>7. CASE s = storage
    <3>1. storageLock'[s] = AfterUnlock(storageLock[s], t)
      BY <1>1, <2>3, <2>7
    <3>2. Holds(storageLock[s], t)
      BY <2>1, <2>5, <2>7
    <3>3. /\ Orderly(storageLock'[s], Threads, StorageModes)
          /\ \A u : u # t /\ Holds(storageLock[s], u) => Holds(storageLock'[s], u)
      BY <2>5, <3>1, <3>2, AfterUnlockOrderly DEF StorageModes, LockType
    <3>4. Entries(storageLock'[s]) = {e \in Entries(storageLock[s]) : e.threadId # t}
      BY <2>5, <3>1, <3>2, EntriesAfterUnlock
    <3>5. Entries(storageLock'[s]) = {StorageEntry(u) : u \in {w \in Threads : Calls(w, s)'}}
      <4>1. \A u \in Threads : StorageEntry(u).threadId = u
        BY DEF StorageEntry
      <4> QED
        BY <2>2, <2>5, <3>4, <4>1
    <3> QED
      BY <2>2, <2>4, <2>5, <3>3, <3>5
  <2> QED
    BY <2>6, <2>7
<1> QED
  BY <1>6, <1>7, <1>8 DEF IInv
-----------------------------------------------------------------------------
(***************************************************************************)
(* Every step of every thread keeps the invariant.                         *)
(***************************************************************************)
LEMMA NextIInv == IInv /\ [Next]_vars => IInv'
<1> SUFFICES ASSUME IInv, [Next]_vars PROVE IInv'
  OBVIOUS
<1>1. ASSUME UNCHANGED <<thread, nodeLock, storageLock>> PROVE IInv'
  BY <1>1 DEF IInv, ThreadsSound, ThreadSound, NodeLocksSound, StorageLocksSound, Kind, NodeOf,
              Claims, Awaits, NodeEntry, Calls, UsesStorage, InsideStorage, StorageEntry, ModeAsked
<1>2. ASSUME NEW t \in Threads, Call(t) \/ Step(t) PROVE IInv'
  BY <1>2, CallKeepsIInv, LockNextNodeKeepsIInv, EnterNodeKeepsIInv, UnlockNodeKeepsIInv,
     BodyKeepsIInv, LockStorageKeepsIInv, UnlockStorageKeepsIInv, MethodKeepsIInv DEF Step
<1>3. ASSUME NEW storage, NEW key, Expire(storage, key) PROVE IInv'
  BY <1>1, <1>3 DEF Expire
<1>4. CASE UNCHANGED vars
  BY <1>1, <1>4 DEF vars
<1> QED
  BY <1>2, <1>3, <1>4 DEF Next

THEOREM Invariance == Spec => []IInv
  BY InitIInv, NextIInv, PTL DEF Spec

(***************************************************************************)
(* A thread past the lock of the root has it.                              *)
(***************************************************************************)
LEMMA RootFirst ==
  ASSUME IInv, NEW t \in Threads
  PROVE  /\ thread[t].pc = "body" \/ AtNode(t) => Holds(nodeLock[<<>>], t)
         /\ \A n \in AllNodes : Holds(nodeLock[n], t) => Holds(nodeLock[<<>>], t)
         /\ \A s \in AllStorages : Holds(storageLock[s], t) => Holds(nodeLock[<<>>], t)
<1>1. ThreadSound(t) /\ thread[t].depth \in Nat /\ <<>> \in AllNodes
  BY NodesArePaths DEF IInv, ThreadsSound, ThreadSound
<1>2. Claims(t, <<>>) /\ ~Awaits(t, <<>>) => Holds(nodeLock[<<>>], t)
  BY <1>1 DEF IInv, NodeLocksSound
<1>3. Len(<<>>) = 0
  BY EmptySeq
<1>4. thread[t].pc = "body" \/ AtNode(t) => Holds(nodeLock[<<>>], t)
  BY <1>1, <1>2, <1>3 DEF Claims, Awaits, AtNode, UsesStorage, InsideStorage
<1>5. ASSUME NEW n \in AllNodes, Holds(nodeLock[n], t) PROVE Holds(nodeLock[<<>>], t)
  <2>1. Claims(t, n)
    BY <1>5, ListedIsEntry DEF IInv, NodeLocksSound, NodeEntry
  <2>2. CASE n = <<>>
    BY <1>5, <2>2
  <2>3. CASE n # <<>>
    <3>1. thread[t].depth > 0
      BY <1>1, <2>1, <2>3, NodeLength DEF Claims
    <3> QED
      BY <1>1, <1>2, <1>3, <2>1, <3>1, NodeOfThread DEF Claims, Awaits
  <2> QED
    BY <2>2, <2>3
<1>6. ASSUME NEW s \in AllStorages, Holds(storageLock[s], t) PROVE Holds(nodeLock[<<>>], t)
  <2>1. UsesStorage(t)
    BY <1>6, ListedIsEntry DEF IInv, StorageLocksSound, StorageEntry, Calls
  <2> QED
    BY <1>4, <2>1 DEF AtNode
<1> QED
  BY <1>4, <1>5, <1>6

(***************************************************************************)
(* While a mount or an unmount runs its body, nobody else has the root.    *)
(***************************************************************************)
LEMMA BodyOwnsRoot ==
  ASSUME IInv, NEW t \in Threads, NEW u \in Threads, t # u, thread[t].pc = "body"
  PROVE  ~Holds(nodeLock[<<>>], u)
<1> DEFINE m == nodeLock[<<>>]
<1> SUFFICES ASSUME Holds(m, u) PROVE FALSE
  OBVIOUS
<1>1. Orderly(m, Threads, NodeModes) /\ Holds(m, t)
  BY RootFirst, NodesArePaths DEF IInv, NodeLocksSound
<1>2. PICK a \in m.runningThreads, b \in m.runningThreads : a.threadId = t /\ b.threadId = u
  BY <1>1 DEF Holds
<1>3. a = NodeEntry(t) /\ b = NodeEntry(u)
  BY <1>2, NodesArePaths DEF IInv, NodeLocksSound, Entries, NodeEntry
<1>4. a.lockType = "X"
  <2>1. Kind(t) \in MountKinds
    BY CallShape DEF IInv, ThreadsSound, ThreadSound, Kind, MountKinds
  <2> QED
    BY <1>3, <2>1 DEF NodeEntry, NodeMode, MountKinds
<1>5. b.lockType \in NodeModes
  BY <1>1, <1>2 DEF Orderly, Mutex, LockNode
<1>6. isCompatible(a.lockType, b.lockType) \/ isCompatible(b.lockType, a.lockType)
  BY <1>1, <1>2, HoldersSuit, LibraryModesCompose DEF NodeModes
<1> QED
  BY <1>4, <1>5, <1>6 DEF isCompatible, compatibilityMatrix, NodeModes, LockType

(***************************************************************************)
(* While the body of a mount or unmount runs, no other thread holds a lock *)
(* of a node or of a storage: its X lock of the root shuts the others out, *)
(* because each of them would have had to lock the root first.             *)
(***************************************************************************)
THEOREM MountsAlone == Spec => []MountExclusive
<1>1. IInv => MountExclusive
  BY RootFirst, BodyOwnsRoot DEF MountExclusive
<1> QED
  BY <1>1, Invariance, PTL

(***************************************************************************)
(* Nothing inserts into the `storages' vector of a node, or erases from    *)
(* it, while a thread walks it.                                            *)
(***************************************************************************)
THEOREM IteratorsValid == Spec => IterationStable
<1> DEFINE Stable ==
      \A t \in Threads : AtNode(t) => nodeStorages'[NodeOf(t)] = nodeStorages[NodeOf(t)]
<1>1. IInv /\ [Next]_vars => [Stable]_vars
  <2> SUFFICES ASSUME IInv, Next, NEW t \in Threads, AtNode(t)
               PROVE  nodeStorages' = nodeStorages
    OBVIOUS
  <2>1. ASSUME NEW u \in Threads, MountBody(u) \/ UnmountBody(u) PROVE FALSE
    <3>1. thread[u].pc = "body"
      BY <2>1 DEF MountBody, UnmountBody
    <3>2. u # t
      BY <3>1 DEF AtNode, UsesStorage, InsideStorage
    <3> QED
      BY <3>1, <3>2, RootFirst, BodyOwnsRoot
  <2>2. ASSUME UNCHANGED tableVars PROVE nodeStorages' = nodeStorages
    BY <2>2 DEF tableVars
  <2> QED
    BY <2>1, <2>2 DEF Next, Step, Call, LockNextNode, EnterNode, UnlockNode, LockStorage,
       UnlockStorage, GetValue, HasKey, RemoveOld, InsertNew, DeleteValue, Expire
<1> QED
  BY <1>1, Invariance, PTL DEF Spec, IterationStable
-----------------------------------------------------------------------------
(***************************************************************************)
(* Only the bodies of mount() and unmount() change the mount table, and    *)
(* what they do to it are operations of the table.                         *)
(***************************************************************************)
LEMMA TableSteps ==
  ASSUME ThreadsSound, [Next]_vars, ~UNCHANGED tableVars
  PROVE  /\ Table!Next
         /\ \E t \in Threads : thread[t].pc = "body" /\ (MountBody(t) \/ UnmountBody(t))
<1>1. PICK t \in Threads : MountBody(t) \/ UnmountBody(t)
  BY DEF Next, Step, vars, Call, LockNextNode, EnterNode, UnlockNode, LockStorage,
         UnlockStorage, GetValue, HasKey, RemoveOld, InsertNew, DeleteValue, Expire
<1>2. thread[t].pc = "body"
  BY <1>1 DEF MountBody, UnmountBody
<1>3. CASE MountBody(t)
  <2>1. thread[t].call.options \in MountOptions /\ Table!Mount(thread[t].call.options)
    BY <1>3, CallShape DEF ThreadsSound, ThreadSound, Kind, MountBody
  <2> QED
    BY <1>1, <1>2, <2>1 DEF Table!Next
<1>4. CASE UnmountBody(t)
  <2>1. thread[t].call.id \in DOMAIN mountPoints /\ Table!Unmount(thread[t].call.id)
    BY <1>4 DEF UnmountBody
  <2> QED
    BY <1>1, <1>2, <2>1 DEF Table!Next
<1> QED
  BY <1>1, <1>3, <1>4

(***************************************************************************)
(* To the mount table, concurrent calls look like mounts and unmounts one  *)
(* after the other: each mount() and unmount() takes effect at one point   *)
(* between its call and its return, and nothing else touches the table.    *)
(***************************************************************************)
THEOREM ImplementsTable == Spec => Table!Spec
<1>1. Init => Table!Init
  BY DEF Init
<1>2. IInv /\ [Next]_vars => [Table!Next]_Table!vars
  BY TableSteps DEF IInv, tableVars, Table!vars
<1> QED
  BY <1>1, <1>2, Invariance, PTL DEF Spec, Table!Spec

(***************************************************************************)
(* What is proved of the mount table holds here: its parameters are what   *)
(* the table asks for.  TableSound needs the hypothesis on keys, see       *)
(* MountTable_proofs.                                                      *)
(***************************************************************************)
LEMMA TableParameters ==
  Table!VolumesAssumption /\ Table!MountOptionsAssumption /\ Table!BoundsAssumption
<1>1. Table!VolumesAssumption
  BY VolumesAssumption DEF Table!VolumesAssumption
<1>2. Table!MountOptionsAssumption
  BY CallsAssumption DEF Table!MountOptionsAssumption
<1>3. Table!BoundsAssumption
  BY CallsAssumption DEF Table!BoundsAssumption
<1> QED
  BY <1>1, <1>2, <1>3

TableSound == Table!IInv /\ Table!Rooted

LEMMA TableStaysSound ==
  /\ Spec => []Table!IInv
  /\ Spec => []Table!NoDanglingStorage
  /\ Table!KeysApart => (Spec => []TableSound)
<1>1. Spec => []Table!IInv
  BY TableParameters, ImplementsTable, Table!Invariance, PTL
<1>2. Spec => []Table!NoDanglingStorage
  BY TableParameters, ImplementsTable, Table!NothingDangles, PTL
<1>3. ASSUME Table!KeysApart PROVE Spec => []TableSound
  <2>1. Table!Spec => [](Table!IInv /\ Table!Rooted)
    BY TableParameters, <1>3, Table!TableConfined, PTL
  <2> QED
    BY <2>1, ImplementsTable, PTL DEF TableSound
<1> QED
  BY <1>1, <1>2, <1>3
-----------------------------------------------------------------------------
(***************************************************************************)
(* Where a thread is in the mount table: every node it has passed exists,  *)
(* and its iterator and its pointer are good.                              *)
(***************************************************************************)
Reached(t) ==
  /\ Kind(t) \in {"get", "put", "delete"} =>
       \A d \in 0..thread[t].depth :
         SubSeq(thread[t].call.path, 1, d) \in DOMAIN nodeStorages
  /\ thread[t].pc \in {"idle", "lockNode", "awaitNode"} => thread[t].index = 1
  /\ AtNode(t) => thread[t].index \in 1..Len(nodeStorages[NodeOf(t)])
  /\ UsesStorage(t) =>
       thread[t].storage = nodeStorages[NodeOf(t)][thread[t].index].storage

AllReached == \A t \in Threads : Reached(t)

(***************************************************************************)
(* What the table of the virtual nodes looks like.                         *)
(***************************************************************************)
LEMMA NodesAndStorages ==
  ASSUME Table!IInv
  PROVE  /\ <<>> \in DOMAIN nodeStorages
         /\ \A n \in DOMAIN nodeStorages : nodeStorages[n] \in Seq(Table!Entry)
BY DEF Table!IInv, Table!Typed, Table!NodesSound

LEMMA InitReached == Init /\ Table!IInv => AllReached
<1> SUFFICES ASSUME Init, Table!IInv, NEW t \in Threads PROVE Reached(t)
  BY DEF AllReached
<1>1. thread[t].pc = "idle" /\ thread[t].index = 1 /\ Kind(t) = "none"
  BY DEF Init, IdleThread, NoCall, Kind
<1> QED
  BY <1>1 DEF Reached, AtNode, UsesStorage, InsideStorage

(***************************************************************************)
(* A step that leaves the table alone, or only runs while a thread is not  *)
(* past the lock of the root, leaves that thread where it is.              *)
(***************************************************************************)
LEMMA OthersReached ==
  ASSUME NEW t, OnlyMoves(t), NEW u \in Threads \ {t}, Reached(u), nodeStorages' = nodeStorages
  PROVE  Reached(u)'
<1>1. thread'[u] = thread[u] /\ Kind(u)' = Kind(u) /\ NodeOf(u)' = NodeOf(u)
  BY DEF OnlyMoves, Kind, NodeOf
<1> QED
  BY <1>1 DEF Reached, AtNode, UsesStorage, InsideStorage

LEMMA BodyReached ==
  ASSUME IInv, AllReached, Table!IInv', NEW t \in Threads, MountBody(t) \/ UnmountBody(t)
  PROVE  AllReached'
<1>1. /\ thread[t].pc = "body"
      /\ \E status \in {"Ok", "InvalidMountId"} :
           thread' = [thread EXCEPT ![t].pc = "unlockNode", ![t].status = status]
  BY DEF MountBody, UnmountBody
<1>2. ThreadsSound /\ ThreadSound(t) /\ DOMAIN thread[t] = Fields
  BY DEF IInv, ThreadsSound, ThreadSound
<1>3. OnlyMoves(t) /\ thread'[t].pc = "unlockNode" /\ thread'[t].call = thread[t].call
  BY <1>1, <1>2 DEF OnlyMoves, ThreadsSound, Fields
<1>4. Kind(t)' \in MountKinds
  BY <1>1, <1>2, <1>3, CallShape DEF Kind, ThreadSound, MountKinds
<1> SUFFICES ASSUME NEW u \in Threads PROVE Reached(u)'
  BY DEF AllReached
<1>5. CASE u = t
  BY <1>3, <1>4, <1>5 DEF Reached, AtNode, UsesStorage, InsideStorage, MountKinds
<1>6. CASE u # t
  <2>1. ThreadSound(u) /\ thread'[u] = thread[u] /\ Kind(u)' = Kind(u) /\ Reached(u)
    BY <1>3, <1>6 DEF IInv, ThreadsSound, OnlyMoves, Kind, AllReached
  <2>2. ~Holds(nodeLock[<<>>], u)
    BY <1>1, <1>6, BodyOwnsRoot
  <2>3. ~AtNode(u)
    BY <2>2, RootFirst
  <2>4. ASSUME Kind(u) \in {"get", "put", "delete"} PROVE thread[u].depth = 0
    <3>1. Claims(u, <<>>) => Awaits(u, <<>>)
      BY <2>2, NodesArePaths DEF IInv, NodeLocksSound
    <3>2. thread[u].pc # "idle" /\ thread[u].depth \in Nat
      BY <2>1, <2>4 DEF ThreadSound, Kind, NoCall
    <3>3. Len(<<>>) = 0 /\ Len(NodeOf(u)) = thread[u].depth
      BY <2>1, NodeOfThread, EmptySeq
    <3> QED
      BY <3>1, <3>2, <3>3 DEF Claims, Awaits
  <2>5. SubSeq(thread[u].call.path, 1, 0) = <<>>
    BY SubSeqEmpty
  <2>6. <<>> \in DOMAIN nodeStorages'
    BY DEF Table!IInv, Table!Typed, Table!NodesSound
  <2>7. ASSUME Kind(u)' \in {"get", "put", "delete"}, NEW d \in 0..thread'[u].depth
        PROVE  SubSeq(thread'[u].call.path, 1, d) \in DOMAIN nodeStorages'
    <3>1. d = 0
      BY <2>1, <2>4, <2>7
    <3> QED
      BY <2>1, <2>5, <2>6, <3>1
  <2>8. ~AtNode(u)' /\ ~UsesStorage(u)'
    BY <2>1, <2>3 DEF AtNode, UsesStorage, InsideStorage
  <2> QED
    BY <2>1, <2>7, <2>8 DEF Reached
<1> QED
  BY <1>5, <1>6

(***************************************************************************)
(* The other steps, one lemma for the walk to the node and one for the     *)
(* loop over its storages.                                                 *)
(***************************************************************************)
LEMMA WalkReached ==
  ASSUME IInv, AllReached, Table!IInv, NEW t \in Threads,
         Call(t) \/ LockNextNode(t) \/ EnterNode(t) \/ UnlockNode(t)
  PROVE  OnlyMoves(t) /\ nodeStorages' = nodeStorages /\ Reached(t)'
<1> DEFINE th == thread[t]
<1>1. /\ ThreadsSound /\ ThreadSound(t) /\ DOMAIN th = Fields /\ th.depth \in Nat
      /\ DOMAIN thread = Threads /\ Reached(t)
  BY DEF IInv, ThreadsSound, ThreadSound, AllReached
<1>2. nodeStorages' = nodeStorages
  BY DEF Call, LockNextNode, EnterNode, UnlockNode, tableVars
<1>3. CASE Call(t)
  <2>1. /\ OnlyMoves(t) /\ thread'[t].pc = "lockNode" /\ thread'[t].depth = 0
        /\ thread'[t].index = 1
    BY ZenonT(40), <1>1, <1>3 DEF Call, OnlyMoves, IdleThread
  <2>2. SubSeq(thread'[t].call.path, 1, 0) \in DOMAIN nodeStorages'
    <3>1. SubSeq(thread'[t].call.path, 1, 0) = <<>>
      BY SubSeqEmpty
    <3> QED
      BY <1>2, <3>1, NodesAndStorages
  <2>3. \A d \in 0..thread'[t].depth : SubSeq(thread'[t].call.path, 1, d) \in DOMAIN nodeStorages'
    BY <2>1, <2>2
  <2> QED
    BY <1>2, <2>1, <2>3 DEF Reached, AtNode, UsesStorage, InsideStorage
<1>4. CASE LockNextNode(t)
  <2>1. /\ OnlyMoves(t) /\ thread'[t].pc = "awaitNode" /\ thread'[t].depth = th.depth
        /\ thread'[t].index = th.index /\ thread'[t].call = th.call /\ th.pc = "lockNode"
    BY <1>1, <1>4 DEF LockNextNode, Goto, OnlyMoves, Fields
  <2> QED
    BY <1>1, <1>2, <2>1 DEF Reached, AtNode, UsesStorage, InsideStorage, Kind
<1>5. CASE UnlockNode(t)
  <2>1. \/ OnlyMoves(t) /\ thread'[t] = IdleThread
        \/ /\ OnlyMoves(t) /\ th.depth # 0 /\ thread'[t].pc = "unlockNode"
           /\ thread'[t].depth = th.depth - 1 /\ thread'[t].call = th.call
    BY <1>1, <1>5 DEF UnlockNode, OnlyMoves, Fields
  <2>2. CASE thread'[t] = IdleThread
    <3>1. thread'[t].pc = "idle" /\ thread'[t].index = 1 /\ Kind(t)' = "none"
      BY <2>2 DEF IdleThread, NoCall, Kind
    <3> QED
      BY <1>2, <2>1, <3>1 DEF Reached, AtNode, UsesStorage, InsideStorage, OnlyMoves
  <2>3. CASE thread'[t] # IdleThread
    <3>1. 0..thread'[t].depth \subseteq 0..th.depth
      BY <1>1, <2>1, <2>3
    <3> QED
      BY <1>1, <1>2, <2>1, <2>3, <3>1 DEF Reached, AtNode, UsesStorage, InsideStorage, Kind
  <2> QED
    BY <2>2, <2>3
<1>6. CASE EnterNode(t)
  <2> DEFINE path == th.call.path
  <2>1. th.pc = "awaitNode" /\ th.index = 1
    BY <1>1, <1>6 DEF EnterNode, Reached
  <2>3. /\ OnlyMoves(t) /\ thread'[t].call = th.call /\ thread'[t].index = 1
        /\ \/ Kind(t) \in MountKinds /\ thread'[t].pc = "body"
           \/ Kind(t) \notin MountKinds /\ thread'[t].pc = "unlockNode" /\ thread'[t].depth = th.depth
           \/ /\ Kind(t) \notin MountKinds /\ nodeStorages[path] # <<>> /\ th.depth = Len(path)
              /\ thread'[t].pc = "lockStorage" /\ thread'[t].depth = th.depth
           \/ /\ Kind(t) \notin MountKinds /\ th.depth # Len(path)
              /\ SubSeq(path, 1, th.depth + 1) \in DOMAIN nodeStorages
              /\ thread'[t].pc = "lockNode" /\ thread'[t].depth = th.depth + 1
    BY ZenonT(40), <1>1, <1>6, <2>1, EnterNodeMoves DEF Fields
  <2>4. Kind(t)' = Kind(t) /\ (Kind(t) \notin MountKinds => path \in Path /\ Kind(t) \in {"get", "put", "delete"})
    BY <1>1, <2>1, <2>3, CallShape DEF Kind, ThreadSound, MountKinds
  <2>5. ASSUME thread'[t].depth = th.depth
        PROVE  /\ NodeOf(t)' = NodeOf(t)
               /\ Kind(t) \in {"get", "put", "delete"} =>
                    \A d \in 0..thread'[t].depth : SubSeq(thread'[t].call.path, 1, d) \in DOMAIN nodeStorages'
    BY <1>1, <1>2, <2>3, <2>4, <2>5 DEF Reached, NodeOf
  <2>6. CASE Kind(t) \in MountKinds /\ thread'[t].pc = "body"
    BY <2>3, <2>4, <2>6, <1>2 DEF Reached, AtNode, UsesStorage, InsideStorage, MountKinds
  <2>7. CASE Kind(t) \notin MountKinds /\ thread'[t].pc = "unlockNode"
    BY <2>3, <2>4, <2>5, <2>7, <1>2 DEF Reached, AtNode, UsesStorage, InsideStorage
  <2>8. CASE Kind(t) \notin MountKinds /\ thread'[t].pc = "lockStorage"
    <3>1. nodeStorages[path] # <<>> /\ th.depth = Len(path) /\ thread'[t].depth = th.depth
      BY <2>3, <2>8
    <3>2. SubSeq(path, 1, Len(path)) = path /\ NodeOf(t) = SubSeq(path, 1, th.depth)
      BY <2>4, <2>8, SubSeqFull DEF Path, NodeOf, MountKinds
    <3>3. path \in DOMAIN nodeStorages /\ nodeStorages[path] # <<>>
      <4>1. SubSeq(path, 1, th.depth) \in DOMAIN nodeStorages
        BY <1>1, <2>4, <2>8 DEF Reached
      <4> HIDE DEF th, path
      <4> QED
        BY <3>1, <3>2, <4>1
    <3>4. nodeStorages[path] \in Seq(Table!Entry) /\ Len(nodeStorages[path]) \in Nat \ {0}
      BY <3>3, NodesAndStorages, EmptySeq
    <3>5. 1 \in 1..Len(nodeStorages'[NodeOf(t)'])
      <4>1. NodeOf(t)' = path
        BY <2>5, <3>1, <3>2
      <4>2. 1 \in 1..Len(nodeStorages[path])
        BY <3>4
      <4> HIDE DEF path
      <4> QED
        BY <1>2, <4>1, <4>2
    <3> QED
      BY <1>2, <2>3, <2>4, <2>5, <2>8, <3>1, <3>5 DEF Reached, AtNode, UsesStorage, InsideStorage
  <2>9. CASE Kind(t) \notin MountKinds /\ thread'[t].pc = "lockNode"
    <3>1. thread'[t].depth = th.depth + 1
      BY <2>3, <2>9
    <3>2. SubSeq(path, 1, th.depth + 1) \in DOMAIN nodeStorages
      BY <2>3, <2>9
    <3>3. \A d \in 0..th.depth + 1 : d \in 0..th.depth \/ d = th.depth + 1
      BY <1>1
    <3>4. \A d \in 0..thread'[t].depth : SubSeq(path, 1, d) \in DOMAIN nodeStorages
      BY <1>1, <2>4, <2>9, <3>1, <3>2, <3>3 DEF Reached
    <3> QED
      BY <1>2, <2>3, <2>9, <3>4 DEF Reached, AtNode, UsesStorage, InsideStorage
  <2> QED
    BY <1>2, <2>3, <2>6, <2>7, <2>8, <2>9
<1> QED
  BY <1>2, <1>3, <1>4, <1>5, <1>6

LEMMA LoopReached ==
  ASSUME IInv, AllReached, Table!IInv, NEW t \in Threads,
         \/ LockStorage(t) \/ UnlockStorage(t)
         \/ GetValue(t) \/ HasKey(t) \/ RemoveOld(t) \/ InsertNew(t) \/ DeleteValue(t)
  PROVE  OnlyMoves(t) /\ nodeStorages' = nodeStorages /\ Reached(t)'
<1> DEFINE th == thread[t]
           entries == nodeStorages[NodeOf(t)]
<1>1. /\ ThreadsSound /\ ThreadSound(t) /\ DOMAIN th = Fields /\ th.depth \in Nat
      /\ DOMAIN thread = Threads /\ Reached(t)
  BY DEF IInv, ThreadsSound, ThreadSound, AllReached
<1>2. nodeStorages' = nodeStorages
  BY DEF LockStorage, UnlockStorage, GetValue, HasKey, RemoveOld, InsertNew, DeleteValue, tableVars
<1>3. AtNode(t)
  BY DEF LockStorage, UnlockStorage, GetValue, HasKey, RemoveOld, InsertNew, DeleteValue, Entered,
         AtNode, UsesStorage, InsideStorage
<1>4. /\ Kind(t) \in {"get", "put", "delete"}
      /\ NodeOf(t) \in DOMAIN nodeStorages /\ th.index \in 1..Len(entries) /\ Len(entries) \in Nat
  <2>1. Kind(t) \in {"get", "put", "delete"}
    BY <1>1, <1>3, CallShape DEF ThreadSound, Kind, AtNode, UsesStorage, InsideStorage, MountKinds
  <2>2. NodeOf(t) = SubSeq(th.call.path, 1, th.depth) /\ th.depth \in 0..th.depth
    BY <1>1, <2>1 DEF NodeOf
  <2>3. NodeOf(t) \in DOMAIN nodeStorages /\ th.index \in 1..Len(entries)
    BY <1>1, <1>3, <2>1, <2>2 DEF Reached
  <2> QED
    BY <2>1, <2>3, NodesAndStorages
<1>5. ASSUME thread'[t].call = th.call, thread'[t].depth = th.depth, OnlyMoves(t),
             thread'[t].pc \notin {"idle", "lockNode", "awaitNode"},
             thread'[t].pc # "unlockNode" => thread'[t].index \in 1..Len(entries),
             UsesStorage(t)' => thread'[t].storage = entries[thread'[t].index].storage
      PROVE  Reached(t)'
  <2>1. Kind(t)' = Kind(t) /\ NodeOf(t)' = NodeOf(t)
    BY <1>5 DEF Kind, NodeOf
  <2>2. AtNode(t)' => thread'[t].pc # "unlockNode"
    BY DEF AtNode, UsesStorage, InsideStorage
  <2> HIDE DEF th, entries
  <2>3. nodeStorages'[NodeOf(t)'] = entries
    BY <1>2, <2>1 DEF entries
  <2> QED
    BY <1>1, <1>2, <1>5, <2>1, <2>2, <2>3 DEF Reached, th
<1>6. CASE LockStorage(t)
  <2>1. /\ OnlyMoves(t) /\ thread'[t].pc = "awaitStorage" /\ thread'[t].call = th.call
        /\ thread'[t].depth = th.depth /\ thread'[t].index = th.index
        /\ thread'[t].storage = entries[th.index].storage
    BY <1>1, <1>6 DEF LockStorage, OnlyMoves, Fields
  <2> QED
    BY <1>2, <1>4, <1>5, <2>1
<1>7. CASE GetValue(t) \/ HasKey(t) \/ RemoveOld(t) \/ InsertNew(t) \/ DeleteValue(t)
  <2>1. /\ OnlyMoves(t) /\ thread'[t].pc \in {"insert", "unlockStorage"}
        /\ thread'[t].call = th.call /\ thread'[t].depth = th.depth
        /\ thread'[t].index = th.index /\ thread'[t].storage = th.storage
    BY <1>1, <1>7 DEF GetValue, HasKey, RemoveOld, InsertNew, DeleteValue, OnlyMoves, Fields
  <2>2. th.storage = entries[th.index].storage
    BY <1>1, <1>7 DEF Reached, GetValue, HasKey, RemoveOld, InsertNew, DeleteValue, Entered,
       UsesStorage, InsideStorage
  <2> QED
    BY <1>2, <1>4, <1>5, <2>1, <2>2
<1>8. CASE UnlockStorage(t)
  <2>1. /\ OnlyMoves(t) /\ thread'[t].call = th.call /\ thread'[t].depth = th.depth
        /\ thread'[t].pc \in {"lockStorage", "unlockNode"}
        /\ \/ thread'[t].index = th.index + 1 /\ ~IsLast(t)
           \/ thread'[t].index = 1
           \/ thread'[t].index = th.index
    <3>1. OnlyMoves(t)
      BY <1>1, <1>8, UnlockStorageMoves
    <3>2. \/ /\ ~IsLast(t)
             /\ thread'[t] = [th EXCEPT !.pc = "lockStorage", !.index = th.index + 1, !.status = "none"]
          \/ thread'[t] = [th EXCEPT !.pc = "lockStorage", !.index = 1, !.searching = FALSE]
          \/ thread'[t] = [th EXCEPT !.pc = "lockStorage"]
          \/ thread'[t] = [th EXCEPT !.pc = "unlockNode"]
      BY <1>1, <1>8, UnlockStorageMoves
    <3> QED
      BY <1>1, <3>1, <3>2 DEF Fields
  <2>2. thread'[t].index \in 1..Len(entries)
    <3>1. IsLast(t) <=> th.index = Len(entries)
      BY DEF IsLast
    <3> HIDE DEF th, entries
    <3> QED
      BY <1>4, <2>1, <3>1
  <2>3. ~UsesStorage(t)'
    BY <2>1 DEF UsesStorage, InsideStorage
  <2> QED
    BY <1>2, <1>5, <2>1, <2>2, <2>3
<1> QED
  BY <1>6, <1>7, <1>8

LEMMA NextReached ==
  ASSUME IInv, AllReached, Table!IInv, Table!IInv', [Next]_vars
  PROVE  AllReached'
<1>1. ASSUME NEW t \in Threads, OnlyMoves(t), nodeStorages' = nodeStorages, Reached(t)'
      PROVE  AllReached'
  BY <1>1, OthersReached DEF AllReached
<1>2. ASSUME thread' = thread, nodeStorages' = nodeStorages PROVE AllReached'
  BY <1>2 DEF AllReached, Reached, AtNode, UsesStorage, InsideStorage, Kind, NodeOf
<1>3. ASSUME NEW t \in Threads, Call(t) \/ Step(t) PROVE AllReached'
  <2>1. CASE Call(t) \/ LockNextNode(t) \/ EnterNode(t) \/ UnlockNode(t)
    BY <1>1, <2>1, WalkReached
  <2>2. CASE MountBody(t) \/ UnmountBody(t)
    BY <2>2, BodyReached
  <2>3. CASE \/ LockStorage(t) \/ UnlockStorage(t)
             \/ GetValue(t) \/ HasKey(t) \/ RemoveOld(t) \/ InsertNew(t) \/ DeleteValue(t)
    BY <1>1, <2>3, LoopReached
  <2> QED
    BY <1>3, <2>1, <2>2, <2>3 DEF Step
<1>4. ASSUME NEW storage, NEW key, Expire(storage, key) PROVE AllReached'
  BY <1>2, <1>4 DEF Expire, tableVars
<1>5. CASE UNCHANGED vars
  BY <1>2, <1>5 DEF vars, tableVars
<1> QED
  BY <1>3, <1>4, <1>5 DEF Next

LEMMA ThreadsReached == Spec => [](IInv /\ AllReached)
<1>1. Init /\ Table!IInv => AllReached
  BY InitReached
<1>2. IInv /\ AllReached /\ Table!IInv /\ Table!IInv' /\ [Next]_vars => AllReached'
  BY NextReached
<1> QED
  BY <1>1, <1>2, Invariance, TableStaysSound, PTL DEF Spec
-----------------------------------------------------------------------------
(***************************************************************************)
(* Where a thread's node and pointer come from.                            *)
(***************************************************************************)
LEMMA PointersListed ==
  ASSUME IInv, AllReached, Table!IInv, NEW t \in Threads
  PROVE  /\ Kind(t) \in {"get", "put", "delete"} => NodeOf(t) \in DOMAIN nodeStorages
         /\ Kind(t) \notin {"get", "put", "delete"} => NodeOf(t) = <<>>
         /\ AtNode(t) => thread[t].index \in DOMAIN nodeStorages[NodeOf(t)]
         /\ UsesStorage(t) =>
              /\ NodeOf(t) \in DOMAIN nodeStorages
              /\ thread[t].index \in DOMAIN nodeStorages[NodeOf(t)]
              /\ thread[t].storage = nodeStorages[NodeOf(t)][thread[t].index].storage
<1>1. ThreadSound(t) /\ Reached(t) /\ thread[t].depth \in Nat
  BY DEF IInv, ThreadsSound, ThreadSound, AllReached
<1>2. Kind(t) \in {"get", "put", "delete"} => NodeOf(t) \in DOMAIN nodeStorages
  BY <1>1 DEF Reached, NodeOf
<1>3. Kind(t) \in {"get", "put", "delete", "none"} \union MountKinds
  BY <1>1, CallShape DEF ThreadSound, Kind, MountKinds
<1>4. Kind(t) \notin {"get", "put", "delete"} => NodeOf(t) = <<>>
  BY <1>3 DEF NodeOf, MountKinds
<1>5. AtNode(t) => NodeOf(t) \in DOMAIN nodeStorages
  <2>1. AtNode(t) => Kind(t) \in {"get", "put", "delete"}
    BY <1>1, <1>3, CallShape DEF ThreadSound, Kind, MountKinds, AtNode, UsesStorage, InsideStorage
  <2> QED
    BY <1>2, <2>1
<1>6. ASSUME AtNode(t) PROVE thread[t].index \in DOMAIN nodeStorages[NodeOf(t)]
  <2> DEFINE n == NodeOf(t)
             i == thread[t].index
  <2>1. n \in DOMAIN nodeStorages /\ i \in 1..Len(nodeStorages[n])
    BY <1>1, <1>5, <1>6 DEF Reached
  <2> HIDE DEF n, i
  <2>2. nodeStorages[n] \in Seq(Table!Entry)
    BY <2>1, NodesAndStorages
  <2>3. i \in DOMAIN nodeStorages[n]
    BY <2>1, <2>2
  <2> QED
    BY <2>3 DEF n, i
<1>7. ASSUME UsesStorage(t)
      PROVE  thread[t].storage = nodeStorages[NodeOf(t)][thread[t].index].storage
  BY <1>1, <1>7 DEF Reached
<1> QED
  BY <1>2, <1>4, <1>5, <1>6, <1>7 DEF AtNode

(***************************************************************************)
(* Under the hypothesis on keys, the nodes and the storages that the table *)
(* lists are among those that have locks.                                  *)
(***************************************************************************)
LEMMA MountableNodesLocked == Table!MountableNodes = AllNodes
BY Zenon DEF Table!MountableNodes, AllNodes, Table!NodesAsked, VolumePaths, Table!NodesTo, NodesTo,
             Table!Transplant, Transplant, Table!IsInSubtree, IsInSubtree, Table!IsPrefix, IsPrefix

LEMMA ListedLocked ==
  ASSUME TableSound, NEW n \in DOMAIN nodeStorages, NEW i \in DOMAIN nodeStorages[n]
  PROVE  nodeStorages[n][i].storage \in AllStorages
<1> DEFINE s == nodeStorages[n][i].storage
<1>1. s \in Table!AskedStorages
  BY TableParameters, Table!EntriesAsked DEF TableSound
<1> HIDE DEF s
<1>2. /\ s.volume \in Volumes /\ s = Storage(s.volume, s.path)
      /\ s.path \in Table!NodesAsked(s.volume)
  BY <1>1 DEF Table!AskedStorages, Table!NodeStorages, Table!Storages, Storage
<1>3. Table!NodesAsked(s.volume) = VolumePaths(s.volume)
  BY Zenon DEF Table!NodesAsked, VolumePaths, Table!NodesTo, NodesTo
<1>4. s \in AllStorages
  BY <1>2, <1>3 DEF AllStorages
<1> QED
  BY <1>4 DEF s

LEMMA PointersLocked ==
  ASSUME IInv, AllReached, TableSound, NEW t \in Threads
  PROVE  /\ NodeOf(t) \in AllNodes
         /\ UsesStorage(t) => thread[t].storage \in AllStorages
<1>1. Table!IInv /\ DOMAIN nodeStorages \subseteq AllNodes
  BY MountableNodesLocked DEF TableSound, Table!Rooted, Table!Confined
<1>2. NodeOf(t) \in AllNodes
  BY <1>1, PointersListed, NodesArePaths
<1>3. ASSUME UsesStorage(t) PROVE thread[t].storage \in AllStorages
  BY <1>1, <1>3, PointersListed, ListedLocked
<1> QED
  BY <1>2, <1>3

(***************************************************************************)
(* A thread that calls through a storage pointer finds the object alive,   *)
(* whatever mounts and unmounts come between, and whatever the volume      *)
(* paths are.                                                              *)
(***************************************************************************)
THEOREM PointersGood == Spec => []StoragesInUseLoaded
<1>1. ASSUME IInv, AllReached, Table!IInv, Table!NoDanglingStorage
      PROVE  StoragesInUseLoaded
  <2> SUFFICES ASSUME NEW t \in Threads, UsesStorage(t)
               PROVE  thread[t].storage \in registry.loaded
    BY DEF StoragesInUseLoaded
  <2>1. /\ NodeOf(t) \in DOMAIN nodeStorages
        /\ thread[t].index \in DOMAIN nodeStorages[NodeOf(t)]
        /\ thread[t].storage = nodeStorages[NodeOf(t)][thread[t].index].storage
    BY <1>1, PointersListed
  <2> QED
    BY <1>1, <2>1 DEF Table!NoDanglingStorage
<1> QED
  BY <1>1, TableStaysSound, ThreadsReached, PTL

(***************************************************************************)
(* Two threads are inside one storage together only if both read: the      *)
(* record of a key is never seen missing between the halves of a put.      *)
(***************************************************************************)
THEOREM AccessesSeparate ==
  ASSUME Table!KeysApart
  PROVE  Spec => []NoConflictingAccess
<1>1. ASSUME IInv, AllReached, TableSound PROVE NoConflictingAccess
  <2> SUFFICES ASSUME NEW t \in Threads, NEW u \in Threads, t # u,
                      InsideStorage(t), InsideStorage(u),
                      thread[t].storage = thread[u].storage, Writes(t)
               PROVE  FALSE
    BY DEF NoConflictingAccess
  <2> DEFINE s == thread[t].storage
             m == storageLock[s]
  <2>1. Calls(t, s) /\ Calls(u, s)
    BY DEF Calls, UsesStorage
  <2>2. s \in AllStorages
    BY <1>1, PointersLocked DEF UsesStorage
  <2>3. Orderly(m, Threads, StorageModes) /\ Holds(m, t) /\ Holds(m, u)
    BY <1>1, <2>1, <2>2 DEF IInv, StorageLocksSound
  <2>4. PICK a \in m.runningThreads, b \in m.runningThreads : a.threadId = t /\ b.threadId = u
    BY <2>3 DEF Holds
  <2>5. a = StorageEntry(t) /\ b = StorageEntry(u)
    BY <1>1, <2>2, <2>4 DEF IInv, StorageLocksSound, Entries, StorageEntry
  <2>6. a.lockType = "X" /\ b.lockType \in StorageModes
    BY <2>5 DEF StorageEntry, ModeAsked, Writes, StorageModes
  <2>7. isCompatible(a.lockType, b.lockType) \/ isCompatible(b.lockType, a.lockType)
    BY <2>3, <2>4, HoldersSuit, LibraryModesCompose DEF StorageModes
  <2> QED
    BY <2>6, <2>7 DEF isCompatible, compatibilityMatrix, StorageModes, LockType
<1>2. Spec => []TableSound
  BY TableStaysSound
<1> QED
  BY <1>1, <1>2, ThreadsReached, PTL
-----------------------------------------------------------------------------
(***************************************************************************)
(* The records, and that the locks are functions.                          *)
(***************************************************************************)
Records == Values \union {Absent, Expired}

RecordsTyped ==
  /\ nodeLock = [n \in AllNodes |-> nodeLock[n]]
  /\ storageLock = [s \in AllStorages |-> storageLock[s]]
  /\ data \in [AllStorages -> [Keys -> Records]]
  /\ \A t \in Threads : thread[t].removed \in Records

LEMMA InitRecords == Init => RecordsTyped
BY DEF Init, RecordsTyped, Records, IdleThread

(***************************************************************************)
(* A thread inside a storage names a record of it.                         *)
(***************************************************************************)
LEMMA RecordsNamed ==
  ASSUME IInv, AllReached, TableSound, NEW t \in Threads, UsesStorage(t)
  PROVE  /\ thread[t].storage \in AllStorages /\ thread[t].call.key \in Keys
         /\ Kind(t) = "put" => thread[t].call.value \in Values
<1>1. thread[t].pc # "idle"
  BY DEF UsesStorage, InsideStorage
<1>2. ThreadSound(t)
  BY DEF IInv, ThreadsSound
<1>3. Kind(t) \in {"get", "put", "delete"}
  BY <1>1, <1>2, CallShape DEF ThreadSound, Kind, MountKinds, UsesStorage, InsideStorage
<1> QED
  BY <1>2, <1>3, PointersLocked, CallShape DEF ThreadSound, Kind

LEMMA NextRecords ==
  ASSUME IInv, AllReached, TableSound, RecordsTyped, [Next]_vars
  PROVE  RecordsTyped'
<1>1. /\ nodeLock = [n \in AllNodes |-> nodeLock[n]]
      /\ storageLock = [s \in AllStorages |-> storageLock[s]]
      /\ data \in [AllStorages -> [Keys -> Records]]
      /\ \A t \in Threads : thread[t].removed \in Records
      /\ DOMAIN thread = Threads /\ \A t \in Threads : DOMAIN thread[t] = Fields
  BY DEF RecordsTyped, IInv, ThreadsSound, ThreadSound
<1>2. nodeLock' = [n \in AllNodes |-> nodeLock'[n]]
  <2>1. \/ nodeLock' = nodeLock
        \/ \E n, m : nodeLock' = [nodeLock EXCEPT ![n] = m]
    BY DEF Next, Step, vars, Call, LockNextNode, EnterNode, UnlockNode, MountBody, UnmountBody,
           LockStorage, UnlockStorage, GetValue, HasKey, RemoveOld, InsertNew, DeleteValue, Expire
  <2> QED
    BY <1>1, <2>1
<1>3. storageLock' = [s \in AllStorages |-> storageLock'[s]]
  <2>1. \/ storageLock' = storageLock
        \/ \E s, m : storageLock' = [storageLock EXCEPT ![s] = m]
    BY DEF Next, Step, vars, Call, LockNextNode, EnterNode, UnlockNode, MountBody, UnmountBody,
           LockStorage, UnlockStorage, GetValue, HasKey, RemoveOld, InsertNew, DeleteValue, Expire
  <2> QED
    BY <1>1, <2>1
<1>4. Absent \in Records /\ Expired \in Records /\ Values \subseteq Records
  BY DEF Records
<1>5. ASSUME NEW t \in Threads, RemoveOld(t) \/ DeleteValue(t) \/ InsertNew(t)
      PROVE  data' \in [AllStorages -> [Keys -> Records]]
  <2> DEFINE s == thread[t].storage
             key == thread[t].call.key
  <2>1. s \in AllStorages /\ key \in Keys /\ (Kind(t) = "put" => thread[t].call.value \in Values)
    BY <1>5, RecordsNamed
       DEF RemoveOld, DeleteValue, InsertNew, Entered, UsesStorage, InsideStorage
  <2>2. CASE RemoveOld(t) \/ DeleteValue(t)
    <3>1. data' = [data EXCEPT ![s][key] = Absent]
      BY <2>2 DEF RemoveOld, DeleteValue, Write
    <3> HIDE DEF s, key
    <3> QED
      BY <1>1, <1>4, <2>1, <3>1
  <2>3. CASE InsertNew(t)
    <3>1. PICK dropped :
            data' = [data EXCEPT ![s] = [k \in Keys |-> IF k = key THEN thread[t].call.value
                                                        ELSE IF k \in dropped THEN Absent ELSE @[k]]]
      BY <2>3 DEF InsertNew
    <3>2. thread[t].call.value \in Records
      BY <1>4, <2>1, <2>3 DEF InsertNew, IInv, ThreadsSound, ThreadSound
    <3> HIDE DEF s, key
    <3>3. [k \in Keys |-> IF k = key THEN thread[t].call.value
                          ELSE IF k \in dropped THEN Absent ELSE data[s][k]] \in [Keys -> Records]
      BY <1>1, <1>4, <2>1, <3>2
    <3> QED
      BY <1>1, <3>1, <3>3
  <2> QED
    BY <1>5, <2>2, <2>3
<1>6. data' \in [AllStorages -> [Keys -> Records]]
  <2>1. ASSUME NEW s, NEW key, Expire(s, key) PROVE data' \in [AllStorages -> [Keys -> Records]]
    BY <1>1, <1>4, <2>1 DEF Expire
  <2>2. CASE data' = data
    BY <1>1, <2>2
  <2> QED
    BY <1>5, <2>1, <2>2 DEF Next, Step, vars, Call, LockNextNode, EnterNode, UnlockNode, MountBody,
       UnmountBody, LockStorage, UnlockStorage, GetValue, HasKey
<1>7. ASSUME NEW t \in Threads PROVE thread'[t].removed \in Records
  <2>1. CASE UNCHANGED thread
    BY <1>1, <2>1
  <2>2. ASSUME NEW u \in Threads, Call(u) \/ Step(u) PROVE thread'[t].removed \in Records
    <3>1. CASE RemoveOld(u)
      <4>1. RecordFor(u) \in Records
        BY <1>1, <3>1, RecordsNamed DEF RecordFor, RemoveOld, Entered, UsesStorage, InsideStorage
      <4>2. thread'[t].removed \in {RecordFor(u), thread[t].removed}
        BY <1>1, <3>1 DEF RemoveOld, Fields
      <4> QED
        BY <1>1, <4>1, <4>2
    <3>2. CASE Call(u)
      <4>1. thread'[t].removed \in {Absent, thread[t].removed}
        BY <1>1, <3>2 DEF Call, IdleThread
      <4> QED
        BY <1>1, <1>4, <4>1
    <3>3. CASE UnlockNode(u)
      <4>1. thread'[t].removed \in {Absent, thread[t].removed}
        BY <1>1, <3>3 DEF UnlockNode, IdleThread, Fields
      <4> QED
        BY <1>1, <1>4, <4>1
    <3>4. CASE UnlockStorage(u)
      <4>1. OnlyMoves(u) /\ thread'[u].removed = thread[u].removed
        <5> DEFINE th == thread[u]
        <5>1. /\ OnlyMoves(u)
              /\ \/ thread'[u] = [th EXCEPT !.pc = "lockStorage", !.index = th.index + 1,
                                            !.status = "none"]
                 \/ thread'[u] = [th EXCEPT !.pc = "lockStorage", !.index = 1, !.searching = FALSE]
                 \/ thread'[u] = [th EXCEPT !.pc = "lockStorage"]
                 \/ thread'[u] = [th EXCEPT !.pc = "unlockNode"]
          BY <3>4, UnlockStorageMoves DEF IInv
        <5> QED
          BY <1>1, <5>1 DEF Fields
      <4> QED
        BY <1>1, <4>1 DEF OnlyMoves
    <3>5. CASE EnterNode(u)
      <4>1. OnlyMoves(u) /\ thread'[u].removed = thread[u].removed
        <5> DEFINE th == thread[u]
        <5>1. /\ OnlyMoves(u)
              /\ \/ thread'[u] = [th EXCEPT !.pc = "body"]
                 \/ thread'[u] = [th EXCEPT !.pc = "unlockNode", !.status = "NodeNotFound"]
                 \/ thread'[u] = [th EXCEPT !.pc = "lockStorage"]
                 \/ thread'[u] = [th EXCEPT !.pc = "lockNode", !.depth = th.depth + 1]
          BY <3>5, EnterNodeMoves DEF IInv
        <5> QED
          BY <1>1, <5>1 DEF Fields
      <4> QED
        BY <1>1, <4>1 DEF OnlyMoves
    <3>6. CASE LockNextNode(u) \/ MountBody(u) \/ UnmountBody(u) \/ LockStorage(u)
      <4>1. thread'[t].removed = thread[t].removed
        <5>1. CASE LockNextNode(u)
          BY <1>1, <5>1 DEF LockNextNode, Goto, Fields
        <5>2. CASE MountBody(u)
          BY <1>1, <5>2 DEF MountBody, Fields
        <5>3. CASE UnmountBody(u)
          BY <1>1, <5>3 DEF UnmountBody, Fields
        <5>4. CASE LockStorage(u)
          BY <1>1, <5>4 DEF LockStorage, Fields
        <5> QED
          BY <3>6, <5>1, <5>2, <5>3, <5>4
      <4> QED
        BY <1>1, <4>1
    <3>7. CASE GetValue(u) \/ HasKey(u) \/ InsertNew(u) \/ DeleteValue(u)
      <4>1. thread'[t].removed = thread[t].removed
        <5>1. CASE GetValue(u)
          BY <1>1, <5>1 DEF GetValue, Fields
        <5>2. CASE HasKey(u)
          BY <1>1, <5>2 DEF HasKey, Fields
        <5>3. CASE InsertNew(u)
          BY <1>1, <5>3 DEF InsertNew, Fields
        <5>4. CASE DeleteValue(u)
          BY <1>1, <5>4 DEF DeleteValue, Fields
        <5> QED
          BY <3>7, <5>1, <5>2, <5>3, <5>4
      <4> QED
        BY <1>1, <4>1
    <3> QED
      BY <2>2, <3>1, <3>2, <3>3, <3>4, <3>5, <3>6, <3>7 DEF Step
  <2> QED
    BY <2>1, <2>2 DEF Next, vars, Expire
<1> QED
  BY <1>2, <1>3, <1>6, <1>7 DEF RecordsTyped

(***************************************************************************)
(* Every variable of the threads, locks and records has its type, if no    *)
(* volume's keys reach into those of a volume node another volume's mount  *)
(* asks for: threads only lock nodes and storages that the mounts can      *)
(* bring forth, and what a thread's iterator is at is in its vector.       *)
(***************************************************************************)
THEOREM TypeCorrect ==
  ASSUME Table!KeysApart
  PROVE  Spec => []TypeOK
<1>1. ASSUME IInv, AllReached, TableSound, RecordsTyped PROVE TypeOK
  <2>1. nodeLock \in [AllNodes -> Mutex(Threads, NodeModes)]
    BY <1>1 DEF IInv, NodeLocksSound, Orderly, RecordsTyped
  <2>2. storageLock \in [AllStorages -> Mutex(Threads, StorageModes)]
    BY <1>1 DEF IInv, StorageLocksSound, Orderly, RecordsTyped
  <2>3. ASSUME NEW t \in Threads
        PROVE  /\ thread[t].pc \in PCs
               /\ thread[t].call \in Repertoire[t] \union {NoCall}
               /\ NodeOf(t) \in AllNodes
               /\ AtNode(t) => thread[t].index \in DOMAIN nodeStorages[NodeOf(t)]
    BY <1>1, PointersLocked, PointersListed DEF IInv, ThreadsSound, ThreadSound, TableSound
  <2> QED
    BY <1>1, <2>1, <2>2, <2>3 DEF RecordsTyped, Records, TypeOK, NodeModes, StorageModes
<1>2. Spec => []TableSound
  BY TableStaysSound
<1>3. IInv /\ AllReached /\ TableSound /\ RecordsTyped /\ [Next]_vars => RecordsTyped'
  BY NextRecords
<1> QED
  BY <1>1, <1>2, <1>3, InitRecords, ThreadsReached, PTL DEF Spec
=============================================================================
