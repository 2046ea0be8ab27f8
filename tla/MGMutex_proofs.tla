--------------------------- MODULE MGMutex_proofs ---------------------------
(***************************************************************************)
(* Safety of one MGMutex for any number of threads.  The inductive         *)
(* invariant adds to the checked ones how the current mode came about: the *)
(* thread that entered first set it, and everybody else inside was         *)
(* compared with it.                                                       *)
(***************************************************************************)
EXTENDS MGMutex, MGLock_proofs

IInv ==
  /\ TypeOK
  /\ Orderly(mutex, Threads, Modes)
  /\ ListsMatchThreads

(***************************************************************************)
(* The state after construction: a free mutex, every thread outside.       *)
(***************************************************************************)
LEMMA InitIInv == Init => IInv
<1> SUFFICES ASSUME Init PROVE IInv
  OBVIOUS
<1>1. /\ mutex.currentType = "NL" /\ mutex.runningThreads = {}
      /\ mutex.waitingThreads = <<>> /\ mutex \in Mutex(Threads, Modes)
  BY EmptySeq DEF Init, FreeMutex, Mutex
<1>2. TypeOK
  BY <1>1 DEF Init, TypeOK
<1>3. EachThreadOnce(mutex) /\ WaitersBlocked(mutex) /\ AdmittedByFirst(mutex, Threads, Modes)
  BY <1>1 DEF EachThreadOnce, WaitersBlocked, AdmittedByFirst
<1>4. ListsMatchThreads
  BY <1>1, <1>3 DEF Init, ListsMatchThreads, Holds, Waits
<1> QED
  BY <1>1, <1>2, <1>3, <1>4 DEF IInv, Orderly

(***************************************************************************)
(* Every step of lock() and unlock(), by any thread, keeps the invariant.  *)
(***************************************************************************)
LEMMA NextIInv == IInv /\ [Next]_vars => IInv'
<1> SUFFICES ASSUME IInv, [Next]_vars PROVE IInv'
  OBVIOUS
<1> USE ModesAssumption
<1>1. /\ Orderly(mutex, Threads, Modes)
      /\ pc \in [Threads -> {"idle", "polling", "holding"}]
      /\ \A t \in Threads :
           /\ pc[t] = "holding" => Holds(mutex, t)
           /\ pc[t] = "polling" => Holds(mutex, t) \/ Waits(mutex, t)
           /\ pc[t] = "idle" => ~Holds(mutex, t) /\ ~Waits(mutex, t)
  BY DEF IInv, TypeOK, ListsMatchThreads
<1>2. ASSUME NEW t \in Threads, NEW lockType \in Modes, Lock(t, lockType)
      PROVE  IInv'
  <2>1. ~Holds(mutex, t) /\ ~Waits(mutex, t)
    BY <1>1, <1>2 DEF Lock
  <2>2. /\ Orderly(mutex', Threads, Modes)
        /\ \A u : Holds(mutex', u) <=> Holds(mutex, u) \/ (u = t /\ EntersAtOnce(mutex, lockType))
        /\ \A u : Waits(mutex', u) <=> Waits(mutex, u) \/ (u = t /\ ~EntersAtOnce(mutex, lockType))
    BY <1>1, <1>2, <2>1, AfterLockOrderly DEF Lock
  <2>3. pc' = [pc EXCEPT ![t] = IF EntersAtOnce(mutex, lockType) THEN "holding" ELSE "polling"]
    BY <1>2 DEF Lock
  <2>4. TypeOK'
    BY <1>1, <2>2, <2>3 DEF TypeOK, Orderly, AdmittedByFirst
  <2>5. ListsMatchThreads'
    BY <1>1, <2>2, <2>3 DEF ListsMatchThreads, Orderly
  <2> QED
    BY <2>2, <2>4, <2>5 DEF IInv
<1>3. ASSUME NEW t \in Threads, Poll(t)
      PROVE  IInv'
  <2>1. mutex' = mutex /\ Holds(mutex, t) /\ pc' = [pc EXCEPT ![t] = "holding"]
    BY <1>3 DEF Poll
  <2>2. TypeOK'
    BY <1>1, <2>1 DEF TypeOK, Orderly, AdmittedByFirst
  <2>3. ListsMatchThreads'
    BY <1>1, <2>1 DEF ListsMatchThreads, Orderly
  <2> QED
    BY <1>1, <2>1, <2>2, <2>3 DEF IInv
<1>4. ASSUME NEW t \in Threads, Unlock(t)
      PROVE  IInv'
  <2>1. Holds(mutex, t)
    BY <1>1, <1>4 DEF Unlock
  <2>2. /\ Orderly(mutex', Threads, Modes)
        /\ \A u : (Holds(mutex', u) \/ Waits(mutex', u))
                    <=> u # t /\ (Holds(mutex, u) \/ Waits(mutex, u))
        /\ \A u : u # t /\ Holds(mutex, u) => Holds(mutex', u)
    BY <1>1, <1>4, <2>1, AfterUnlockOrderly DEF Unlock
  <2>3. pc' = [pc EXCEPT ![t] = "idle"]
    BY <1>4 DEF Unlock
  <2>4. TypeOK'
    BY <1>1, <2>2, <2>3 DEF TypeOK, Orderly, AdmittedByFirst
  <2>5. ListsMatchThreads'
    BY <1>1, <2>2, <2>3 DEF ListsMatchThreads, Orderly
  <2> QED
    BY <2>2, <2>4, <2>5 DEF IInv
<1>5. CASE UNCHANGED vars
  BY <1>5 DEF vars, IInv, TypeOK, ListsMatchThreads
<1> QED
  BY <1>2, <1>3, <1>4, <1>5 DEF Next

(***************************************************************************)
(* The strengthened invariant holds in every reachable state.              *)
(***************************************************************************)
THEOREM Invariance == Spec => []IInv
  BY InitIInv, NextIInv, PTL DEF Spec

(***************************************************************************)
(* The fields of the mutex and the program counters have their types, for  *)
(* any threads and modes, and the current mode is kNL exactly if nobody is *)
(* inside: what the last one leaves keeps no newcomer out.                 *)
(***************************************************************************)
THEOREM TypeCorrect == Spec => []TypeOK
<1>1. IInv => TypeOK
  BY DEF IInv
<1> QED
  BY <1>1, Invariance, PTL

(***************************************************************************)
(* Each thread is where its call implies, once: unlock() always finds its  *)
(* caller, which it asserts.                                               *)
(***************************************************************************)
THEOREM ListsCorrect == Spec => []ListsMatchThreads
<1>1. IInv => ListsMatchThreads
  BY DEF IInv
<1> QED
  BY <1>1, Invariance, PTL

(***************************************************************************)
(* No wake-up is lost: whoever waits in lock() has somebody inside who     *)
(* will promote the queue, and could not enter now.                        *)
(***************************************************************************)
THEOREM NoWakeupLost == Spec => []NoLostWakeup
<1>1. IInv => NoLostWakeup
  BY DEF IInv, Orderly, NoLostWakeup
<1> QED
  BY <1>1, Invariance, PTL

(***************************************************************************)
(* The compatibility matrix grants no two modes with conflicting rights    *)
(* together, and is symmetric.                                             *)
(***************************************************************************)
LEMMA CompatibleDoNotExclude ==
  ASSUME NEW a \in LockType, NEW b \in LockType, isCompatible(a, b)
  PROVE  ~Exclude(a, b) /\ isCompatible(b, a)
BY DEF LockType, isCompatible, compatibilityMatrix, Exclude, Conflict, Whole, Below

(***************************************************************************)
(* Threads inside together never have conflicting rights, provided the     *)
(* modes in use compose: it is enough then that each was compared with the *)
(* mode of the first.                                                      *)
(***************************************************************************)
THEOREM MutualExclusion == ModesCompose(Modes) => (Spec => []HoldersCompatible)
<1> SUFFICES ASSUME ModesCompose(Modes) PROVE Spec => []HoldersCompatible
  OBVIOUS
<1>1. IInv => HoldersCompatible
  <2> SUFFICES ASSUME IInv,
                      NEW a \in mutex.runningThreads, NEW b \in mutex.runningThreads,
                      a.threadId # b.threadId
               PROVE  ~Exclude(a.lockType, b.lockType)
    BY DEF HoldersCompatible
  <2>1. /\ a \in LockNode(Threads, Modes) /\ b \in LockNode(Threads, Modes)
        /\ a.lockType \in Modes /\ b.lockType \in Modes
        /\ Modes \subseteq LockType
    BY ModesAssumption DEF IInv, Orderly, Mutex, LockNode
  <2>2. isCompatible(a.lockType, b.lockType) \/ isCompatible(b.lockType, a.lockType)
    BY HoldersSuit DEF IInv
  <2> QED
    BY <2>1, <2>2, CompatibleDoNotExclude
<1> QED
  BY <1>1, Invariance, PTL

(***************************************************************************)
(* So every mutex of the library excludes what it should, for any number   *)
(* of threads.                                                             *)
(***************************************************************************)
THEOREM LibraryMutualExclusion ==
  Modes \in {{"IS", "IX", "X"}, {"S", "X"}} => (Spec => []HoldersCompatible)
BY MutualExclusion, LibraryModesCompose

(***************************************************************************)
(* Threads enter in the order in which they called lock().                 *)
(***************************************************************************)
THEOREM Fifo == Spec => NoOvertaking
<1> DEFINE InOrder ==
      \A t \in Threads : \A i \in DOMAIN mutex.waitingThreads :
        /\ ~Holds(mutex, t) /\ Holds(mutex', t)
        /\ \A k \in 1..i : mutex.waitingThreads[k].threadId # t
        => Holds(mutex', mutex.waitingThreads[i].threadId)
<1>1. IInv /\ [Next]_vars => [InOrder]_vars
  <2> SUFFICES ASSUME IInv, Next,
                      NEW t \in Threads, NEW i \in DOMAIN mutex.waitingThreads,
                      ~Holds(mutex, t), Holds(mutex', t),
                      \A k \in 1..i : mutex.waitingThreads[k].threadId # t
               PROVE  Holds(mutex', mutex.waitingThreads[i].threadId)
    OBVIOUS
  <2>1. ASSUME NEW u \in Threads, NEW lockType \in Modes, Lock(u, lockType)
        PROVE  FALSE
    <3>1. ~EntersAtOnce(mutex, lockType)
      BY DEF EntersAtOnce
    <3>2. ~Holds(mutex, u) /\ ~Waits(mutex, u)
      BY <2>1 DEF Lock, IInv, ListsMatchThreads
    <3>3. Holds(mutex', t) <=> Holds(mutex, t)
      BY <2>1, <3>1, <3>2, AfterLockOrderly, ModesAssumption DEF Lock, IInv
    <3> QED
      BY <3>3
  <2>2. ASSUME NEW u \in Threads, Poll(u)
        PROVE  FALSE
    BY <2>2 DEF Poll
  <2>3. ASSUME NEW u \in Threads, Unlock(u)
        PROVE  Holds(mutex', mutex.waitingThreads[i].threadId)
    <3>1. mutex' = AfterUnlock(mutex, u)
      BY <2>3 DEF Unlock
    <3> QED
      BY <3>1, AfterUnlockInOrder DEF IInv
  <2> QED
    BY <2>1, <2>2, <2>3 DEF Next
<1> QED
  BY <1>1, Invariance, PTL DEF Spec, NoOvertaking
=============================================================================
