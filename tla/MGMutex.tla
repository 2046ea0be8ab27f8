------------------------------ MODULE MGMutex -------------------------------
(***************************************************************************)
(* One MGMutex (utility/MGMutex.cpp) and the threads that lock and unlock  *)
(* it through an MGLockGuard (utility/MGLockGuard.hpp): a guard locks in   *)
(* its constructor and unlocks in its destructor, so a thread never locks  *)
(* a mutex it already holds or waits for.                                  *)
(***************************************************************************)
EXTENDS MGLock

CONSTANTS
  Threads,  \* the threads
  Modes     \* the lock modes they ask for

(***************************************************************************)
(* No caller in the code locks with the null mode kNL.                     *)
(***************************************************************************)
ASSUME ModesAssumption == Modes \subseteq LockType \ {"NL"}

VARIABLES
  mutex,    \* the mutex
  pc        \* per thread: outside, spinning in lock(), or inside

vars == <<mutex, pc>>

Init ==
  /\ mutex = FreeMutex
  /\ pc = [t \in Threads |-> "idle"]

(***************************************************************************)
(* The critical section at the top of lock().                              *)
(***************************************************************************)
Lock(t, lockType) ==
  /\ pc[t] = "idle"
  /\ mutex' = AfterLock(mutex, t, lockType)
  /\ pc' = [pc EXCEPT ![t] =
              IF EntersAtOnce(mutex, lockType) THEN "holding" ELSE "polling"]

(***************************************************************************)
(* The last turn of the loop in lock(): the thread finds itself running.   *)
(* The turns before it change nothing.                                     *)
(***************************************************************************)
Poll(t) ==
  /\ pc[t] = "polling"
  /\ Holds(mutex, t)
  /\ pc' = [pc EXCEPT ![t] = "holding"]
  /\ UNCHANGED mutex

Unlock(t) ==
  /\ pc[t] = "holding"
  /\ mutex' = AfterUnlock(mutex, t)
  /\ pc' = [pc EXCEPT ![t] = "idle"]

Next ==
  \E t \in Threads :
    \/ \E lockType \in Modes : Lock(t, lockType)
    \/ Poll(t)
    \/ Unlock(t)

(***************************************************************************)
(* A spinning thread yields and is scheduled again; a guard is destroyed   *)
(* at the end of its scope.  Nothing obliges a thread to lock.             *)
(***************************************************************************)
Fairness == \A t \in Threads : WF_vars(Poll(t)) /\ WF_vars(Unlock(t))

Spec == Init /\ [][Next]_vars

FairSpec == Spec /\ Fairness
-----------------------------------------------------------------------------
(***************************************************************************)
(* Every field of the mutex and every program counter has its type, and    *)
(* the mode is the null mode exactly if nobody is inside: a mode left      *)
(* behind would keep newcomers out of an empty mutex for good.             *)
(***************************************************************************)
TypeOK ==
  /\ mutex \in Mutex(Threads, Modes)
  /\ mutex.currentType = "NL" <=> mutex.runningThreads = {}
  /\ pc \in [Threads -> {"idle", "polling", "holding"}]

(***************************************************************************)
(* What a granted mode entitles a thread to, after the definition of       *)
(* multiple granularity locking: Whole on everything under the lock, with  *)
(* no further lock, and Below on parts it will lock one level down.        *)
(***************************************************************************)
Whole(lockType) ==
  CASE lockType \in {"S", "SIX"} -> {"read"}
    [] lockType = "X" -> {"read", "write"}
    [] OTHER -> {}

Below(lockType) ==
  CASE lockType = "NL" -> {}
    [] lockType \in {"IS", "S"} -> {"read"}
    [] OTHER -> {"read", "write"}

Conflict(rights1, rights2) == rights1 # {} /\ rights2 # {} /\ "write" \in rights1 \union rights2

Exclude(lockType1, lockType2) ==
  \/ Conflict(Whole(lockType1), Below(lockType2))
  \/ Conflict(Whole(lockType2), Below(lockType1))

(***************************************************************************)
(* No two threads are ever inside with modes whose rights conflict.  The   *)
(* mutex compares a newcomer with its current mode only, the mode of the   *)
(* first thread that entered, and never with the other threads inside.     *)
(***************************************************************************)
HoldersCompatible ==
  \A a, b \in mutex.runningThreads : a.threadId # b.threadId => ~Exclude(a.lockType, b.lockType)

(***************************************************************************)
(* A waiting thread has a reason to wait: somebody is inside, and the      *)
(* first waiter is incompatible with the current mode.  If the mutex could *)
(* be empty with threads queued, nobody would be left to promote them.     *)
(***************************************************************************)
NoLostWakeup == WaitersBlocked(mutex)

(***************************************************************************)
(* The list a thread is on is the one its program counter implies, and it  *)
(* is on it once.  unlock() asserts that it finds the caller.              *)
(***************************************************************************)
ListsMatchThreads ==
  /\ \A t \in Threads :
       /\ pc[t] = "holding" => Holds(mutex, t)
       /\ pc[t] = "polling" => Holds(mutex, t) \/ Waits(mutex, t)
       /\ pc[t] = "idle" => ~Holds(mutex, t) /\ ~Waits(mutex, t)
  /\ EachThreadOnce(mutex)

(***************************************************************************)
(* Threads enter in the order in which they asked: when one that waits, or *)
(* has just called lock(), gets in, so do all that were queued before it.  *)
(***************************************************************************)
NoOvertaking ==
  [][\A t \in Threads : \A i \in DOMAIN mutex.waitingThreads :
       /\ ~Holds(mutex, t) /\ Holds(mutex', t)
       /\ \A k \in 1..i : mutex.waitingThreads[k].threadId # t
       => Holds(mutex', mutex.waitingThreads[i].threadId)]_vars

(***************************************************************************)
(* A thread that waits in lock() gets in: no thread starves.               *)
(***************************************************************************)
EveryLockGranted == \A t \in Threads : pc[t] = "polling" ~> pc[t] = "holding"
=============================================================================
