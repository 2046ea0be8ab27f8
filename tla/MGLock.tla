------------------------------- MODULE MGLock -------------------------------
(***************************************************************************)
(* The state of one MGMutex (utility/MGMutex.hpp) as a value, and its two  *)
(* operations as functions from a mutex to the mutex they leave behind.    *)
(* Every access of the code to that state runs under the std::mutex        *)
(* m_mutex, so each operator below is one atomic step.  The modules that   *)
(* hold mutexes in their variables (MGMutex, VirtualStorage) build their   *)
(* actions from these operators.                                           *)
(***************************************************************************)
EXTENDS Naturals, Sequences

LockType == {"NL", "IS", "IX", "S", "SIX", "X"}

(***************************************************************************)
(* compatibilityMatrix: for each row, the columns that hold `true'.        *)
(***************************************************************************)
compatibilityMatrix ==
  [NL  |-> LockType,
   IS  |-> LockType \ {"X"},
   IX  |-> {"NL", "IS", "IX"},
   S   |-> {"NL", "IS", "S"},
   SIX |-> {"NL", "IS"},
   X   |-> {"NL"}]

isCompatible(lockType1, lockType2) == lockType2 \in compatibilityMatrix[lockType1]

(***************************************************************************)
(* Modes of M that are both compatible with a third one are compatible     *)
(* with each other.  IS, IX and S are not so: IS suits both of the others. *)
(***************************************************************************)
ModesCompose(M) ==
  \A first, a, b \in M :
    isCompatible(first, a) /\ isCompatible(first, b) => isCompatible(a, b)

(***************************************************************************)
(* A LockNode and a mutex, for the threads T and the modes M they ask for. *)
(* m_runningThreads is a std::list searched by thread id and tested for    *)
(* emptiness, never read in order: it is a set.  m_waitingThreads is       *)
(* served in order: it is a sequence.                                      *)
(***************************************************************************)
LockNode(T, M) == [threadId : T, lockType : M]

Mutex(T, M) == [currentType    : M \union {"NL"},
                runningThreads : SUBSET LockNode(T, M),
                waitingThreads : Seq(LockNode(T, M))]

FreeMutex == [currentType |-> "NL", runningThreads |-> {}, waitingThreads |-> <<>>]

Holds(m, t) == \E node \in m.runningThreads : node.threadId = t

Waits(m, t) == \E i \in DOMAIN m.waitingThreads : m.waitingThreads[i].threadId = t

\* Mutant of EntersAtOnce: newcomers do not queue behind those who wait.
EntersAtOnce_barging(m, lockType) == isCompatible(m.currentType, lockType)

(***************************************************************************)
(* lock(): the caller enters at once when nobody waits and its mode suits  *)
(* the current mode, and queues up otherwise.                              *)
(***************************************************************************)
EntersAtOnce(m, lockType) ==
  m.waitingThreads = <<>> /\ isCompatible(m.currentType, lockType)

AfterLock(m, t, lockType) ==
  LET node == [threadId |-> t, lockType |-> lockType] IN
  IF EntersAtOnce(m, lockType)
  THEN [m EXCEPT !.runningThreads = @ \union {node},
                 !.currentType = IF @ = "NL" THEN lockType ELSE @]
  ELSE [m EXCEPT !.waitingThreads = Append(@, node)]

(***************************************************************************)
(* The promotion loop of unlock(): the first waiter enters the empty       *)
(* mutex, its mode becomes the current one, and the waiters right behind   *)
(* it enter for as long as their mode is compatible with that mode.        *)
(***************************************************************************)
Promotable(waiting, n) ==
  \A i \in 1..n : i > 1 => isCompatible(waiting[1].lockType, waiting[i].lockType)

PromotedCount(waiting) ==
  CHOOSE n \in 0..Len(waiting) :
    /\ Promotable(waiting, n)
    /\ n < Len(waiting) => ~Promotable(waiting, n + 1)

\* Mutant of Promote: the promoted nodes are not erased from the waiting list.
Promote_keepsWaiting(waiting) ==
  [currentType    |-> waiting[1].lockType,
   runningThreads |-> {waiting[i] : i \in 1..PromotedCount(waiting)},
   waitingThreads |-> waiting]

Promote(waiting) ==
  LET n == PromotedCount(waiting) IN
  [currentType    |-> waiting[1].lockType,
   runningThreads |-> {waiting[i] : i \in 1..n},
   waitingThreads |-> SubSeq(waiting, n + 1, Len(waiting))]

\* Mutant of AfterUnlock: the mode is reset although others are still inside.
AfterUnlock_alwaysResets(m, t) ==
  LET rest == {node \in m.runningThreads : node.threadId # t} IN
  IF rest = {} /\ m.waitingThreads # <<>>
  THEN Promote(m.waitingThreads)
  ELSE [m EXCEPT !.runningThreads = rest, !.currentType = "NL"]

\* Mutant of AfterUnlock: the last one out leaves its mode behind.
AfterUnlock_keepsMode(m, t) ==
  LET rest == {node \in m.runningThreads : node.threadId # t} IN
  IF rest = {} /\ m.waitingThreads # <<>>
  THEN Promote(m.waitingThreads)
  ELSE [m EXCEPT !.runningThreads = rest]

\* Mutant of AfterUnlock: the last one out promotes nobody.
AfterUnlock_noPromotion(m, t) ==
  LET rest == {node \in m.runningThreads : node.threadId # t} IN
  [m EXCEPT !.runningThreads = rest, !.currentType = IF rest = {} THEN "NL" ELSE @]

(***************************************************************************)
(* unlock(): the caller's LockNode is erased; when it was the last one the *)
(* mutex becomes free and hands itself to the waiters.                     *)
(***************************************************************************)
AfterUnlock(m, t) ==
  LET rest == {node \in m.runningThreads : node.threadId # t} IN
  CASE rest # {} -> [m EXCEPT !.runningThreads = rest]
    [] rest = {} /\ m.waitingThreads = <<>> -> FreeMutex
    [] OTHER -> Promote(m.waitingThreads)
-----------------------------------------------------------------------------
(***************************************************************************)
(* What holds of a mutex between any two calls, however they interleave.   *)
(***************************************************************************)
EachThreadOnce(m) ==
  /\ \A a, b \in m.runningThreads : a.threadId = b.threadId => a = b
  /\ \A i, j \in DOMAIN m.waitingThreads :
       m.waitingThreads[i].threadId = m.waitingThreads[j].threadId => i = j
  /\ \A a \in m.runningThreads, i \in DOMAIN m.waitingThreads :
       a.threadId # m.waitingThreads[i].threadId

WaitersBlocked(m) ==
  m.waitingThreads # <<>> =>
    /\ m.runningThreads # {}
    /\ ~isCompatible(m.currentType, m.waitingThreads[1].lockType)

(***************************************************************************)
(* The current mode is that of the thread that entered first, who may have *)
(* left; everybody else inside was compared with it and with nothing else. *)
(***************************************************************************)
AdmittedByFirst(m, T, M) ==
  /\ m.currentType = "NL" <=> m.runningThreads = {}
  /\ m.runningThreads # {} =>
       \E first \in LockNode(T, M) :
         /\ first.lockType = m.currentType
         /\ \A other \in m.runningThreads \ {first} :
              isCompatible(m.currentType, other.lockType)

Orderly(m, T, M) ==
  /\ m \in Mutex(T, M)
  /\ EachThreadOnce(m)
  /\ WaitersBlocked(m)
  /\ AdmittedByFirst(m, T, M)
=============================================================================
