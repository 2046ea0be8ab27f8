---------------------------- MODULE MGLock_proofs ---------------------------
(***************************************************************************)
(* Facts about one mutex value, for any threads and modes: what the two    *)
(* operations of MGLock return and preserve.  MGMutex_proofs uses them for *)
(* the specification of one mutex.                                         *)
(***************************************************************************)
EXTENDS MGLock, SequenceLemmas

(***************************************************************************)
(* The promotion loop of unlock() takes at least the first waiter, takes   *)
(* only waiters that suit the first, and stops at one that does not.       *)
(***************************************************************************)
LEMMA PromotedCountProperty ==
  ASSUME NEW T, NEW M, NEW w \in Seq(LockNode(T, M)), w # <<>>
  PROVE  /\ PromotedCount(w) \in 1..Len(w)
         /\ Promotable(w, PromotedCount(w))
         /\ PromotedCount(w) < Len(w) => ~Promotable(w, PromotedCount(w) + 1)
<1> DEFINE Stops(n) == n < Len(w) => ~Promotable(w, n + 1)
           S == {n \in Nat : n <= Len(w) /\ Stops(n)}
<1>1. Len(w) \in Nat /\ Len(w) > 0
  BY EmptySeq
<1>2. Len(w) \in S
  BY <1>1
<1>3. PICK n \in S : \A k \in S : n <= k
  BY <1>2, LeastNatural
<1>4. Promotable(w, 1)
  BY DEF Promotable
<1>5. n # 0
  BY <1>1, <1>4
<1>6. Promotable(w, n)
  <2>1. n \in Nat /\ n <= Len(w) /\ n - 1 \in Nat /\ n - 1 + 1 = n /\ ~(n <= n - 1)
    BY <1>3, <1>5
  <2>2. n - 1 \notin S
    BY <1>3, <2>1
  <2>3. ~Stops(n - 1)
    BY <1>1, <2>1, <2>2
  <2> QED
    BY <2>1, <2>3
<1>7. \E k \in 0..Len(w) : Promotable(w, k) /\ Stops(k)
  BY <1>1, <1>3, <1>6
<1>8. /\ PromotedCount(w) \in 0..Len(w)
      /\ Promotable(w, PromotedCount(w))
      /\ Stops(PromotedCount(w))
  BY <1>7 DEF PromotedCount
<1>9. PromotedCount(w) # 0
  BY <1>1, <1>4, <1>8
<1> QED
  BY <1>1, <1>8, <1>9

(***************************************************************************)
(* Each thread in the queue is there once.                                 *)
(***************************************************************************)
QueuedOnce(w) ==
  \A i, j \in DOMAIN w : w[i].threadId = w[j].threadId => i = j

(***************************************************************************)
(* What unlock() leaves when the last thread goes and others wait: the     *)
(* first n of them inside, the others waiting in their order.              *)
(***************************************************************************)
LEMMA PromoteShape ==
  ASSUME NEW T, NEW M, NEW w \in Seq(LockNode(T, M)), w # <<>>
  PROVE  LET n == PromotedCount(w)
             m == Promote(w)
         IN /\ m.currentType = w[1].lockType
            /\ m.runningThreads = {w[i] : i \in 1..n}
            /\ m.waitingThreads \in Seq(LockNode(T, M))
            /\ Len(m.waitingThreads) = Len(w) - n
            /\ \A i \in 1..(Len(w) - n) : m.waitingThreads[i] = w[n + i]
<1> DEFINE n == PromotedCount(w)
<1>1. n \in 1..Len(w) /\ Len(w) \in Nat
  BY PromotedCountProperty
<1>2. \A i \in (n + 1)..Len(w) : w[i] \in LockNode(T, M)
  BY <1>1
<1> DEFINE rest == SubSeq(w, n + 1, Len(w))
<1>3. /\ rest \in Seq(LockNode(T, M))
      /\ Len(rest) = Len(w) - n
      /\ \A i \in 1..(Len(w) - n) : rest[i] = w[n + i]
  <2> HIDE DEF n
  <2>1. n + 1 \in Int /\ Len(w) \in Int
    BY <1>1
  <2>2. /\ rest \in Seq(LockNode(T, M))
        /\ Len(rest) = IF n + 1 <= Len(w) THEN Len(w) - (n + 1) + 1 ELSE 0
        /\ \A i \in 1..(Len(w) - (n + 1) + 1) : rest[i] = w[n + 1 + i - 1]
    BY <1>2, <2>1, SubSeqProperties
  <2> QED
    BY <1>1, <2>2
<1>4. Promote(w) = [currentType |-> w[1].lockType,
                    runningThreads |-> {w[i] : i \in 1..n},
                    waitingThreads |-> rest]
  BY DEF Promote
<1> QED
  BY <1>3, <1>4

(***************************************************************************)
(* Handing the mutex to the queue leaves it orderly and loses nobody.      *)
(***************************************************************************)
LEMMA PromoteOrderly ==
  ASSUME NEW T, NEW M, "NL" \notin M,
         NEW w \in Seq(LockNode(T, M)), w # <<>>, QueuedOnce(w)
  PROVE  /\ Orderly(Promote(w), T, M)
         /\ \A t : (Holds(Promote(w), t) \/ Waits(Promote(w), t))
                     <=> \E i \in DOMAIN w : w[i].threadId = t
<1> DEFINE n == PromotedCount(w)
           m == Promote(w)
<1>1. /\ n \in 1..Len(w)
      /\ Promotable(w, n)
      /\ n < Len(w) => ~Promotable(w, n + 1)
  BY PromotedCountProperty
<1>2. /\ m.currentType = w[1].lockType
      /\ m.runningThreads = {w[i] : i \in 1..n}
      /\ m.waitingThreads \in Seq(LockNode(T, M))
      /\ Len(m.waitingThreads) = Len(w) - n
      /\ \A i \in 1..(Len(w) - n) : m.waitingThreads[i] = w[n + i]
  BY PromoteShape
<1>3. /\ Len(w) \in Nat
      /\ DOMAIN w = 1..Len(w)
      /\ \A i \in 1..Len(w) : w[i] \in LockNode(T, M) /\ w[i].lockType \in M
      /\ DOMAIN m.waitingThreads = 1..(Len(w) - n)
  <2>1. DOMAIN m.waitingThreads = 1..Len(m.waitingThreads)
    BY <1>2
  <2>2. \A i \in 1..Len(w) : w[i] \in LockNode(T, M)
    OBVIOUS
  <2>3. \A node \in LockNode(T, M) : node.lockType \in M
    BY DEF LockNode
  <2> QED
    BY <1>2, <2>1, <2>2, <2>3
<1>4. m \in Mutex(T, M)
  <2>1. m.currentType \in M \union {"NL"}
    BY <1>1, <1>2, <1>3
  <2>2. m.runningThreads \subseteq LockNode(T, M)
    BY <1>1, <1>2, <1>3
  <2>3. m = [currentType |-> m.currentType, runningThreads |-> m.runningThreads,
             waitingThreads |-> m.waitingThreads]
    BY DEF Promote
  <2> QED
    BY <1>2, <2>1, <2>2, <2>3 DEF Mutex
<1> HIDE DEF n, m
<1>5. 1 \in 1..n /\ 1..n \subseteq 1..Len(w) /\ n \in Nat /\ 1 \in 1..Len(w)
  BY <1>1, <1>3
<1>6. \A a : a \in m.runningThreads <=> \E i \in 1..n : a = w[i]
  BY <1>2
<1>7. EachThreadOnce(m)
  <2>1. \A i, j \in 1..Len(w) : w[i].threadId = w[j].threadId => i = j
    BY <1>3 DEF QueuedOnce
  <2>2. \A a, b \in m.runningThreads : a.threadId = b.threadId => a = b
    BY <1>5, <1>6, <2>1
  <2>3. \A i, j \in DOMAIN m.waitingThreads :
          m.waitingThreads[i].threadId = m.waitingThreads[j].threadId => i = j
    <3>1. \A i \in 1..(Len(w) - n) : n + i \in 1..Len(w)
      BY <1>1, <1>3
    <3>2. \A i, j \in 1..(Len(w) - n) : w[n + i].threadId = w[n + j].threadId => i = j
      <4>1. \A i, j \in 1..(Len(w) - n) : n + i = n + j => i = j
        BY <1>5, <1>3
      <4> QED
        BY <2>1, <3>1, <4>1
    <3> QED
      BY <1>2, <1>3, <3>2
  <2>4. \A a \in m.runningThreads, i \in DOMAIN m.waitingThreads :
          a.threadId # m.waitingThreads[i].threadId
    <3>1. \A k \in 1..n, i \in 1..(Len(w) - n) : w[k].threadId # w[n + i].threadId
      <4>1. \A k \in 1..n, i \in 1..(Len(w) - n) :
              k \in 1..Len(w) /\ n + i \in 1..Len(w) /\ k # n + i
        BY <1>1, <1>3
      <4> QED
        BY <2>1, <4>1
    <3> QED
      BY <1>2, <1>3, <3>1
  <2> QED
    BY <2>2, <2>3, <2>4 DEF EachThreadOnce
<1>8. WaitersBlocked(m)
  <2> SUFFICES ASSUME m.waitingThreads # <<>>
               PROVE  /\ m.runningThreads # {}
                      /\ ~isCompatible(m.currentType, m.waitingThreads[1].lockType)
    BY DEF WaitersBlocked
  <2>1. n < Len(w)
    <3>1. Len(m.waitingThreads) # 0
      BY <1>2, EmptySeq
    <3>2. Len(w) - n # 0
      BY <1>2, <3>1
    <3> QED
      BY <1>1, <1>3, <3>2
  <2>2. PICK i \in 1..(n + 1) : i > 1 /\ ~isCompatible(w[1].lockType, w[i].lockType)
    BY <1>1, <2>1 DEF Promotable
  <2>3. i \notin 1..n
    BY <1>1, <2>2 DEF Promotable
  <2>4. i = n + 1
    BY <1>1, <2>2, <2>3
  <2>5. m.waitingThreads[1] = w[n + 1]
    <3>1. 1 \in 1..(Len(w) - n)
      BY <1>1, <1>3, <2>1
    <3> QED
      BY <1>2, <3>1
  <2>6. w[1] \in m.runningThreads
    BY <1>1, <1>2
  <2> QED
    BY <1>2, <2>2, <2>4, <2>5, <2>6
<1>9. AdmittedByFirst(m, T, M)
  <2>1. w[1] \in m.runningThreads /\ w[1] \in LockNode(T, M) /\ w[1].lockType # "NL"
    BY <1>3, <1>5, <1>6
  <2>2. \A other \in m.runningThreads \ {w[1]} : isCompatible(w[1].lockType, other.lockType)
    <3>1. \A i \in 1..n : w[i] # w[1] => isCompatible(w[1].lockType, w[i].lockType)
      BY <1>1 DEF Promotable
    <3> QED
      BY <1>2, <3>1
  <2> QED
    BY <1>2, <2>1, <2>2 DEF AdmittedByFirst
<1>10. \A t : (Holds(m, t) \/ Waits(m, t)) <=> \E i \in DOMAIN w : w[i].threadId = t
  <2>1. \A t : Holds(m, t) <=> \E i \in 1..n : w[i].threadId = t
    BY <1>2 DEF Holds
  <2>2. \A t : Waits(m, t) <=> \E i \in 1..(Len(w) - n) : w[n + i].threadId = t
    BY <1>2, <1>3 DEF Waits
  <2>3. \A i \in 1..Len(w) : i \in 1..n \/ (i - n \in 1..(Len(w) - n) /\ n + (i - n) = i)
    BY <1>1, <1>3
  <2>4. /\ \A i \in 1..n : i \in 1..Len(w)
        /\ \A i \in 1..(Len(w) - n) : n + i \in 1..Len(w)
    BY <1>1, <1>3
  <2> QED
    BY <1>3, <2>1, <2>2, <2>3, <2>4
<1> QED
  BY <1>4, <1>7, <1>8, <1>9, <1>10 DEF Orderly, m

(***************************************************************************)
(* lock() keeps a mutex orderly and puts the caller, and nobody else, on   *)
(* the list its answer implies.                                            *)
(***************************************************************************)
LEMMA AfterLockOrderly ==
  ASSUME NEW T, NEW M, M \subseteq LockType \ {"NL"},
         NEW m, Orderly(m, T, M),
         NEW t \in T, NEW lockType \in M,
         ~Holds(m, t), ~Waits(m, t)
  PROVE  /\ Orderly(AfterLock(m, t, lockType), T, M)
         /\ \A u : Holds(AfterLock(m, t, lockType), u)
                     <=> Holds(m, u) \/ (u = t /\ EntersAtOnce(m, lockType))
         /\ \A u : Waits(AfterLock(m, t, lockType), u)
                     <=> Waits(m, u) \/ (u = t /\ ~EntersAtOnce(m, lockType))
<1> DEFINE node == [threadId |-> t, lockType |-> lockType]
           after == AfterLock(m, t, lockType)
           w == m.waitingThreads
<1>1. /\ m \in Mutex(T, M)
      /\ m.runningThreads \subseteq LockNode(T, M)
      /\ w \in Seq(LockNode(T, M))
      /\ m.currentType \in M \union {"NL"}
      /\ node \in LockNode(T, M) /\ node.threadId = t /\ node.lockType = lockType
  BY DEF Orderly, Mutex, LockNode
<1>2. CASE EntersAtOnce(m, lockType)
  <2>1. /\ w = <<>>
        /\ isCompatible(m.currentType, lockType)
    BY <1>2 DEF EntersAtOnce
  <2>2. /\ after.runningThreads = m.runningThreads \union {node}
        /\ after.currentType = IF m.currentType = "NL" THEN lockType ELSE m.currentType
        /\ after.waitingThreads = w
        /\ after \in Mutex(T, M)
    BY <1>1, <1>2 DEF AfterLock, Mutex
  <2> HIDE DEF after, node, w
  <2>3. EachThreadOnce(after)
    <3>1. \A a \in m.runningThreads : a.threadId # t
      BY DEF Holds
    <3>2. \A a, b \in m.runningThreads : a.threadId = b.threadId => a = b
      BY DEF Orderly, EachThreadOnce
    <3>3. DOMAIN w = {}
      BY <2>1
    <3> QED
      BY <1>1, <2>2, <3>1, <3>2, <3>3 DEF EachThreadOnce
  <2>4. WaitersBlocked(after)
    BY <2>1, <2>2 DEF WaitersBlocked
  <2>5. AdmittedByFirst(after, T, M)
    <3>1. CASE m.currentType = "NL"
      <4>1. m.runningThreads = {}
        BY <3>1 DEF Orderly, AdmittedByFirst
      <4> QED
        BY <1>1, <2>2, <3>1, <4>1 DEF AdmittedByFirst
    <3>2. CASE m.currentType # "NL"
      <4>1. m.runningThreads # {}
        BY <3>2 DEF Orderly, AdmittedByFirst
      <4>2. PICK first \in LockNode(T, M) :
              /\ first.lockType = m.currentType
              /\ \A other \in m.runningThreads \ {first} :
                   isCompatible(m.currentType, other.lockType)
        BY <4>1 DEF Orderly, AdmittedByFirst
      <4>3. after.currentType = m.currentType
        BY <2>2, <3>2
      <4>4. \A other \in after.runningThreads \ {first} :
              isCompatible(after.currentType, other.lockType)
        BY <1>1, <2>1, <2>2, <4>2, <4>3
      <4>5. after.runningThreads # {}
        BY <2>2
      <4> QED
        BY <3>2, <4>2, <4>3, <4>4, <4>5 DEF AdmittedByFirst
    <3> QED
      BY <3>1, <3>2
  <2>6. Orderly(after, T, M)
    BY <2>2, <2>3, <2>4, <2>5 DEF Orderly
  <2>7. \A u : Holds(after, u) <=> Holds(m, u) \/ u = t
    BY <1>1, <2>2 DEF Holds
  <2>8. \A u : Waits(after, u) <=> Waits(m, u)
    BY <2>2 DEF Waits, w
  <2> QED
    BY <1>2, <2>6, <2>7, <2>8 DEF after
<1>3. CASE ~EntersAtOnce(m, lockType)
  <2>1. /\ after.runningThreads = m.runningThreads
        /\ after.currentType = m.currentType
        /\ after.waitingThreads = Append(w, node)
    BY <1>1, <1>3 DEF AfterLock, Mutex
  <2>2. /\ Append(w, node) \in Seq(LockNode(T, M))
        /\ Append(w, node) # <<>>
        /\ DOMAIN w = 1..Len(w) /\ Len(w) \in Nat
        /\ DOMAIN Append(w, node) = 1..(Len(w) + 1)
        /\ \A i \in 1..Len(w) : Append(w, node)[i] = w[i]
        /\ Append(w, node)[Len(w) + 1] = node
    BY <1>1, AppendProperties
  <2>3. after \in Mutex(T, M)
    BY <1>1, <1>3, <2>2 DEF AfterLock, Mutex
  <2> HIDE DEF after, node, w
  <2>4. \A i \in 1..(Len(w) + 1) : i \in 1..Len(w) \/ i = Len(w) + 1
    BY <2>2
  <2>5. \A i \in 1..Len(w) : w[i].threadId # t /\ i \in 1..(Len(w) + 1)
    BY <2>2 DEF Waits, w
  <2>6. EachThreadOnce(after)
    <3>1. \A i, j \in 1..Len(w) : w[i].threadId = w[j].threadId => i = j
      BY <2>2 DEF Orderly, EachThreadOnce, w
    <3>2. \A i, j \in DOMAIN after.waitingThreads :
            after.waitingThreads[i].threadId = after.waitingThreads[j].threadId => i = j
      BY <1>1, <2>1, <2>2, <2>4, <2>5, <3>1
    <3>3. \A a \in m.runningThreads : a.threadId # t
      BY DEF Holds
    <3>4. \A a \in m.runningThreads, i \in 1..Len(w) : a.threadId # w[i].threadId
      BY <2>2 DEF Orderly, EachThreadOnce, w
    <3>5. \A a \in after.runningThreads, i \in DOMAIN after.waitingThreads :
            a.threadId # after.waitingThreads[i].threadId
      BY <1>1, <2>1, <2>2, <2>4, <3>3, <3>4
    <3>6. \A a, b \in after.runningThreads : a.threadId = b.threadId => a = b
      BY <2>1 DEF Orderly, EachThreadOnce
    <3> QED
      BY <3>2, <3>5, <3>6 DEF EachThreadOnce
  <2>7. WaitersBlocked(after)
    <3>1. CASE w = <<>>
      <4>1. ~isCompatible(m.currentType, lockType)
        BY <1>3, <3>1 DEF EntersAtOnce, w
      <4>2. m.currentType # "NL"
        BY <4>1 DEF isCompatible, compatibilityMatrix
      <4>3. m.runningThreads # {}
        BY <4>2 DEF Orderly, AdmittedByFirst
      <4>4. Append(w, node)[1] = node
        BY <2>2, <3>1
      <4> QED
        BY <1>1, <2>1, <4>1, <4>3, <4>4 DEF WaitersBlocked
    <3>2. CASE w # <<>>
      <4>1. m.runningThreads # {} /\ ~isCompatible(m.currentType, w[1].lockType)
        BY <3>2 DEF Orderly, WaitersBlocked, w
      <4>2. 1 \in 1..Len(w)
        BY <1>1, <2>2, <3>2, EmptySeq
      <4> QED
        BY <2>1, <2>2, <4>1, <4>2 DEF WaitersBlocked
    <3> QED
      BY <3>1, <3>2
  <2>8. AdmittedByFirst(after, T, M)
    BY <2>1 DEF Orderly, AdmittedByFirst
  <2>9. \A u : Holds(after, u) <=> Holds(m, u)
    BY <2>1 DEF Holds
  <2>10. \A u : Waits(after, u) <=> Waits(m, u) \/ u = t
    <3>1. \A u : Waits(m, u) <=> \E i \in 1..Len(w) : w[i].threadId = u
      BY <2>2 DEF Waits, w
    <3>2. \A u : Waits(after, u) <=> \E i \in 1..(Len(w) + 1) : Append(w, node)[i].threadId = u
      BY <2>1, <2>2 DEF Waits
    <3>3. Len(w) + 1 \in 1..(Len(w) + 1)
      BY <2>2
    <3> QED
      BY <1>1, <2>2, <2>4, <2>5, <3>1, <3>2, <3>3
  <2> QED
    BY <1>3, <2>3, <2>6, <2>7, <2>8, <2>9, <2>10 DEF Orderly, after
<1> QED
  BY <1>2, <1>3

(***************************************************************************)
(* unlock() keeps a mutex orderly, takes the caller off it, loses nobody   *)
(* else and throws nobody out.                                             *)
(***************************************************************************)
LEMMA AfterUnlockOrderly ==
  ASSUME NEW T, NEW M, M \subseteq LockType \ {"NL"},
         NEW m, Orderly(m, T, M), NEW t \in T, Holds(m, t)
  PROVE  /\ Orderly(AfterUnlock(m, t), T, M)
         /\ \A u : (Holds(AfterUnlock(m, t), u) \/ Waits(AfterUnlock(m, t), u))
                     <=> u # t /\ (Holds(m, u) \/ Waits(m, u))
         /\ \A u : u # t /\ Holds(m, u) => Holds(AfterUnlock(m, t), u)
<1> DEFINE rest == {node \in m.runningThreads : node.threadId # t}
           after == AfterUnlock(m, t)
<1>1. /\ m \in Mutex(T, M)
      /\ m.waitingThreads \in Seq(LockNode(T, M))
      /\ m.runningThreads \subseteq LockNode(T, M)
  BY DEF Orderly, Mutex
<1>2. ~Waits(m, t)
  BY DEF Orderly, EachThreadOnce, Holds, Waits
<1>3. CASE rest # {}
  <2>1. after = [m EXCEPT !.runningThreads = rest]
    BY <1>3 DEF AfterUnlock
  <2>2. /\ after.runningThreads = rest
        /\ after.currentType = m.currentType
        /\ after.waitingThreads = m.waitingThreads
        /\ after \in Mutex(T, M)
    BY <1>1, <2>1 DEF Mutex
  <2> HIDE DEF after
  <2>3. EachThreadOnce(after)
    BY <2>2 DEF Orderly, EachThreadOnce
  <2>4. WaitersBlocked(after)
    BY <1>3, <2>2 DEF Orderly, WaitersBlocked
  <2>5. AdmittedByFirst(after, T, M)
    <3>1. m.runningThreads # {} /\ m.currentType # "NL"
      BY <1>3 DEF Orderly, AdmittedByFirst
    <3>2. PICK first \in LockNode(T, M) :
            /\ first.lockType = m.currentType
            /\ \A other \in m.runningThreads \ {first} :
                 isCompatible(m.currentType, other.lockType)
      BY <3>1 DEF Orderly, AdmittedByFirst
    <3> QED
      BY <1>3, <2>2, <3>1, <3>2 DEF AdmittedByFirst
  <2>6. \A u : Holds(after, u) <=> u # t /\ Holds(m, u)
    BY <2>2 DEF Holds
  <2>7. \A u : Waits(after, u) <=> Waits(m, u)
    BY <2>2 DEF Waits
  <2> QED
    BY <1>2, <2>2, <2>3, <2>4, <2>5, <2>6, <2>7 DEF Orderly, after
<1>4. CASE rest = {} /\ m.waitingThreads = <<>>
  <2>1. after = FreeMutex
    BY <1>4 DEF AfterUnlock
  <2>2. /\ after.runningThreads = {}
        /\ after.currentType = "NL"
        /\ after.waitingThreads = <<>>
        /\ after \in Mutex(T, M)
    BY <2>1, EmptySeq DEF FreeMutex, Mutex
  <2> HIDE DEF after
  <2>3. Orderly(after, T, M)
    BY <2>2 DEF Orderly, EachThreadOnce, WaitersBlocked, AdmittedByFirst
  <2>4. \A u : ~Holds(after, u) /\ ~Waits(after, u) /\ ~Waits(m, u)
    BY <1>4, <2>2 DEF Holds, Waits
  <2>5. \A u : Holds(m, u) => u = t
    BY <1>4 DEF Holds
  <2> QED
    BY <2>3, <2>4, <2>5 DEF after
<1>5. CASE rest = {} /\ m.waitingThreads # <<>>
  <2>1. after = Promote(m.waitingThreads)
    BY <1>5 DEF AfterUnlock
  <2>2. QueuedOnce(m.waitingThreads)
    BY DEF Orderly, EachThreadOnce, QueuedOnce
  <2>3. /\ Orderly(after, T, M)
        /\ \A u : (Holds(after, u) \/ Waits(after, u))
                    <=> \E i \in DOMAIN m.waitingThreads : m.waitingThreads[i].threadId = u
    BY <1>1, <1>5, <2>1, <2>2, PromoteOrderly
  <2>4. \A u : Holds(m, u) => u = t
    BY <1>5 DEF Holds
  <2>5. \A u : Waits(m, u) <=> \E i \in DOMAIN m.waitingThreads : m.waitingThreads[i].threadId = u
    BY DEF Waits
  <2> QED
    BY <1>2, <2>3, <2>4, <2>5
<1> QED
  BY <1>3, <1>4, <1>5

(***************************************************************************)
(* unlock() serves the queue in order: who gets in through it was not      *)
(* queued behind anybody who does not.                                     *)
(***************************************************************************)
LEMMA AfterUnlockInOrder ==
  ASSUME NEW T, NEW M, NEW m, Orderly(m, T, M), NEW u, NEW t,
         ~Holds(m, t), Holds(AfterUnlock(m, u), t),
         NEW i \in DOMAIN m.waitingThreads,
         \A k \in 1..i : m.waitingThreads[k].threadId # t
  PROVE  Holds(AfterUnlock(m, u), m.waitingThreads[i].threadId)
<1> DEFINE rest == {node \in m.runningThreads : node.threadId # u}
           w == m.waitingThreads
           n == PromotedCount(w)
           after == AfterUnlock(m, u)
<1>1. m \in Mutex(T, M) /\ w \in Seq(LockNode(T, M)) /\ w # <<>>
  BY DEF Orderly, Mutex
<1>2. rest = {}
  <2> SUFFICES ASSUME rest # {} PROVE FALSE
    OBVIOUS
  <2>1. after = [m EXCEPT !.runningThreads = rest]
    BY DEF AfterUnlock
  <2>2. after.runningThreads = rest
    BY <1>1, <2>1 DEF Mutex
  <2> QED
    BY <2>2 DEF Holds
<1>3. after = Promote(w)
  BY <1>1, <1>2 DEF AfterUnlock
<1>4. after.runningThreads = {w[j] : j \in 1..n} /\ n \in 1..Len(w)
  <2> HIDE DEF w
  <2>1. n \in 1..Len(w)
    BY <1>1, PromotedCountProperty
  <2>2. Promote(w).runningThreads = {w[j] : j \in 1..n}
    BY <1>1, PromoteShape
  <2> QED
    BY <1>3, <2>1, <2>2
<1>5. PICK j \in 1..n : w[j].threadId = t
  BY <1>4 DEF Holds
<1>6. i \in 1..Len(w) /\ Len(w) \in Nat
  BY <1>1
<1>7. i \in 1..n
  <2> HIDE DEF n
  <2>1. j \notin 1..i
    BY <1>5
  <2> QED
    BY <1>4, <1>5, <1>6, <2>1
<1> QED
  BY <1>4, <1>7 DEF Holds

(***************************************************************************)
(* Who is on one of the two lists of a mutex, with the mode it asked for.  *)
(***************************************************************************)
Entries(m) == m.runningThreads \union {m.waitingThreads[i] : i \in DOMAIN m.waitingThreads}

(***************************************************************************)
(* The two lists are all there is to Holds and Waits.                      *)
(***************************************************************************)
LEMMA ListedIsEntry ==
  ASSUME NEW m, NEW t
  PROVE  Holds(m, t) \/ Waits(m, t) <=> \E e \in Entries(m) : e.threadId = t
BY DEF Holds, Waits, Entries

(***************************************************************************)
(* lock() adds the entry of its caller, and unlock() takes it away; nobody *)
(* else's entry comes, goes or changes its mode.                           *)
(***************************************************************************)
LEMMA EntriesAfterLock ==
  ASSUME NEW T, NEW M, NEW m \in Mutex(T, M), NEW t \in T, NEW lockType \in M
  PROVE  Entries(AfterLock(m, t, lockType))
           = Entries(m) \union {[threadId |-> t, lockType |-> lockType]}
<1> DEFINE node == [threadId |-> t, lockType |-> lockType]
           w == m.waitingThreads
<1>1. w \in Seq(LockNode(T, M)) /\ node \in LockNode(T, M)
  BY DEF Mutex, LockNode
<1>2. CASE EntersAtOnce(m, lockType)
  <2>1. /\ AfterLock(m, t, lockType).runningThreads = m.runningThreads \union {node}
        /\ AfterLock(m, t, lockType).waitingThreads = w
    BY <1>2 DEF AfterLock, Mutex
  <2> QED
    BY <2>1 DEF Entries
<1>3. CASE ~EntersAtOnce(m, lockType)
  <2>1. /\ AfterLock(m, t, lockType).runningThreads = m.runningThreads
        /\ AfterLock(m, t, lockType).waitingThreads = Append(w, node)
    BY <1>3 DEF AfterLock, Mutex
  <2> HIDE DEF node, w
  <2>2. /\ DOMAIN w = 1..Len(w) /\ Len(w) \in Nat
        /\ DOMAIN Append(w, node) = 1..(Len(w) + 1)
        /\ \A i \in 1..Len(w) : Append(w, node)[i] = w[i]
        /\ Append(w, node)[Len(w) + 1] = node
    BY <1>1, AppendProperties
  <2>3. {Append(w, node)[i] : i \in DOMAIN Append(w, node)} = {w[i] : i \in DOMAIN w} \union {node}
    <3>1. \A i \in 1..(Len(w) + 1) : i \in 1..Len(w) \/ i = Len(w) + 1
      BY <2>2
    <3>2. \A i \in 1..Len(w) : i \in 1..(Len(w) + 1)
      BY <2>2
    <3>3. Len(w) + 1 \in 1..(Len(w) + 1)
      BY <2>2
    <3> QED
      BY <2>2, <3>1, <3>2, <3>3
  <2> QED
    BY <2>1, <2>3 DEF Entries, w, node
<1> QED
  BY <1>2, <1>3

LEMMA EntriesAfterUnlock ==
  ASSUME NEW T, NEW M, NEW m, Orderly(m, T, M), NEW t, Holds(m, t)
  PROVE  Entries(AfterUnlock(m, t)) = {e \in Entries(m) : e.threadId # t}
<1> DEFINE rest == {node \in m.runningThreads : node.threadId # t}
           w == m.waitingThreads
<1>1. m \in Mutex(T, M) /\ w \in Seq(LockNode(T, M))
  BY DEF Orderly, Mutex
<1>2. \A i \in DOMAIN w : w[i].threadId # t
  BY DEF Orderly, EachThreadOnce, Holds
<1>3. {e \in Entries(m) : e.threadId # t} = rest \union {w[i] : i \in DOMAIN w}
  BY <1>2 DEF Entries
<1>4. CASE rest # {}
  <2>1. /\ AfterUnlock(m, t).runningThreads = rest
        /\ AfterUnlock(m, t).waitingThreads = w
    BY <1>1, <1>4 DEF AfterUnlock, Mutex
  <2> QED
    BY <1>3, <2>1 DEF Entries
<1>5. CASE rest = {} /\ w = <<>>
  <2>1. /\ AfterUnlock(m, t).runningThreads = {}
        /\ AfterUnlock(m, t).waitingThreads = <<>>
    BY <1>5 DEF AfterUnlock, FreeMutex
  <2> QED
    BY <1>3, <1>5, <2>1 DEF Entries
<1>6. CASE rest = {} /\ w # <<>>
  <2> DEFINE n == PromotedCount(w)
             after == AfterUnlock(m, t)
  <2>1. after = Promote(w)
    BY <1>6 DEF AfterUnlock
  <2>2. /\ after.runningThreads = {w[i] : i \in 1..n}
        /\ after.waitingThreads \in Seq(LockNode(T, M))
        /\ Len(after.waitingThreads) = Len(w) - n
        /\ \A i \in 1..(Len(w) - n) : after.waitingThreads[i] = w[n + i]
    BY <1>1, <1>6, <2>1, PromoteShape
  <2>3. n \in 1..Len(w) /\ Len(w) \in Nat /\ DOMAIN w = 1..Len(w)
    BY <1>1, <1>6, PromotedCountProperty
  <2>4. DOMAIN after.waitingThreads = 1..(Len(w) - n)
    BY <2>2
  <2> HIDE DEF after, n, w
  <2>5. {after.waitingThreads[i] : i \in DOMAIN after.waitingThreads}
          = {w[n + i] : i \in 1..(Len(w) - n)}
    BY <2>2, <2>4
  <2>6. {w[i] : i \in 1..n} \union {w[n + i] : i \in 1..(Len(w) - n)} = {w[i] : i \in DOMAIN w}
    <3>1. \A i \in 1..n : i \in DOMAIN w
      BY <2>3
    <3>2. \A i \in 1..(Len(w) - n) : n + i \in DOMAIN w
      BY <2>3
    <3>3. \A i \in DOMAIN w : i \in 1..n \/ (i - n \in 1..(Len(w) - n) /\ n + (i - n) = i)
      BY <2>3
    <3> QED
      BY <3>1, <3>2, <3>3
  <2>7. Entries(after) = {w[i] : i \in DOMAIN w}
    BY <2>2, <2>5, <2>6 DEF Entries
  <2> QED
    BY <1>3, <1>6, <2>7 DEF after
<1> QED
  BY <1>4, <1>5, <1>6

(***************************************************************************)
(* Threads inside together have modes that suit each other, provided the   *)
(* modes in use compose: it is enough then that each was compared with the *)
(* mode of the first.                                                      *)
(***************************************************************************)
LEMMA HoldersSuit ==
  ASSUME NEW T, NEW M, ModesCompose(M), NEW m, Orderly(m, T, M),
         NEW a \in m.runningThreads, NEW b \in m.runningThreads, a.threadId # b.threadId
  PROVE  isCompatible(a.lockType, b.lockType) \/ isCompatible(b.lockType, a.lockType)
<1>1. a.lockType \in M /\ b.lockType \in M
  BY DEF Orderly, Mutex, LockNode
<1>2. PICK first \in LockNode(T, M) :
        /\ first.lockType = m.currentType
        /\ \A other \in m.runningThreads \ {first} :
             isCompatible(m.currentType, other.lockType)
  BY DEF Orderly, AdmittedByFirst
<1>3. m.currentType \in M
  BY <1>2 DEF LockNode
<1>4. CASE a = first
  BY <1>2, <1>4
<1>5. CASE b = first
  BY <1>2, <1>5
<1>6. CASE a # first /\ b # first
  BY <1>1, <1>2, <1>3, <1>6 DEF ModesCompose
<1> QED
  BY <1>4, <1>5, <1>6

(***************************************************************************)
(* The modes asked of the mutex of a virtual node, and those asked of the  *)
(* mutex of a storage, compose.                                            *)
(***************************************************************************)
LEMMA LibraryModesCompose == ModesCompose({"IS", "IX", "X"}) /\ ModesCompose({"S", "X"})
BY DEF ModesCompose, isCompatible, compatibilityMatrix, LockType
=============================================================================
