------------------------- MODULE LockServiceProofs --------------------------
(***************************************************************************)
(* What the lock service guarantees its clients, for any number of them    *)
(* and of locks.  The mutexes of the kernel implement the lock service     *)
(* (KernelProperties, ImplementsLockService), so they guarantee it too.    *)
(***************************************************************************)
EXTENDS LockService, TLAPS

TypeOK ==
    /\ owner \in [Lock -> Client \cup {NoOne}]
    /\ waiters \in [Lock -> SUBSET Client]

(* No wakeup is lost: nobody waits for a lock that is free.                *)
NobodyWaitsForFree ==
    \A l \in Lock : owner[l] = NoOne => waiters[l] = {}

(* Nobody waits for a lock it owns, which would never be given up.         *)
NobodyWaitsForOwn ==
    \A l \in Lock : owner[l] \notin waiters[l]

(* Nobody waits in two queues, so that one release wakes it once.          *)
NobodyWaitsTwice ==
    \A k, l \in Lock : k # l => waiters[k] \cap waiters[l] = {}

LockInv ==
    /\ TypeOK
    /\ NobodyWaitsForFree
    /\ NobodyWaitsForOwn
    /\ NobodyWaitsTwice

-----------------------------------------------------------------------------

(* Passing on the locks in L keeps the invariant, if some clients have     *)
(* stopped waiting before.                                                 *)
LEMMA PassOnOK ==
    ASSUME NoOne \notin Client, LockInv, NEW L \in SUBSET Lock,
           NEW w \in [Lock -> SUBSET Client], \A l \in Lock : w[l] \subseteq waiters[l],
           PassOn(L, w)
    PROVE  LockInv'
<1>1. PICK heir \in [L -> Client \cup {NoOne}] :
         /\ \A l \in L : IF w[l] = {} THEN heir[l] = NoOne ELSE heir[l] \in w[l]
         /\ owner' = [l \in Lock |-> IF l \in L THEN heir[l] ELSE owner[l]]
         /\ waiters' = [l \in Lock |-> IF l \in L THEN w[l] \ {heir[l]} ELSE w[l]]
  BY DEF PassOn
<1>2. TypeOK'
  BY <1>1 DEF TypeOK, LockInv
<1>3. \A l \in Lock : waiters'[l] \subseteq w[l] /\ waiters'[l] \subseteq waiters[l]
  BY <1>1
<1>4. NobodyWaitsForFree'
  <2> SUFFICES ASSUME NEW l \in Lock, owner'[l] = NoOne PROVE waiters'[l] = {}
    BY DEF NobodyWaitsForFree
  <2>1. CASE l \in L
    <3>1. heir[l] = NoOne
      BY <1>1, <2>1
    <3>2. w[l] = {}
      BY <1>1, <2>1, <3>1
    <3> QED BY <1>3, <3>2
  <2>2. CASE l \notin L
    BY <1>1, <1>3, <2>2 DEF LockInv, NobodyWaitsForFree
  <2> QED BY <2>1, <2>2
<1>5. NobodyWaitsForOwn'
  <2> SUFFICES ASSUME NEW l \in Lock PROVE owner'[l] \notin waiters'[l]
    BY DEF NobodyWaitsForOwn
  <2>1. CASE l \in L
    BY <1>1, <2>1
  <2>2. CASE l \notin L
    BY <1>1, <1>3, <2>2 DEF LockInv, NobodyWaitsForOwn
  <2> QED BY <2>1, <2>2
<1>6. NobodyWaitsTwice'
  BY <1>3 DEF LockInv, NobodyWaitsTwice
<1> QED BY <1>2, <1>4, <1>5, <1>6 DEF LockInv

(* Every step of the lock service keeps the invariant.                     *)
LEMMA LockStep ==
    ASSUME NoOne \notin Client, LockInv, [Next]_svars
    PROVE  LockInv'
<1> USE DEF LockInv, TypeOK
<1>1. CASE \E c \in Client, l \in Lock : Acquire(c, l)
  BY <1>1 DEF Acquire, NobodyWaitsForFree, NobodyWaitsForOwn, NobodyWaitsTwice
<1>2. CASE \E c \in Client, l \in Lock : Wait(c, l)
  BY <1>2 DEF Wait, Waits, NobodyWaitsForFree, NobodyWaitsForOwn, NobodyWaitsTwice
<1>3. CASE \E c \in Client, l \in Lock : Cancel(c, l)
  BY <1>3 DEF Cancel, NobodyWaitsForFree, NobodyWaitsForOwn, NobodyWaitsTwice
<1>4. CASE \E c \in Client, l \in Lock : Release(c, l)
  BY <1>4, PassOnOK DEF Release
<1>5. CASE \E c \in Client : End(c)
  <2>1. PICK c \in Client : PassOn(Owned(c), [l \in Lock |-> waiters[l] \ {c}])
    BY <1>5 DEF End
  <2>2. Owned(c) \in SUBSET Lock
    BY DEF Owned
  <2> DEFINE w == [l \in Lock |-> waiters[l] \ {c}]
  <2>3. w \in [Lock -> SUBSET Client] /\ \A l \in Lock : w[l] \subseteq waiters[l]
    OBVIOUS
  <2> HIDE DEF w
  <2>4. PassOn(Owned(c), w)
    BY <2>1 DEF w
  <2> QED BY <2>2, <2>3, <2>4, PassOnOK
<1>6. CASE \E l \in Lock : Reset(l)
  BY <1>6 DEF Reset, NobodyWaitsForFree, NobodyWaitsForOwn, NobodyWaitsTwice
<1>7. CASE UNCHANGED svars
  BY <1>7 DEF svars, NobodyWaitsForFree, NobodyWaitsForOwn, NobodyWaitsTwice
<1> QED BY <1>1, <1>2, <1>3, <1>4, <1>5, <1>6, <1>7 DEF Next

(* In every state nobody waits for a free lock, for its own, or for two    *)
(* (mutex.c: mutex_release, mutex_release_all, loc_mtx, ini_mtx, del_mtx). *)
THEOREM LockSafety == ASSUME NoOne \notin Client PROVE Spec => []LockInv
<1>1. Init => LockInv
  BY DEF Init, LockInv, TypeOK, NobodyWaitsForFree, NobodyWaitsForOwn, NobodyWaitsTwice
<1>2. LockInv /\ [Next]_svars => LockInv'
  BY LockStep
<1> QED BY <1>1, <1>2, PTL DEF Spec

=============================================================================
