----------------------------- MODULE LockService -----------------------------
(***************************************************************************)
(* What mutexes promise the tasks, without queues, priorities, timeouts or *)
(* a scheduler: a lock has at most one owner; who finds it taken waits;    *)
(* and a lock that is given up goes to one of those waiting for it, if     *)
(* there is one, with nothing in between.                                  *)
(***************************************************************************)
EXTENDS FiniteSets

CONSTANTS Client, Lock, NoOne

VARIABLES
    owner,    \* the client that owns each lock, or NoOne
    waiters   \* the clients waiting for each lock

svars == <<owner, waiters>>

Owned(c) == {l \in Lock : owner[l] = c}
Waits(c) == \E l \in Lock : c \in waiters[l]

Init ==
    /\ owner = [l \in Lock |-> NoOne]
    /\ waiters = [l \in Lock |-> {}]

Acquire(c, l) ==
    /\ owner[l] = NoOne
    /\ ~Waits(c)
    /\ owner' = [owner EXCEPT ![l] = c]
    /\ UNCHANGED waiters

Wait(c, l) ==
    /\ owner[l] \notin {NoOne, c}
    /\ ~Waits(c)
    /\ waiters' = [waiters EXCEPT ![l] = @ \cup {c}]
    /\ UNCHANGED owner

Cancel(c, l) ==
    /\ c \in waiters[l]
    /\ waiters' = [waiters EXCEPT ![l] = @ \ {c}]
    /\ UNCHANGED owner

(* Each lock in L passes to one of its waiters in w, or becomes free if it *)
(* has none.                                                               *)
PassOn(L, w) ==
    \E heir \in [L -> Client \cup {NoOne}] :
       /\ \A l \in L : IF w[l] = {} THEN heir[l] = NoOne ELSE heir[l] \in w[l]
       /\ owner' = [l \in Lock |-> IF l \in L THEN heir[l] ELSE owner[l]]
       /\ waiters' = [l \in Lock |-> IF l \in L THEN w[l] \ {heir[l]} ELSE w[l]]

Release(c, l) ==
    /\ owner[l] = c
    /\ ~Waits(c)
    /\ PassOn({l}, waiters)

(* Client c ends: it gives up everything it owns and stops waiting.        *)
End(c) == PassOn(Owned(c), [l \in Lock |-> waiters[l] \ {c}])

(* Lock l is set back, whoever owns it or waits for it.                    *)
Reset(l) ==
    /\ owner' = [owner EXCEPT ![l] = NoOne]
    /\ waiters' = [waiters EXCEPT ![l] = {}]

Next ==
    \/ \E c \in Client, l \in Lock :
          Acquire(c, l) \/ Wait(c, l) \/ Cancel(c, l) \/ Release(c, l)
    \/ \E c \in Client : End(c)
    \/ \E l \in Lock : Reset(l)

Spec == Init /\ [][Next]_svars

=============================================================================
