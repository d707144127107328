--------------------------- MODULE NetTimerProofs ---------------------------
(***************************************************************************)
(* The callouts of TINET implement the callout service, for any tasks,     *)
(* functions, numbers of ticks and entries.                                *)
(*                                                                         *)
(* The mapping sees an entry that is being written as empty, so a step is  *)
(* what the service allows only because the lock is held by one thread at a*)
(* time and the entry that thread has found stays as it is.  IInv says so: *)
(* who may hold the lock, who waits for it, and what a thread knows of the *)
(* table at each place.                                                    *)
(***************************************************************************)
EXTENDS NetTimerProperties, SequenceTheorems, TLAPS

Function == CALLOUT \cup {if_slowtimo}
Ticks    == TIMEOUT \cup {IF_TIMER_TMO}

PC == {"run", "timeout", "search", "store", "untimeout", "compare", "clear",
       "wait", "scan", "look", "call"}

Entry == [func : Function \cup {NULL}, timeout : Nat]
Self  == [pc : PC, func : Function \cup {NULL}, timeout : Nat, ix : Index]

Types ==
    /\ callout \in [Index -> Entry]
    /\ SEM_CALL_OUT_LOCK \in [semcnt : {0, 1}, wait_queue : Seq(Thread)]
    /\ SEM_CALL_OUT_TIMEOUT \in Nat
    /\ thread \in [Thread -> Self]
    /\ scan \in 0 .. NUM_NET_CALLOUT

(* What a change of one thread leaves.                                     *)
LEMMA ThreadEffect ==
    ASSUME Types, NEW t \in Thread, NEW self \in Self, thread' = [thread EXCEPT ![t] = self]
    PROVE  /\ thread' \in [Thread -> Self]
           /\ thread'[t] = self
           /\ \A u \in Thread \ {t} : thread'[u] = thread[u]
BY DEF Types

LEMMA PcEffect ==
    ASSUME Types, NEW t \in Thread, NEW pc \in PC, thread' = [thread EXCEPT ![t].pc = pc]
    PROVE  /\ thread' \in [Thread -> Self]
           /\ thread'[t] = [thread[t] EXCEPT !.pc = pc]
           /\ thread'[t].pc = pc
           /\ \A u \in Thread \ {t} : thread'[u] = thread[u]
<1>1. thread[t] \in Self
  BY DEF Types
<1>2. [thread[t] EXCEPT !.pc = pc] \in Self /\ [thread[t] EXCEPT !.pc = pc].pc = pc
  BY <1>1 DEF Self
<1>3. thread' = [thread EXCEPT ![t] = [thread[t] EXCEPT !.pc = pc]]
  OBVIOUS
<1> QED BY <1>2, <1>3, ThreadEffect

LEMMA PcIxEffect ==
    ASSUME Types, NEW t \in Thread, NEW pc \in PC, NEW i \in Index,
           thread' = [thread EXCEPT ![t].pc = pc, ![t].ix = i]
    PROVE  /\ thread' \in [Thread -> Self]
           /\ thread'[t] = [thread[t] EXCEPT !.pc = pc, !.ix = i]
           /\ thread'[t].pc = pc
           /\ \A u \in Thread \ {t} : thread'[u] = thread[u]
<1> DEFINE self == [thread[t] EXCEPT !.pc = pc, !.ix = i]
<1>1. thread[t] \in Self
  BY DEF Types
<1>2. self \in Self /\ self.pc = pc
  BY <1>1 DEF Self
<1>3. thread' = [thread EXCEPT ![t] = self]
  BY <1>1 DEF Types
<1> QED BY <1>2, <1>3, ThreadEffect

-----------------------------------------------------------------------------
(* The lock.                                                               *)

Waiting == ToSet(SEM_CALL_OUT_LOCK.wait_queue)

(* Nobody waits twice, and nobody waits for a lock that is free.           *)
QueueOK ==
    LET q == SEM_CALL_OUT_LOCK.wait_queue
    IN  /\ SEM_CALL_OUT_LOCK \in [semcnt : {0, 1}, wait_queue : Seq(Thread)]
        /\ \A i, j \in 1 .. Len(q) : q[i] = q[j] => i = j
        /\ SEM_CALL_OUT_LOCK.semcnt = 1 => q = <<>>

(* The places a thread comes to with the lock, and stays at without it     *)
(* while it waits, and those it goes on to with the lock.                  *)
Entered == {"search", "compare", "look"}
Locked  == Entered \cup {"store", "clear"}

Holds(t) == thread[t].pc \in Locked /\ t \notin Waiting

(* One thread holds the lock, nobody if it is free.                        *)
LockOK ==
    /\ QueueOK
    /\ \A t \in Waiting : thread[t].pc \in Entered
    /\ \A t, u \in Thread : Holds(t) /\ Holds(u) => t = u
    /\ SEM_CALL_OUT_LOCK.semcnt = 1 => \A t \in Thread : ~Holds(t)

(* Taking the lock, or waiting for it as one more thread.                  *)
LEMMA LockEffect ==
    ASSUME QueueOK, NEW t \in Thread, t \notin Waiting, NEW pc, lock(t, pc)
    PROVE  /\ QueueOK'
           /\ SEM_CALL_OUT_LOCK'.semcnt = 0
           /\ Waiting' = IF SEM_CALL_OUT_LOCK.semcnt = 1 THEN Waiting ELSE Waiting \cup {t}
<1> USE DEF QueueOK
<1> DEFINE q == SEM_CALL_OUT_LOCK.wait_queue
<1>1. CASE SEM_CALL_OUT_LOCK.semcnt = 1
  BY <1>1 DEF lock, Waiting, ToSet
<1>2. CASE SEM_CALL_OUT_LOCK.semcnt = 0
  <2>1. SEM_CALL_OUT_LOCK' = [semcnt |-> 0, wait_queue |-> Append(q, t)]
    <3>1. SEM_CALL_OUT_LOCK' = [SEM_CALL_OUT_LOCK EXCEPT !.wait_queue = Append(@, t)]
      BY <1>2 DEF lock
    <3> QED BY <1>2, <3>1
  <2>2. /\ Append(q, t) \in Seq(Thread)
        /\ Len(Append(q, t)) = Len(q) + 1
        /\ \A i \in 1 .. Len(q) : Append(q, t)[i] = q[i]
        /\ Append(q, t)[Len(q) + 1] = t
    BY AppendProperties
  <2>3. \A i \in 1 .. Len(q) : q[i] # t
    BY DEF Waiting, ToSet
  <2>4. DOMAIN q = 1 .. Len(q) /\ DOMAIN Append(q, t) = 1 .. Len(q) + 1 /\ Len(q) \in Nat
    BY <2>2
  <2>5. ToSet(Append(q, t)) = ToSet(q) \cup {t}
    BY <2>2, <2>4 DEF ToSet
  <2>6. QueueOK'
    BY <2>1, <2>2, <2>3, <2>4
  <2> QED BY <1>2, <2>1, <2>5, <2>6 DEF Waiting
<1> QED BY <1>1, <1>2

(* Giving it back, or passing it on to one that waits.                     *)
LEMMA UnlockEffect ==
    ASSUME QueueOK, unlock
    PROVE  /\ QueueOK'
           /\ \/ /\ Waiting = {} /\ Waiting' = {}
                 /\ SEM_CALL_OUT_LOCK'.semcnt = 1
              \/ /\ SEM_CALL_OUT_LOCK'.semcnt = 0
                 /\ \E u \in Waiting : Waiting' = Waiting \ {u}
<1> USE DEF QueueOK
<1> DEFINE q == SEM_CALL_OUT_LOCK.wait_queue
<1>1. CASE q = <<>>
  BY <1>1 DEF unlock, Waiting, ToSet
<1>2. CASE q # <<>>
  <2>1. SEM_CALL_OUT_LOCK' = [semcnt |-> 0, wait_queue |-> Tail(q)]
    BY <1>2 DEF unlock
  <2>2. /\ Tail(q) \in Seq(Thread)
        /\ Len(Tail(q)) = Len(q) - 1
        /\ \A i \in 1 .. Len(Tail(q)) : Tail(q)[i] = q[i + 1]
    BY <1>2, HeadTailProperties
  <2>3. DOMAIN q = 1 .. Len(q) /\ DOMAIN Tail(q) = 1 .. Len(q) - 1 /\ Len(q) \in Nat \ {0}
    BY <1>2, <2>2
  <2>4. ToSet(Tail(q)) = ToSet(q) \ {q[1]}
    <3>1. ASSUME NEW x \in ToSet(Tail(q)) PROVE x \in ToSet(q) \ {q[1]}
      BY <2>2, <2>3 DEF ToSet
    <3>2. ASSUME NEW x \in ToSet(q) \ {q[1]} PROVE x \in ToSet(Tail(q))
      <4>1. PICK i \in 1 .. Len(q) : x = q[i]
        BY <2>3 DEF ToSet
      <4>2. i - 1 \in 1 .. Len(Tail(q)) /\ x = Tail(q)[i - 1]
        BY <3>2, <4>1, <2>2, <2>3
      <4> QED BY <4>2, <2>2, <2>3 DEF ToSet
    <3> QED BY <3>1, <3>2
  <2>5. q[1] \in Waiting
    BY <2>3 DEF Waiting, ToSet
  <2>6. QueueOK'
    BY <2>1, <2>2, <2>3
  <2> QED BY <2>1, <2>4, <2>5, <2>6 DEF Waiting
<1> QED BY <1>1, <1>2

(* A thread enters: it comes to a place where it holds the lock or waits.  *)
LEMMA EnterOK ==
    ASSUME LockOK, Types, NEW t \in Thread, t \notin Waiting,
           SEM_CALL_OUT_LOCK.semcnt = 1 \/ ~Holds(t), NEW pc \in Entered, lock(t, pc)
    PROVE  LockOK' 
<1>1. /\ QueueOK'
      /\ SEM_CALL_OUT_LOCK'.semcnt = 0
      /\ Waiting' = IF SEM_CALL_OUT_LOCK.semcnt = 1 THEN Waiting ELSE Waiting \cup {t}
  BY LockEffect DEF LockOK
<1>2. thread' = [thread EXCEPT ![t].pc = pc]
  BY DEF lock
<1>3. \A u \in Thread \ {t} : thread'[u] = thread[u]
  BY <1>2 DEF Types
<1>4. thread'[t].pc = pc
  BY <1>2 DEF Types
<1>5. \A u \in Waiting : u \in Thread
  BY DEF LockOK, QueueOK, Waiting, ToSet
<1> QED BY <1>1, <1>3, <1>4, <1>5 DEF LockOK, Holds, Locked

(* A thread that holds the lock leaves.                                    *)
LEMMA LeaveOK ==
    ASSUME LockOK, Types, NEW t \in Thread, Holds(t), unlock,
           \A u \in Thread \ {t} : thread'[u] = thread[u], thread'[t].pc \notin Locked
    PROVE  LockOK'
<1>1. /\ QueueOK'
      /\ \/ /\ Waiting = {} /\ Waiting' = {}
            /\ SEM_CALL_OUT_LOCK'.semcnt = 1
         \/ /\ SEM_CALL_OUT_LOCK'.semcnt = 0
            /\ \E u \in Waiting : Waiting' = Waiting \ {u}
  BY UnlockEffect DEF LockOK
<1>2. \A u \in Waiting : u \in Thread
  BY DEF LockOK, QueueOK, Waiting, ToSet
<1>3. \A u \in Thread \ {t} : ~Holds(u)
  BY DEF LockOK
<1>4. \A u \in Thread \ {t} : Holds(u)' => u \in Waiting /\ u \notin Waiting'
  BY <1>3 DEF Holds
<1>5. ~Holds(t)'
  BY DEF Holds
<1>6. \A u, v \in Thread : Holds(u)' /\ Holds(v)' => u = v
  BY <1>1, <1>4, <1>5
<1> QED BY <1>1, <1>2, <1>4, <1>5, <1>6 DEF LockOK, Holds

(* A thread goes on, with or without the lock as before.                   *)
LEMMA StayOK ==
    ASSUME LockOK, Types, NEW t \in Thread, t \notin Waiting,
           \A u \in Thread \ {t} : thread'[u] = thread[u],
           thread'[t].pc \in Locked => thread[t].pc \in Locked, UNCHANGED SEM_CALL_OUT_LOCK
    PROVE  LockOK'
<1>1. Waiting' = Waiting
  BY DEF Waiting
<1>2. QueueOK'
  BY DEF LockOK, QueueOK
<1>3. \A u \in Thread : Holds(u)' => Holds(u)
  BY <1>1 DEF Holds
<1>4. \A u \in Waiting : u \in Thread
  BY DEF LockOK, QueueOK, Waiting, ToSet
<1> QED BY <1>1, <1>2, <1>3, <1>4 DEF LockOK

-----------------------------------------------------------------------------
(* The inductive invariant.                                                *)

(* What a thread knows at each place.                                      *)
ThreadOK(t) ==
    LET self == thread[t]
    IN  /\ self.pc \in {"timeout", "search", "store"} =>
              self.func \in Function /\ self.timeout \in Ticks
        /\ self.pc \in {"untimeout", "compare", "clear"} =>
              t \in TSK /\ self.func \in Function
        /\ self.pc \in {"wait", "scan", "look", "call"} => t = NET_TIMER_TASK
        /\ self.pc = "run" => t \in TSK
        /\ self.pc = "clear" => callout[self.ix].func = self.func
        /\ self.pc = "call" => self.func \in Function
        /\ self.pc = "scan" => scan > 0
        /\ self.pc = "look" => scan \in Index

IInv ==
    /\ Types
    /\ LockOK
    /\ \A t \in Thread : ThreadOK(t)

LEMMA InitOK ==
    ASSUME NetTimerAssumption, Init PROVE IInv
<1> USE DEF Init, idle, Thread, Index, PC, Function, Ticks, NetTimerAssumption
<1>1. Types
  BY DEF Types, Self, Entry
<1>2. Waiting = {}
  BY DEF Waiting, ToSet
<1>3. \A t \in Thread : thread[t].pc \in {"run", "timeout"}
  OBVIOUS
<1>4. LockOK
  BY <1>2, <1>3 DEF LockOK, QueueOK, Holds, Locked, Entered
<1>5. \A t \in Thread : ThreadOK(t)
  BY DEF ThreadOK
<1> QED BY <1>1, <1>4, <1>5 DEF IInv

(* Only the thread that holds the lock is writing or clearing an entry.    *)
LEMMA HolderAlone ==
    ASSUME IInv, NEW t \in Thread, Holds(t), NEW u \in Thread, u # t
    PROVE  thread[u].pc \notin {"store", "clear"}
BY DEF IInv, LockOK, Holds, Locked, Entered

(* What the other threads know stays true.                                 *)
LEMMA OthersOK ==
    ASSUME NetTimerAssumption, IInv, NEW t \in Thread,
           \A u \in Thread \ {t} : thread'[u] = thread[u],
           t = NET_TIMER_TASK \/ scan' = scan,
           Holds(t) \/ \A i \in Index : callout'[i].func = callout[i].func
    PROVE  \A u \in Thread \ {t} : ThreadOK(u)'
<1> TAKE u \in Thread \ {t}
<1>1. thread[u].pc = "clear" => callout'[thread[u].ix].func = callout[thread[u].ix].func
  BY HolderAlone DEF IInv, Types, Self
<1>2. thread[u].pc \in {"scan", "look"} => scan' = scan
  BY DEF IInv, ThreadOK
<1> QED BY <1>1, <1>2 DEF IInv, ThreadOK, Index

(* The thread that calls timeout or untimeout, or waits for the lock.      *)
LEMMA CallOK ==
    ASSUME NetTimerAssumption, IInv,
           NEW t \in TSK, NEW func \in CALLOUT,
           \/ \E ticks \in TIMEOUT : timeout(t, func, ticks)
           \/ untimeout(t, func)
    PROVE  IInv'
<1> USE DEF IInv
<1>0. t \in Thread /\ NUM_NET_CALLOUT - 1 \in Index /\ 0 \in Index
  BY DEF Thread, Index, NetTimerAssumption
<1>1. PICK self \in [pc : {"timeout", "untimeout"}, func : Function, timeout : Nat, ix : Index] :
         /\ self.pc = "timeout" => self.timeout \in Ticks
         /\ thread' = [thread EXCEPT ![t] = self]
  BY <1>0 DEF timeout, untimeout, Function, Ticks, NetTimerAssumption
<1>2. /\ thread[t].pc = "run" /\ t \notin Waiting
      /\ UNCHANGED <<callout, SEM_CALL_OUT_LOCK, SEM_CALL_OUT_TIMEOUT, scan>>
  BY DEF timeout, untimeout, At, Waiting
<1>3. thread'[t] = self /\ \A u \in Thread \ {t} : thread'[u] = thread[u]
  BY <1>0, <1>1 DEF Types
<1>4. Types'
  BY <1>0, <1>1, <1>2 DEF Types, PC
<1>5. LockOK'
  BY <1>0, <1>2, <1>3, StayOK DEF Locked, Entered
<1>6. ThreadOK(t)'
  BY <1>1, <1>3 DEF ThreadOK
<1> QED BY <1>0, <1>2, <1>3, <1>4, <1>5, <1>6, OthersOK

LEMMA EnterStepOK ==
    ASSUME NetTimerAssumption, IInv, NEW t \in Thread,
           timeout_wai_sem(t) \/ untimeout_wai_sem(t)
    PROVE  IInv'
<1> USE DEF IInv
<1>1. PICK pc \in {"search", "compare"} :
         /\ lock(t, pc)
         /\ thread[t].pc = IF pc = "search" THEN "timeout" ELSE "untimeout"
  BY DEF timeout_wai_sem, untimeout_wai_sem, At
<1>2. /\ t \notin Waiting
      /\ UNCHANGED <<callout, SEM_CALL_OUT_TIMEOUT, scan>>
  BY DEF timeout_wai_sem, untimeout_wai_sem, At, Waiting
<1>3. /\ thread' = [thread EXCEPT ![t].pc = pc]
      /\ pc \in PC
  BY <1>1 DEF PC, lock
<1>3a. /\ thread' \in [Thread -> Self]
       /\ thread'[t] = [thread[t] EXCEPT !.pc = pc]
       /\ \A u \in Thread \ {t} : thread'[u] = thread[u]
  BY <1>3, PcEffect
<1>4. LockOK'
  BY <1>1, <1>2, EnterOK DEF Entered, Locked, Holds
<1>5. Types'
  BY <1>2, <1>3a, <1>4 DEF Types, LockOK, QueueOK
<1>6. ThreadOK(t)'
  BY <1>1, <1>2, <1>3a DEF ThreadOK, Types, Self
<1> QED BY <1>2, <1>3a, <1>4, <1>5, <1>6, OthersOK

(* Where a thread goes on when timeout or untimeout ends.                  *)
LEMMA ReturnEffect ==
    ASSUME NetTimerAssumption, IInv, NEW t \in Thread, return(t), UNCHANGED scan
    PROVE  /\ thread' \in [Thread -> Self]
           /\ \A u \in Thread \ {t} : thread'[u] = thread[u]
           /\ thread'[t].pc \in {"run", "wait", "scan"}
           /\ ThreadOK(t)'
<1>1. PICK self \in Self :
         /\ thread' = [thread EXCEPT ![t] = self]
         /\ IF t = NET_TIMER_TASK
            THEN self.pc = IF scan = 0 THEN "wait" ELSE "scan" ELSE self.pc = "run"
  <2> DEFINE self == [idle EXCEPT !.pc = IF t # NET_TIMER_TASK THEN "run"
                                         ELSE IF scan = 0 THEN "wait" ELSE "scan"]
  <2>1. self = [pc |-> self.pc, func |-> NULL, timeout |-> 0, ix |-> 0]
    BY DEF idle
  <2>2. self \in Self
    BY <2>1 DEF Self, PC, Index, NetTimerAssumption
  <2>3. thread' = [thread EXCEPT ![t] = self]
    BY DEF return, next_entry, idle
  <2> QED BY <2>1, <2>2, <2>3
<1>2. thread'[t] = self /\ \A u \in Thread \ {t} : thread'[u] = thread[u]
  BY <1>1 DEF IInv, Types
<1>3. ThreadOK(t)'
  BY <1>1, <1>2 DEF ThreadOK, IInv, Types, Thread, Index
<1> QED BY <1>1, <1>2, <1>3 DEF IInv, Types

(* A thread that holds the lock ends timeout or untimeout.                 *)
LEMMA ReturnOK ==
    ASSUME NetTimerAssumption, IInv, NEW t \in Thread, Holds(t), unlock, return(t),
           UNCHANGED <<SEM_CALL_OUT_TIMEOUT, scan>>,
           callout' \in [Index -> Entry]
    PROVE  IInv'
<1> USE DEF IInv
<1>1. /\ thread' \in [Thread -> Self]
      /\ \A u \in Thread \ {t} : thread'[u] = thread[u]
      /\ thread'[t].pc \in {"run", "wait", "scan"}
      /\ ThreadOK(t)'
  BY ReturnEffect
<1>2. LockOK'
  BY <1>1, LeaveOK DEF Locked, Entered
<1>3. Types'
  BY <1>1, <1>2 DEF Types, LockOK, QueueOK
<1> QED BY <1>1, <1>2, <1>3, OthersOK

LEMMA BusyOK ==
    ASSUME NetTimerAssumption, IInv, NEW t \in Thread, callout_busy(t)
    PROVE  IInv'
<1>1. Holds(t)
  BY DEF callout_busy, At, Holds, Locked, Entered, Waiting
<1> QED BY <1>1, ReturnOK DEF callout_busy, IInv, Types

LEMMA FirstStoreOK ==
    ASSUME NetTimerAssumption, IInv, NEW t \in Thread, first_store(t)
    PROVE  IInv'
<1> USE DEF IInv
<1>1. PICK i \in Index :
         /\ thread' = [thread EXCEPT ![t].pc = "store", ![t].ix = i]
         /\ \/ callout' = [callout EXCEPT ![i].func = thread[t].func]
            \/ callout' = [callout EXCEPT ![i].timeout = thread[t].timeout]
  BY DEF first_store
<1>2. /\ thread[t].pc = "search" /\ t \notin Waiting
      /\ UNCHANGED <<SEM_CALL_OUT_LOCK, SEM_CALL_OUT_TIMEOUT, scan>>
  BY DEF first_store, At, Waiting
<1>3. Holds(t)
  BY <1>2 DEF Holds, Locked, Entered
<1>4. /\ thread' \in [Thread -> Self]
      /\ thread'[t] = [thread[t] EXCEPT !.pc = "store", !.ix = i]
      /\ \A u \in Thread \ {t} : thread'[u] = thread[u]
  BY <1>1, PcIxEffect DEF PC
<1>5. LockOK'
  BY <1>2, <1>4, StayOK DEF Locked, Entered
<1>6. thread[t] \in Self /\ callout[i] \in Entry
  BY DEF Types
<1>7. callout' \in [Index -> Entry]
  <2>1. /\ [callout[i] EXCEPT !.func = thread[t].func] \in Entry
        /\ [callout[i] EXCEPT !.timeout = thread[t].timeout] \in Entry
    BY <1>6 DEF Entry, Self
  <2> QED BY <1>1, <2>1 DEF Types
<1>8. Types'
  BY <1>2, <1>4, <1>7 DEF Types
<1>9. ThreadOK(t)'
  BY <1>2, <1>4, <1>6 DEF ThreadOK, Self
<1> QED BY <1>2, <1>3, <1>4, <1>5, <1>8, <1>9, OthersOK

LEMMA SecondStoreOK ==
    ASSUME NetTimerAssumption, IInv, NEW t \in Thread, second_store(t)
    PROVE  IInv'
<1>1. Holds(t)
  BY DEF second_store, At, Holds, Locked, Entered, Waiting
<1>2. callout' \in [Index -> Entry]
  <2>1. thread[t] \in Self
    BY DEF IInv, Types
  <2>2. [func |-> thread[t].func, timeout |-> thread[t].timeout] \in Entry
    BY <2>1 DEF Entry, Self
  <2> QED BY <2>2 DEF second_store, IInv, Types
<1> QED BY <1>1, <1>2, ReturnOK DEF second_store

LEMMA ClearOK ==
    ASSUME NetTimerAssumption, IInv, NEW t \in Thread, clear(t)
    PROVE  IInv'
<1>1. Holds(t)
  BY DEF clear, At, Holds, Locked, Entered, Waiting
<1>2. callout' \in [Index -> Entry]
  <2>1. thread[t].ix \in Index /\ callout[thread[t].ix] \in Entry
    BY DEF IInv, Types, Self
  <2>2. [callout[thread[t].ix] EXCEPT !.func = NULL] \in Entry
    BY <2>1 DEF Entry
  <2> QED BY <2>2 DEF clear, IInv, Types
<1> QED BY <1>1, <1>2, ReturnOK DEF clear

LEMMA CompareOK ==
    ASSUME NetTimerAssumption, IInv, NEW t \in Thread, compare(t)
    PROVE  IInv'
<1> USE DEF IInv
<1> DEFINE self == thread[t]
<1>1. /\ self.pc = "compare" /\ t \notin Waiting /\ Holds(t)
      /\ UNCHANGED <<callout, SEM_CALL_OUT_TIMEOUT, scan>>
  BY DEF compare, At, Waiting, Holds, Locked, Entered
<1>2. CASE callout[self.ix].func = self.func /\ Ticking(self.ix)
  <2>1. thread' = [thread EXCEPT ![t].pc = "clear"] /\ UNCHANGED SEM_CALL_OUT_LOCK
    BY <1>2 DEF compare
  <2>2. /\ thread' \in [Thread -> Self]
        /\ thread'[t] = [self EXCEPT !.pc = "clear"]
        /\ \A u \in Thread \ {t} : thread'[u] = thread[u]
    BY <2>1, PcEffect DEF PC
  <2>3. LockOK'
    BY <1>1, <2>1, <2>2, StayOK DEF Locked, Entered
  <2>4. Types'
    BY <1>1, <2>1, <2>2 DEF Types
  <2>5. ThreadOK(t)'
    BY <1>1, <1>2, <2>2 DEF ThreadOK, Types, Self
  <2> QED BY <1>1, <2>2, <2>3, <2>4, <2>5, OthersOK
<1>3. CASE /\ ~(callout[self.ix].func = self.func /\ Ticking(self.ix))
           /\ self.ix = 0
  <2>1. unlock /\ return(t)
    BY <1>3 DEF compare
  <2> QED BY <1>1, <2>1, ReturnOK DEF Types
<1>4. CASE /\ ~(callout[self.ix].func = self.func /\ Ticking(self.ix))
           /\ self.ix # 0
  <2>1. unlock /\ thread' = [thread EXCEPT ![t].pc = "untimeout", ![t].ix = @ - 1]
    BY <1>4 DEF compare
  <2>2. self \in Self /\ self.ix - 1 \in Index
    BY <1>4 DEF Types, Self, Index, NetTimerAssumption
  <2>3. /\ thread' \in [Thread -> Self]
        /\ thread'[t] = [self EXCEPT !.pc = "untimeout", !.ix = self.ix - 1]
        /\ thread'[t].pc = "untimeout"
        /\ \A u \in Thread \ {t} : thread'[u] = thread[u]
    <3>1. thread' = [thread EXCEPT ![t].pc = "untimeout", ![t].ix = self.ix - 1]
      BY <2>1
    <3> QED BY <2>2, <3>1, PcIxEffect DEF PC
  <2>4. LockOK'
    BY <1>1, <2>1, <2>3, LeaveOK DEF Locked, Entered
  <2>5. Types'
    BY <1>1, <2>3, <2>4 DEF Types, LockOK, QueueOK
  <2>6. ThreadOK(t)'
    BY <1>1, <2>2, <2>3 DEF ThreadOK, Self
  <2> QED BY <1>1, <2>3, <2>4, <2>5, <2>6, OthersOK
<1> QED BY <1>2, <1>3, <1>4

LEMMA TimerStepOK ==
    ASSUME NetTimerAssumption, IInv, TimerStep
    PROVE  IInv'
<1> USE DEF IInv
<1> DEFINE t == NET_TIMER_TASK
<1>0. t \in Thread /\ 0 \in Index /\ IF_TIMER_TMO \in Ticks
  BY DEF Thread, Index, Ticks, NetTimerAssumption
<1> HIDE DEF t
<1>1. CASE wai_sem_timeout
  <2>1. /\ thread[t].pc = "wait" /\ t \notin Waiting
        /\ thread' = [thread EXCEPT ![t].pc = "scan"] /\ scan' = NUM_NET_CALLOUT
        /\ SEM_CALL_OUT_TIMEOUT > 0 /\ SEM_CALL_OUT_TIMEOUT' = SEM_CALL_OUT_TIMEOUT - 1
        /\ UNCHANGED <<callout, SEM_CALL_OUT_LOCK>>
    BY <1>1 DEF wai_sem_timeout, At, Waiting, t
  <2>2. /\ thread' \in [Thread -> Self]
        /\ thread'[t] = [thread[t] EXCEPT !.pc = "scan"]
        /\ thread'[t].pc = "scan"
        /\ \A u \in Thread \ {t} : thread'[u] = thread[u]
    BY <1>0, <2>1, PcEffect DEF PC
  <2>3. LockOK'
    BY <1>0, <2>1, <2>2, StayOK DEF Locked, Entered
  <2>4. Types'
    BY <2>1, <2>2 DEF Types, NetTimerAssumption
  <2>5. ThreadOK(t)'
    BY <1>0, <2>1, <2>2 DEF ThreadOK, Types, NetTimerAssumption, t
  <2> QED BY <1>0, <2>1, <2>2, <2>3, <2>4, <2>5, OthersOK DEF t
<1>2. CASE scan_wai_sem
  <2>1. /\ thread[t].pc = "scan" /\ t \notin Waiting
        /\ lock(t, "look") /\ scan' = scan - 1
        /\ UNCHANGED <<callout, SEM_CALL_OUT_TIMEOUT>>
    BY <1>2 DEF scan_wai_sem, At, Waiting, t
  <2>2. thread' = [thread EXCEPT ![t].pc = "look"]
    BY <2>1 DEF lock
  <2>2a. /\ thread' \in [Thread -> Self]
         /\ thread'[t].pc = "look"
         /\ \A u \in Thread \ {t} : thread'[u] = thread[u]
    BY <1>0, <2>2, PcEffect DEF PC
  <2>3. LockOK'
    BY <1>0, <2>1, EnterOK DEF Locked, Entered, Holds
  <2>4. scan > 0
    BY <1>0, <2>1 DEF ThreadOK
  <2>5. scan - 1 \in Index /\ scan - 1 \in 0 .. NUM_NET_CALLOUT
    BY <2>4 DEF Types, Index, NetTimerAssumption
  <2>6. Types'
    BY <2>1, <2>2a, <2>3, <2>5 DEF Types, LockOK, QueueOK
  <2>7. ThreadOK(t)'
    BY <1>0, <2>1, <2>2a, <2>5 DEF ThreadOK, t
  <2> QED BY <1>0, <2>1, <2>2a, <2>3, <2>6, <2>7, OthersOK DEF t
<1>3. CASE look
  <2>1. /\ thread[t].pc = "look" /\ t \notin Waiting /\ Holds(t) /\ unlock
        /\ UNCHANGED <<SEM_CALL_OUT_TIMEOUT, scan>>
    BY <1>3 DEF look, At, Waiting, Holds, Locked, Entered, t
  <2>2. scan \in Index
    BY <1>0, <2>1 DEF ThreadOK
  <2>3. CASE callout[scan].func # NULL /\ callout[scan].timeout = 0
    <3>1. /\ callout' = [callout EXCEPT ![scan].func = NULL]
          /\ thread' = [thread EXCEPT ![t] = [idle EXCEPT !.pc = "call",
                                                          !.func = callout[scan].func]]
      BY <1>3, <2>3 DEF look, t
    <3> DEFINE self == [pc |-> "call", func |-> callout[scan].func,
                        timeout |-> 0, ix |-> 0]
    <3>2. callout[scan] \in Entry /\ callout[scan].func \in Function
      BY <2>2, <2>3 DEF Types, Entry
    <3>3. [idle EXCEPT !.pc = "call", !.func = callout[scan].func] = self
      <4> DEFINE r == [idle EXCEPT !.pc = "call", !.func = callout[scan].func]
      <4>1. r \in [pc : {"call"}, func : {callout[scan].func}, timeout : {0}, ix : {0}]
        BY DEF idle
      <4> HIDE DEF r
      <4>2. r = self
        BY ONLY <4>1
      <4> QED BY <4>2 DEF r
    <3>4. /\ thread' \in [Thread -> Self]
          /\ thread'[t] = self
          /\ \A u \in Thread \ {t} : thread'[u] = thread[u]
      <4>1. self \in Self
        BY <1>0, <3>2 DEF Self, PC
      <4>2. thread' = [thread EXCEPT ![t] = self]
        BY <3>1, <3>3
      <4> QED BY <1>0, <4>1, <4>2, ThreadEffect
    <3>5. LockOK'
      BY <1>0, <2>1, <3>4, LeaveOK DEF Locked, Entered
    <3>6. Types'
      <4>1. [callout[scan] EXCEPT !.func = NULL] \in Entry
        BY <3>2 DEF Entry
      <4>2. callout' \in [Index -> Entry]
        BY <3>1, <4>1 DEF Types
      <4> QED BY <2>1, <3>4, <3>5, <4>2 DEF Types, LockOK, QueueOK
    <3>7. ThreadOK(t)'
      BY <3>2, <3>4 DEF ThreadOK, t
    <3> QED BY <1>0, <2>1, <3>4, <3>5, <3>6, <3>7, OthersOK DEF t
  <2>4. CASE ~(callout[scan].func # NULL /\ callout[scan].timeout = 0)
    <3>1. return(t) /\ UNCHANGED callout
      BY <1>3, <2>4 DEF look, t
    <3> QED BY <1>0, <2>1, <3>1, ReturnOK DEF Types
  <2> QED BY <2>3, <2>4
<1>4. CASE call
  <2>1. /\ thread[t].pc = "call" /\ t \notin Waiting
        /\ UNCHANGED <<callout, SEM_CALL_OUT_LOCK, SEM_CALL_OUT_TIMEOUT, scan>>
    BY <1>4 DEF call, At, Waiting, t
  <2>2. CASE thread[t].func = if_slowtimo
    <3>1. thread' = [thread EXCEPT ![t].pc = "timeout", ![t].timeout = IF_TIMER_TMO]
      BY <1>4, <2>2 DEF call, t
    <3> DEFINE self == [thread[t] EXCEPT !.pc = "timeout", !.timeout = IF_TIMER_TMO]
    <3>2. /\ thread' \in [Thread -> Self]
          /\ thread'[t] = self
          /\ \A u \in Thread \ {t} : thread'[u] = thread[u]
      <4>1. thread[t] \in Self
        BY <1>0 DEF Types
      <4>2. self \in Self
        BY <4>1 DEF Self, PC, NetTimerAssumption
      <4>3. thread' = [thread EXCEPT ![t] = self]
        BY <1>0, <3>1, <4>1 DEF Types
      <4> QED BY <1>0, <4>2, <4>3, ThreadEffect
    <3>2a. thread'[t].pc = "timeout" /\ thread'[t].func = if_slowtimo
                                    /\ thread'[t].timeout = IF_TIMER_TMO
      BY <1>0, <2>2, <3>2 DEF Types, Self
    <3>3. LockOK'
      BY <1>0, <2>1, <3>2, <3>2a, StayOK DEF Locked, Entered
    <3>4. Types'
      BY <2>1, <3>2 DEF Types
    <3>5. ThreadOK(t)'
      BY <1>0, <3>2a DEF ThreadOK, Function
    <3> QED BY <1>0, <2>1, <3>2, <3>3, <3>4, <3>5, OthersOK
  <2>3. CASE thread[t].func # if_slowtimo
    <3>1. return(t)
      BY <1>4, <2>3 DEF call, t
    <3>2. /\ thread' \in [Thread -> Self]
          /\ \A u \in Thread \ {t} : thread'[u] = thread[u]
          /\ thread'[t].pc \in {"run", "wait", "scan"}
          /\ ThreadOK(t)'
      BY <1>0, <2>1, <3>1, ReturnEffect
    <3>3. LockOK'
      BY <1>0, <2>1, <3>2, StayOK DEF Locked, Entered
    <3>4. Types'
      BY <2>1, <3>2 DEF Types
    <3> QED BY <1>0, <2>1, <3>2, <3>3, <3>4, OthersOK
  <2> QED BY <2>2, <2>3
<1> QED BY <1>1, <1>2, <1>3, <1>4 DEF TimerStep

LEMMA HandlerOK ==
    ASSUME NetTimerAssumption, IInv, net_timer_handler
    PROVE  IInv'
<1> USE DEF IInv
<1>1. UNCHANGED <<SEM_CALL_OUT_LOCK, thread, scan>> /\ SEM_CALL_OUT_TIMEOUT' \in Nat
  BY DEF net_timer_handler, Types
<1>2. \A i \in Index : /\ callout'[i].func = callout[i].func
                       /\ callout'[i] \in Entry
  <2> SUFFICES ASSUME NEW i \in Index
               PROVE  callout'[i].func = callout[i].func /\ callout'[i] \in Entry
    OBVIOUS
  <2>1. callout[i] \in Entry
    BY DEF Types
  <2>2. callout'[i] = IF Ticking(i) THEN [callout[i] EXCEPT !.timeout = callout[i].timeout - 1]
                      ELSE callout[i]
    BY DEF net_timer_handler
  <2>3. CASE Ticking(i)
    <3>1. callout[i].timeout - 1 \in Nat
      BY <2>1, <2>3 DEF Ticking, Entry
    <3> QED BY <2>1, <2>2, <2>3, <3>1 DEF Entry
  <2> QED BY <2>1, <2>2, <2>3
<1>3. Types'
  BY <1>1, <1>2 DEF Types, net_timer_handler
<1>4. LockOK'
  BY <1>1 DEF LockOK, QueueOK, Waiting, Holds
<1>5. \A t \in Thread : ThreadOK(t)'
  BY <1>1, <1>2 DEF ThreadOK, Types, Self
<1> QED BY <1>3, <1>4, <1>5

LEMMA StepOK ==
    ASSUME NetTimerAssumption, IInv, [Next]_vars
    PROVE  IInv'
<1>1. CASE UNCHANGED vars
  BY <1>1 DEF vars, IInv, Types, LockOK, QueueOK, Waiting, Holds, ThreadOK
<1>2. CASE Next
  BY <1>2, CallOK, EnterStepOK, BusyOK, FirstStoreOK, SecondStoreOK, CompareOK, ClearOK,
     TimerStepOK, HandlerOK DEF Next, ThreadStep
<1> QED BY <1>1, <1>2

-----------------------------------------------------------------------------
(* The steps of the service.                                               *)

(* The entries a task may still clear, case by case.                       *)
LEMMA ToClearAt ==
    ASSUME NEW t
    PROVE  /\ thread[t].pc = "clear" => ToClear(t) = {thread[t].ix}
           /\ thread[t].pc \in {"untimeout", "compare"} =>
                 ToClear(t) = {i \in 0 .. thread[t].ix :
                                  /\ Registered(i) /\ Ticking(i)
                                  /\ callout[i].func = thread[t].func}
           /\ thread[t].pc \notin {"clear", "untimeout", "compare"} => ToClear(t) = {}
BY DEF ToClear

(* They are entries.                                                       *)
LEMMA ToClearInIndex ==
    ASSUME NetTimerAssumption, IInv, NEW t \in Thread
    PROVE  ToClear(t) \subseteq Index
<1>1. thread[t].ix \in Index
  BY DEF IInv, Types, Self
<1>2. \A i \in 0 .. thread[t].ix : i \in Index
  BY <1>1 DEF Index, NetTimerAssumption
<1> QED BY <1>1, <1>2, ToClearAt

(* A step of one thread that writes nothing changes nothing for the others.*)
LEMMA RestSame ==
    ASSUME IInv, NEW t \in Thread, \A u \in Thread \ {t} : thread'[u] = thread[u],
           thread[t].pc # "store", thread'[t].pc # "store", UNCHANGED callout
    PROVE  /\ UNCHANGED entry
           /\ \A i \in Index : Registered(i)' <=> Registered(i)
           /\ \A u \in Thread \ {t} : ToClear(u)' = ToClear(u)
<1>1. \A i : BeingSet(i)' <=> BeingSet(i)
  BY DEF BeingSet
<1>2. \A i : Registered(i)' <=> Registered(i)
  BY <1>1 DEF Registered, Free
<1>3. UNCHANGED entry
  BY <1>2 DEF entry
<1>4. \A i : Ticking(i)' <=> Ticking(i)
  BY DEF Ticking
<1>5. ASSUME NEW u \in Thread \ {t} PROVE ToClear(u)' = ToClear(u)
  BY <1>2, <1>4 DEF ToClear
<1> QED BY <1>2, <1>3, <1>5

(* A step that concerns only the thread that makes it.                     *)
LEMMA Stutter ==
    ASSUME NetTimerAssumption, IInv, NEW t \in Thread,
           \A u \in Thread \ {t} : thread'[u] = thread[u],
           thread[t].pc \notin {"store", "call"}, thread'[t].pc \notin {"store", "call"},
           UNCHANGED callout, ToClear(t)' = ToClear(t)
    PROVE  UNCHANGED Service!vars
<1>1. UNCHANGED entry /\ \A u \in Thread : ToClear(u)' = ToClear(u)
  BY RestSame
<1>2. UNCHANGED cancelling
  BY <1>1 DEF cancelling, Thread
<1>3. UNCHANGED calling
  BY DEF calling, Thread
<1> QED BY <1>1, <1>2, <1>3 DEF Service!vars

LEMMA CallStutters ==
    ASSUME NetTimerAssumption, IInv, NEW t \in TSK, NEW func \in CALLOUT,
           NEW ticks \in TIMEOUT, timeout(t, func, ticks)
    PROVE  UNCHANGED Service!vars
<1> DEFINE self == [pc |-> "timeout", func |-> func, timeout |-> ticks, ix |-> 0]
<1>1. t \in Thread /\ self \in Self
  BY DEF Thread, Self, PC, Function, Index, NetTimerAssumption
<1>2. /\ thread[t].pc = "run" /\ thread' = [thread EXCEPT ![t] = self]
      /\ UNCHANGED <<callout, SEM_CALL_OUT_LOCK, SEM_CALL_OUT_TIMEOUT, scan>>
  BY DEF timeout, At
<1>3. thread'[t] = self /\ \A u \in Thread \ {t} : thread'[u] = thread[u]
  BY <1>1, <1>2, ThreadEffect DEF IInv
<1>4. ToClear(t)' = {} /\ ToClear(t) = {}
  BY <1>2, <1>3 DEF ToClear
<1> QED BY <1>1, <1>2, <1>3, <1>4, Stutter

(* All callouts of the function are to be found.                           *)
LEMMA UntimeoutStarts ==
    ASSUME NetTimerAssumption, IInv, NEW t \in TSK, NEW func \in CALLOUT,
           untimeout(t, func)
    PROVE  Service!StartCancel(t, func)
<1> DEFINE self == [pc |-> "untimeout", func |-> func, timeout |-> 0,
                    ix |-> NUM_NET_CALLOUT - 1]
<1>1. t \in Thread /\ self \in Self
  BY DEF Thread, Self, PC, Function, Index, NetTimerAssumption
<1>2. /\ thread[t].pc = "run" /\ thread' = [thread EXCEPT ![t] = self]
      /\ UNCHANGED <<callout, SEM_CALL_OUT_LOCK, SEM_CALL_OUT_TIMEOUT, scan>>
  BY DEF untimeout, At
<1>3. thread'[t] = self /\ \A u \in Thread \ {t} : thread'[u] = thread[u]
  BY <1>1, <1>2, ThreadEffect DEF IInv
<1>4. /\ UNCHANGED entry
      /\ \A i \in Index : Registered(i)' <=> Registered(i)
      /\ \A u \in Thread \ {t} : ToClear(u)' = ToClear(u)
  BY <1>1, <1>2, <1>3, RestSame
<1>5. ToClear(t) = {}
  BY <1>2, ToClearAt
<1>6. ToClear(t)' = {i \in Index : Registered(i) /\ Ticking(i) /\ callout[i].func = func}
  BY <1>2, <1>3, <1>4 DEF ToClear, Index, Ticking
<1>7. ToClear(t)' = {p \in Index : Service!Pending(p) /\ entry[p].func = func}
  BY <1>6 DEF Service!Pending, entry, Ticking
<1>8. cancelling' = [cancelling EXCEPT ![t] = {p \in Index : Service!Pending(p) /\ entry[p].func = func}]
  BY <1>4, <1>7 DEF cancelling, Thread
<1>9. UNCHANGED calling
  BY <1>1, <1>2, <1>3 DEF calling, Thread, NetTimerAssumption
<1> QED BY <1>4, <1>5, <1>8, <1>9 DEF Service!StartCancel, cancelling

(* Taking the lock is not seen.                                            *)
LEMMA EnterStutters ==
    ASSUME NetTimerAssumption, IInv, NEW t \in Thread,
           timeout_wai_sem(t) \/ untimeout_wai_sem(t)
    PROVE  UNCHANGED Service!vars
<1>1. PICK pc \in {"search", "compare"} :
         /\ thread' = [thread EXCEPT ![t].pc = pc]
         /\ thread[t].pc = IF pc = "search" THEN "timeout" ELSE "untimeout"
         /\ UNCHANGED callout
  BY DEF timeout_wai_sem, untimeout_wai_sem, At, lock
<1>2. /\ thread'[t] = [thread[t] EXCEPT !.pc = pc] /\ thread'[t].pc = pc
      /\ \A u \in Thread \ {t} : thread'[u] = thread[u]
  BY <1>1, PcEffect DEF IInv, PC
<1>3. thread'[t].ix = thread[t].ix /\ thread'[t].func = thread[t].func
  BY <1>2 DEF IInv, Types, Self
<1>4. \A i \in Index : Registered(i)' <=> Registered(i)
  BY <1>1, <1>2, RestSame
<1>5. \A i \in 0 .. thread[t].ix : i \in Index
  BY DEF IInv, Types, Self, Index
<1>6. ToClear(t)' = ToClear(t)
  BY <1>1, <1>2, <1>3, <1>4, <1>5 DEF ToClear, Ticking
<1> QED BY <1>1, <1>2, <1>6, Stutter

LEMMA BusyStutters ==
    ASSUME NetTimerAssumption, IInv, NEW t \in Thread, callout_busy(t)
    PROVE  UNCHANGED Service!vars
<1>1. /\ thread[t].pc = "search" /\ return(t)
      /\ UNCHANGED <<callout, scan>>
  BY DEF callout_busy, At
<1>2. /\ \A u \in Thread \ {t} : thread'[u] = thread[u]
      /\ thread'[t].pc \in {"run", "wait", "scan"}
  BY <1>1, ReturnEffect
<1>3. ToClear(t)' = {} /\ ToClear(t) = {}
  BY <1>1, <1>2 DEF ToClear
<1> QED BY <1>1, <1>2, <1>3, Stutter

(* An entry that is being written is not seen.                             *)
LEMMA FirstStoreStutters ==
    ASSUME NetTimerAssumption, IInv, NEW t \in Thread, first_store(t)
    PROVE  UNCHANGED Service!vars
<1>1. PICK i \in Index :
         /\ Free(i)
         /\ thread' = [thread EXCEPT ![t].pc = "store", ![t].ix = i]
         /\ \/ callout' = [callout EXCEPT ![i].func = thread[t].func]
            \/ callout' = [callout EXCEPT ![i].timeout = thread[t].timeout]
  BY DEF first_store
<1>2. thread[t].pc = "search" /\ t \notin Waiting
  BY DEF first_store, At, Waiting
<1>3. Holds(t)
  BY <1>2 DEF Holds, Locked, Entered
<1>4. /\ thread'[t] = [thread[t] EXCEPT !.pc = "store", !.ix = i] /\ thread'[t].pc = "store"
      /\ \A u \in Thread \ {t} : thread'[u] = thread[u]
  BY <1>1, PcIxEffect DEF IInv, PC
<1>5. thread'[t].ix = i
  BY <1>4 DEF IInv, Types, Self
<1>6. \A j : ~BeingSet(j)
  BY <1>2, <1>3, HolderAlone DEF BeingSet
<1>7. \A j : BeingSet(j)' <=> j = i
  BY <1>4, <1>5, <1>6 DEF BeingSet
<1>8. \A j \in Index \ {i} : callout'[j] = callout[j]
  BY <1>1 DEF IInv, Types
<1>9. \A j \in Index : Registered(j)' <=> Registered(j)
  BY <1>1, <1>6, <1>7, <1>8 DEF Registered, Free
<1>10. ~Registered(i)
  BY <1>1 DEF Registered
<1>11. UNCHANGED entry
  <2> SUFFICES ASSUME NEW j \in Index PROVE entry'[j] = entry[j]
    BY DEF entry
  <2> QED BY <1>8, <1>9, <1>10 DEF entry
<1>12. UNCHANGED calling
  BY <1>2, <1>4 DEF calling, Thread
<1>13. ASSUME NEW u \in TSK PROVE ToClear(u)' = ToClear(u)
  <2>1. CASE u = t
    BY <1>2, <1>4, <2>1 DEF ToClear
  <2>2. CASE u # t
    <3>1. thread'[u] = thread[u] /\ thread[u].pc # "clear" /\ u \in Thread
      BY <1>3, <1>4, <2>2, HolderAlone DEF Thread
    <3>2. \A j \in 0 .. thread[u].ix : j \in Index
      BY <3>1 DEF IInv, Types, Self, Index, NetTimerAssumption
    <3> QED BY <1>8, <1>9, <1>10, <3>1, <3>2 DEF ToClear, Ticking
  <2> QED BY <2>1, <2>2
<1>14. UNCHANGED cancelling
  BY <1>13 DEF cancelling
<1> QED BY <1>11, <1>12, <1>14 DEF Service!vars

(* The second store registers the callout.                                 *)
LEMMA SecondStoreRegisters ==
    ASSUME NetTimerAssumption, IInv, IInv', NEW t \in Thread, second_store(t)
    PROVE  Service!Register(thread[t].ix, thread[t].func, thread[t].timeout)
<1> DEFINE new == [func |-> thread[t].func, timeout |-> thread[t].timeout]
<1>0. PICK p : p = thread[t].ix
  OBVIOUS
<1>1. /\ thread[t].pc = "store" /\ t \notin Waiting /\ return(t)
      /\ callout' = [callout EXCEPT ![p] = new] /\ UNCHANGED scan
  BY <1>0 DEF second_store, At, Waiting
<1>2. p \in Index /\ thread[t].func \in Function
  BY <1>0, <1>1 DEF IInv, Types, Self, ThreadOK
<1>3. Holds(t)
  BY <1>1 DEF Holds, Locked, Entered
<1>4. /\ thread'[t].pc \in {"run", "wait", "scan"}
      /\ \A u \in Thread \ {t} : thread'[u] = thread[u]
  BY <1>1, ReturnEffect
<1>5. \A j : BeingSet(j) <=> j = p
  BY <1>0, <1>1, <1>3, HolderAlone DEF BeingSet
<1>6. \A j : ~BeingSet(j)'
  BY <1>3, <1>4, HolderAlone DEF BeingSet
<1>7. callout'[p] = new /\ \A j \in Index \ {p} : callout'[j] = callout[j]
  BY <1>1, <1>2 DEF IInv, Types
<1>8. ~Registered(p) /\ Registered(p)' /\ \A j \in Index \ {p} : Registered(j)' <=> Registered(j)
  <2>1. new.func = thread[t].func /\ new.func # NULL
    BY <1>2 DEF Function, NetTimerAssumption
  <2>2. ~Registered(p)
    BY <1>5 DEF Registered
  <2>3. Registered(p)'
    BY <1>6, <1>7, <2>1 DEF Registered, Free
  <2>4. ASSUME NEW j \in Index \ {p} PROVE Registered(j)' <=> Registered(j)
    BY <1>5, <1>6, <1>7 DEF Registered, Free
  <2> QED BY <2>2, <2>3, <2>4
<1>9. entry[p] = Service!Empty
  BY <1>2, <1>8 DEF entry, Service!Empty
<1>10. entry' = [entry EXCEPT ![p] = [func |-> thread[t].func, left |-> thread[t].timeout]]
  <2>0. new.func = thread[t].func /\ new.timeout = thread[t].timeout
    OBVIOUS
  <2> HIDE DEF new
  <2>1. \A j \in Index : entry'[j] = IF j = p THEN [func |-> thread[t].func,
                                                    left |-> thread[t].timeout]
                                    ELSE entry[j]
    BY <1>7, <1>8, <2>0 DEF entry
  <2>2. DOMAIN entry = Index /\ DOMAIN entry' = Index
    BY DEF entry
  <2> QED BY <1>2, <2>1, <2>2 DEF entry
<1>11. UNCHANGED calling
  BY <1>1, <1>4 DEF calling, Thread
<1>12. cancelling' \in [TSK -> SUBSET Index]
  <2>1. ASSUME NEW c \in TSK PROVE ToClear(c)' \subseteq Index
    <3>1. thread'[c].ix \in Index
      BY DEF Thread, IInv, Types, Self
    <3>2. \A i \in 0 .. thread'[c].ix : i \in Index
      BY <3>1 DEF Index, NetTimerAssumption
    <3> QED BY <3>1, <3>2 DEF ToClear
  <2> QED BY <2>1 DEF cancelling
<1>13. ASSUME NEW c \in TSK PROVE ToClear(c)' \in {ToClear(c), ToClear(c) \cup {p}}
  <2>1. CASE c = t
    BY <1>1, <1>4, <2>1 DEF ToClear
  <2>2. CASE c # t
    <3>1. thread'[c] = thread[c] /\ thread[c].pc # "clear" /\ c \in Thread
      BY <1>3, <1>4, <2>2, HolderAlone DEF Thread
    <3>2. \A j \in 0 .. thread[c].ix : j \in Index
      BY <3>1 DEF IInv, Types, Self, Index, NetTimerAssumption
    <3>3. CASE thread[c].pc \notin {"untimeout", "compare"}
      BY <3>1, <3>3 DEF ToClear
    <3>4. CASE thread[c].pc \in {"untimeout", "compare"}
      <4>1. \A j \in Index \ {p} : j \in ToClear(c)' <=> j \in ToClear(c)
        BY <1>7, <1>8, <3>1, <3>4 DEF ToClear, Ticking
      <4>2. p \notin ToClear(c)
        BY <1>8, <3>4 DEF ToClear
      <4>3. ToClear(c) \subseteq Index /\ ToClear(c)' \subseteq Index
        BY <3>1, <3>2, <3>4 DEF ToClear
      <4> QED BY <4>1, <4>2, <4>3
    <3> QED BY <3>3, <3>4
  <2> QED BY <2>1, <2>2
<1>14. \A c \in TSK : cancelling'[c] \in {cancelling[c], cancelling[c] \cup {p}}
  BY <1>13 DEF cancelling
<1> QED BY <1>0, <1>9, <1>10, <1>11, <1>12, <1>14 DEF Service!Register

(* A comparison finds a callout, or goes on without being seen.            *)
LEMMA CompareFinds ==
    ASSUME NetTimerAssumption, IInv, NEW t \in Thread, compare(t)
    PROVE  UNCHANGED Service!vars \/ (t \in TSK /\ Service!Find(t, thread[t].ix))
<1> DEFINE self == thread[t]
<1>1. /\ self.pc = "compare" /\ t \notin Waiting /\ Holds(t)
      /\ UNCHANGED <<callout, scan>>
  BY DEF compare, At, Waiting, Holds, Locked, Entered
<1>2. self \in Self /\ self.ix \in Index /\ t \in TSK /\ self.func \in Function
  BY <1>1 DEF IInv, Types, Self, ThreadOK
<1>3. \A j : ~BeingSet(j)
  BY <1>1, HolderAlone DEF BeingSet
<1>4. CASE callout[self.ix].func = self.func /\ Ticking(self.ix)
  <2>1. thread' = [thread EXCEPT ![t].pc = "clear"]
    BY <1>4 DEF compare
  <2>2. /\ thread'[t] = [self EXCEPT !.pc = "clear"] /\ thread'[t].pc = "clear"
        /\ \A u \in Thread \ {t} : thread'[u] = thread[u]
    BY <2>1, PcEffect DEF PC, IInv
  <2>3. /\ UNCHANGED entry
        /\ \A u \in Thread \ {t} : ToClear(u)' = ToClear(u)
    BY <1>1, <2>2, RestSame
  <2>4. ToClear(t)' = {self.ix}
    BY <1>2, <2>2 DEF ToClear, Self
  <2>5. self.ix \in ToClear(t)
    BY <1>1, <1>2, <1>3, <1>4 DEF ToClear, Registered, Free, Ticking, Index
  <2>6. UNCHANGED calling
    BY <1>1, <2>2 DEF calling, Thread
  <2>7. cancelling' = [cancelling EXCEPT ![t] = {self.ix}]
    BY <2>3, <2>4 DEF cancelling, Thread
  <2>8. self.ix \in cancelling[t]
    BY <1>2, <2>5 DEF cancelling
  <2> QED BY <1>2, <2>3, <2>6, <2>7, <2>8 DEF Service!Find
<1>5. CASE /\ ~(callout[self.ix].func = self.func /\ Ticking(self.ix))
           /\ self.ix = 0
  <2>1. return(t)
    BY <1>5 DEF compare
  <2>2. /\ \A u \in Thread \ {t} : thread'[u] = thread[u]
        /\ thread'[t].pc \in {"run", "wait", "scan"}
    BY <1>1, <2>1, ReturnEffect
  <2>3. ToClear(t)' = {}
    BY <2>2 DEF ToClear
  <2>4. \A i \in 0 .. self.ix : i = self.ix
    BY <1>5
  <2>5. ToClear(t) = {}
    <3>1. ToClear(t) = {i \in 0 .. self.ix : Registered(i) /\ Ticking(i) /\ callout[i].func = self.func}
      BY <1>1, ToClearAt
    <3>2. ASSUME NEW i \in ToClear(t) PROVE FALSE
      <4>1. i = self.ix /\ Ticking(i) /\ callout[i].func = self.func
        BY <2>4, <3>1
      <4> QED BY <1>5, <4>1
    <3> QED BY <3>2
  <2> QED BY <1>1, <2>2, <2>3, <2>5, Stutter
<1>6. CASE /\ ~(callout[self.ix].func = self.func /\ Ticking(self.ix))
           /\ self.ix # 0
  <2>1. thread' = [thread EXCEPT ![t].pc = "untimeout", ![t].ix = self.ix - 1]
    BY <1>6 DEF compare
  <2>2. self.ix - 1 \in Index
    BY <1>2, <1>6 DEF Index, NetTimerAssumption
  <2>3. /\ thread'[t] = [self EXCEPT !.pc = "untimeout", !.ix = self.ix - 1]
        /\ thread'[t].pc = "untimeout"
        /\ \A u \in Thread \ {t} : thread'[u] = thread[u]
    BY <2>1, <2>2, PcIxEffect DEF PC, IInv
  <2>4. thread'[t].ix = self.ix - 1 /\ thread'[t].func = self.func
    BY <1>2, <2>3 DEF Self
  <2>5. \A i \in Index : Registered(i)' <=> Registered(i)
    BY <1>1, <2>3, RestSame
  <2>6. \A i : i \in 0 .. self.ix - 1 <=> i \in 0 .. self.ix /\ i # self.ix
    BY <1>2 DEF Index, NetTimerAssumption
  <2>7. \A i \in 0 .. self.ix : i \in Index
    BY <1>2 DEF Index, NetTimerAssumption
  <2>8. ToClear(t)' = ToClear(t)
    <3>1. ToClear(t) = {i \in 0 .. self.ix : Registered(i) /\ Ticking(i) /\ callout[i].func = self.func}
      BY <1>1, ToClearAt
    <3>2. ToClear(t)' = {i \in 0 .. self.ix - 1 : Registered(i)' /\ Ticking(i)'
                                                /\ callout'[i].func = self.func}
      BY <2>3, <2>4 DEF ToClear
    <3>3. \A i : Ticking(i)' <=> Ticking(i)
      BY <1>1 DEF Ticking
    <3>4. ~(callout[self.ix].func = self.func /\ Ticking(self.ix))
      BY <1>6
    <3> HIDE DEF self
    <3>5. ASSUME NEW i PROVE i \in ToClear(t)' <=> i \in ToClear(t)
      <4>1. i \in ToClear(t) <=> /\ i \in 0 .. self.ix /\ Registered(i) /\ Ticking(i)
                                 /\ callout[i].func = self.func
        BY <3>1
      <4>2. i \in ToClear(t)' <=> /\ i \in 0 .. self.ix - 1 /\ Registered(i)' /\ Ticking(i)'
                                  /\ callout'[i].func = self.func
        BY <3>2
      <4>3. CASE i = self.ix
        BY <2>6, <3>4, <4>1, <4>2, <4>3
      <4>4. CASE i # self.ix
        BY <1>1, <2>5, <2>6, <2>7, <3>3, <4>1, <4>2, <4>4
      <4> QED BY <4>3, <4>4
    <3> QED BY <3>5
  <2> QED BY <1>1, <2>3, <2>8, Stutter
<1> QED BY <1>4, <1>5, <1>6

(* The callout found is cancelled.                                         *)
LEMMA ClearCancels ==
    ASSUME NetTimerAssumption, IInv, NEW t \in Thread, clear(t)
    PROVE  t \in TSK /\ Service!Cancel(t, thread[t].ix)
<1>0. PICK p : p = thread[t].ix
  OBVIOUS
<1>1. /\ thread[t].pc = "clear" /\ t \notin Waiting /\ return(t)
      /\ callout' = [callout EXCEPT ![p].func = NULL] /\ UNCHANGED scan
  BY <1>0 DEF clear, At, Waiting
<1>2. p \in Index /\ t \in TSK
  BY <1>0, <1>1 DEF IInv, Types, Self, ThreadOK
<1>3. Holds(t)
  BY <1>1 DEF Holds, Locked, Entered
<1>4. /\ thread'[t].pc \in {"run", "wait", "scan"}
      /\ \A u \in Thread \ {t} : thread'[u] = thread[u]
  BY <1>1, ReturnEffect
<1>5. \A j : ~BeingSet(j) /\ ~BeingSet(j)'
  BY <1>1, <1>3, <1>4, HolderAlone DEF BeingSet
<1>6. callout'[p].func = NULL /\ \A j \in Index \ {p} : callout'[j] = callout[j]
  BY <1>1, <1>2 DEF IInv, Types, Entry
<1>7. ~Registered(p)' /\ \A j \in Index \ {p} : Registered(j)' <=> Registered(j)
  BY <1>5, <1>6 DEF Registered, Free
<1>8. entry' = [entry EXCEPT ![p] = Service!Empty]
  <2>1. \A j \in Index : entry'[j] = IF j = p THEN Service!Empty ELSE entry[j]
    BY <1>6, <1>7 DEF entry, Service!Empty
  <2>2. DOMAIN entry = Index /\ DOMAIN entry' = Index
    BY DEF entry
  <2> QED BY <1>2, <2>1, <2>2 DEF entry
<1>9. UNCHANGED calling
  BY <1>1, <1>4 DEF calling, Thread
<1>10. ASSUME NEW c \in TSK PROVE ToClear(c)' = ToClear(c) \ {p}
  <2>1. CASE c = t
    BY <1>0, <1>1, <1>4, <2>1 DEF ToClear
  <2>2. CASE c # t
    <3>1. thread'[c] = thread[c] /\ thread[c].pc # "clear" /\ c \in Thread
      BY <1>3, <1>4, <2>2, HolderAlone DEF Thread
    <3>2. \A j \in 0 .. thread[c].ix : j \in Index
      BY <3>1 DEF IInv, Types, Self, Index, NetTimerAssumption
    <3> QED BY <1>6, <1>7, <3>1, <3>2 DEF ToClear, Ticking
  <2> QED BY <2>1, <2>2
<1>11. cancelling' = Service!Forget(p)
  BY <1>10 DEF cancelling, Service!Forget
<1>12. cancelling[t] = {p}
  BY <1>0, <1>1, <1>2 DEF cancelling, ToClear
<1> QED BY <1>0, <1>2, <1>8, <1>9, <1>11, <1>12 DEF Service!Cancel

(* The function is taken and called, or the network timer task goes on.    *)
LEMMA LookCalls ==
    ASSUME NetTimerAssumption, IInv, look
    PROVE  UNCHANGED Service!vars \/ (scan \in Index /\ Service!Call(scan))
<1>0. PICK t \in Thread : t = NET_TIMER_TASK
  BY DEF Thread
<1>1. PICK p : p = scan
  OBVIOUS
<1>2. /\ thread[t].pc = "look" /\ t \notin Waiting /\ Holds(t) /\ UNCHANGED scan
  BY <1>0 DEF look, At, Waiting, Holds, Locked, Entered
<1>3. p \in Index
  BY <1>1, <1>2 DEF IInv, ThreadOK
<1>4. CASE callout[p].func # NULL /\ callout[p].timeout = 0
  <2>1. /\ callout' = [callout EXCEPT ![p].func = NULL]
        /\ thread' = [thread EXCEPT ![t] = [idle EXCEPT !.pc = "call",
                                                        !.func = callout[p].func]]
    BY <1>0, <1>1, <1>4 DEF look
  <2>2. /\ thread'[t].pc = "call" /\ thread'[t].func = callout[p].func
        /\ \A u \in Thread \ {t} : thread'[u] = thread[u]
    BY <2>1 DEF IInv, Types, idle
  <2>3. \A j : ~BeingSet(j) /\ ~BeingSet(j)'
    BY <1>2, <2>2, HolderAlone DEF BeingSet
  <2>4. callout'[p].func = NULL /\ \A j \in Index \ {p} : callout'[j] = callout[j]
    BY <1>3, <2>1 DEF IInv, Types, Entry
  <2>5. /\ Registered(p) /\ ~Registered(p)'
        /\ \A j \in Index \ {p} : Registered(j)' <=> Registered(j)
    BY <1>4, <2>3, <2>4 DEF Registered, Free
  <2>6. entry' = [entry EXCEPT ![p] = Service!Empty]
    <3>1. \A j \in Index : entry'[j] = IF j = p THEN Service!Empty ELSE entry[j]
      BY <2>4, <2>5 DEF entry, Service!Empty
    <3>2. DOMAIN entry = Index /\ DOMAIN entry' = Index
      BY DEF entry
    <3> QED BY <1>3, <3>1, <3>2 DEF entry
  <2>7. entry[p].func = callout[p].func /\ entry[p].left = callout[p].timeout
    BY <1>3, <2>5 DEF entry
  <2>8. calling = NULL /\ calling' = callout[p].func
    BY <1>0, <1>2, <2>2 DEF calling
  <2>9. ASSUME NEW c \in TSK PROVE ToClear(c)' = ToClear(c) \ {p}
    <3>1. thread'[c] = thread[c] /\ thread[c].pc # "clear" /\ c \in Thread
      BY <1>0, <1>2, <2>2, HolderAlone DEF Thread, NetTimerAssumption
    <3>2. \A j \in 0 .. thread[c].ix : j \in Index
      BY <3>1 DEF IInv, Types, Self, Index, NetTimerAssumption
    <3> QED BY <2>4, <2>5, <3>1, <3>2 DEF ToClear, Ticking
  <2>10. cancelling' = Service!Forget(p)
    BY <2>9 DEF cancelling, Service!Forget
  <2> QED BY <1>1, <1>3, <1>4, <2>6, <2>7, <2>8, <2>10 DEF Service!Call
<1>5. CASE ~(callout[p].func # NULL /\ callout[p].timeout = 0)
  <2>1. return(t) /\ UNCHANGED callout
    BY <1>0, <1>1, <1>5 DEF look
  <2>2. /\ \A u \in Thread \ {t} : thread'[u] = thread[u]
        /\ thread'[t].pc \in {"run", "wait", "scan"}
    BY <1>2, <2>1, ReturnEffect
  <2>3. ToClear(t)' = {} /\ ToClear(t) = {}
    BY <1>2, <2>2 DEF ToClear
  <2> QED BY <1>2, <2>1, <2>2, <2>3, Stutter
<1> QED BY <1>4, <1>5

(* The other steps of the network timer task.                              *)
LEMMA TimerStepReturns ==
    ASSUME NetTimerAssumption, IInv, wai_sem_timeout \/ scan_wai_sem \/ call
    PROVE  UNCHANGED Service!vars \/ Service!Return
<1>0. PICK t \in Thread : t = NET_TIMER_TASK
  BY DEF Thread
<1>1. CASE wai_sem_timeout \/ scan_wai_sem
  <2>1. PICK pc \in {"scan", "look"} : /\ thread' = [thread EXCEPT ![t].pc = pc]
                                      /\ thread[t].pc \in {"wait", "scan"}
                                      /\ UNCHANGED callout
    BY <1>0, <1>1 DEF wai_sem_timeout, scan_wai_sem, lock, At
  <2>2. /\ \A u \in Thread \ {t} : thread'[u] = thread[u]
        /\ thread'[t].pc = pc
    BY <2>1, PcEffect DEF PC, IInv
  <2>3. ToClear(t)' = {} /\ ToClear(t) = {}
    BY <2>1, <2>2 DEF ToClear
  <2> QED BY <2>1, <2>2, <2>3, Stutter
<1>2. CASE call
  <2>1. thread[t].pc = "call" /\ UNCHANGED <<callout, scan>>
    BY <1>0, <1>2 DEF call, At
  <2>2. /\ \A u \in Thread \ {t} : thread'[u] = thread[u]
        /\ thread'[t].pc \in {"run", "wait", "scan", "timeout"}
    <3>1. CASE thread[t].func = if_slowtimo
      <4>1. thread' = [thread EXCEPT ![t].pc = "timeout", ![t].timeout = IF_TIMER_TMO]
        BY <1>0, <1>2, <3>1 DEF call
      <4> QED BY <4>1 DEF IInv, Types, Self
    <3>2. CASE thread[t].func # if_slowtimo
      BY <1>0, <1>2, <2>1, <3>2, ReturnEffect DEF call
    <3> QED BY <3>1, <3>2
  <2>3. UNCHANGED entry /\ \A u \in Thread \ {t} : ToClear(u)' = ToClear(u)
    BY <2>1, <2>2, RestSame
  <2>4. UNCHANGED cancelling
    BY <1>0, <2>3 DEF cancelling, Thread, NetTimerAssumption
  <2>5. thread[t].func # NULL
    BY <2>1 DEF IInv, ThreadOK, Function, NetTimerAssumption
  <2>6. calling # NULL /\ calling' = NULL
    BY <1>0, <2>1, <2>2, <2>5 DEF calling
  <2> QED BY <2>3, <2>4, <2>6 DEF Service!Return
<1> QED BY <1>1, <1>2

(* The handler lets time pass.                                             *)
LEMMA HandlerTicks ==
    ASSUME NetTimerAssumption, IInv, net_timer_handler
    PROVE  Service!Tick
<1>1. thread' = thread
  BY DEF net_timer_handler
<1>2. ASSUME NEW i \in Index
      PROVE  /\ callout[i] \in Entry
             /\ callout'[i] = IF Ticking(i) THEN [callout[i] EXCEPT !.timeout = callout[i].timeout - 1]
                              ELSE callout[i]
             /\ callout'[i].func = callout[i].func
             /\ callout'[i].timeout = IF Ticking(i) THEN callout[i].timeout - 1
                                      ELSE callout[i].timeout
  BY DEF net_timer_handler, IInv, Types, Entry
<1>3. \A i \in Index : Registered(i)' <=> Registered(i)
  BY <1>1, <1>2 DEF Registered, BeingSet, Free
<1>4. \A i \in Index : Service!Pending(i) <=> Registered(i) /\ Ticking(i)
  BY DEF Service!Pending, entry, Ticking, Registered, Free
<1>5. ASSUME NEW i \in Index
      PROVE  entry'[i] = IF Service!Pending(i) THEN [entry[i] EXCEPT !.left = entry[i].left - 1]
                         ELSE entry[i]
  <2>1. CASE Registered(i)
    <3>1. entry[i] = [func |-> callout[i].func, left |-> callout[i].timeout]
      BY <2>1 DEF entry
    <3>2. entry'[i] = [func |-> callout[i].func, left |-> callout'[i].timeout]
      BY <1>2, <1>3, <2>1 DEF entry
    <3>3a. callout'[i].timeout = IF Ticking(i) THEN callout[i].timeout - 1
                                 ELSE callout[i].timeout
      BY <1>2
    <3>3. entry[i].left = callout[i].timeout
      BY <3>1
    <3>4. ASSUME NEW f, NEW k, NEW l
          PROVE  [[func |-> f, left |-> k] EXCEPT !.left = l] = [func |-> f, left |-> l]
      OBVIOUS
    <3> QED BY <1>4, <2>1, <3>1, <3>2, <3>3, <3>3a, <3>4
  <2>2. CASE ~Registered(i)
    BY <1>3, <1>4, <2>2 DEF entry
  <2> QED BY <2>1, <2>2
<1>6. entry' = [p \in Index |-> IF Service!Pending(p) THEN [entry[p] EXCEPT !.left = entry[p].left - 1]
                                ELSE entry[p]]
  <2>1. entry' = [p \in Index |-> entry'[p]]
    BY DEF entry
  <2> QED BY <1>5, <2>1
<1>7. ASSUME NEW c \in TSK
      PROVE  /\ ToClear(c)' \subseteq ToClear(c) /\ ToClear(c) \subseteq Index
             /\ \A p \in ToClear(c) \ ToClear(c)' : entry'[p].left = 0
  <2>1. thread'[c] = thread[c] /\ ToClear(c) \subseteq Index
    BY <1>1, ToClearInIndex DEF Thread
  <2>2. CASE thread[c].pc \notin {"untimeout", "compare"}
    BY <2>1, <2>2 DEF ToClear
  <2>3. CASE thread[c].pc \in {"untimeout", "compare"}
    <3>1. ToClear(c) = {i \in 0 .. thread[c].ix : /\ Registered(i) /\ Ticking(i)
                                                  /\ callout[i].func = thread[c].func}
      BY <2>3, ToClearAt
    <3>2. ToClear(c)' = {i \in 0 .. thread[c].ix : /\ Registered(i)' /\ Ticking(i)'
                                                   /\ callout'[i].func = thread[c].func}
      BY <2>1, <2>3 DEF ToClear
    <3>3. \A i \in 0 .. thread[c].ix : i \in Index
      BY DEF Thread, IInv, Types, Self, Index, NetTimerAssumption
    <3>4. ASSUME NEW i \in Index
          PROVE  /\ Ticking(i)' => Ticking(i)
                 /\ Ticking(i) /\ ~Ticking(i)' => callout'[i].timeout = 0
      <4>1. callout[i].timeout \in Nat
        BY <1>2 DEF Entry
      <4>2. /\ callout'[i].func = callout[i].func
            /\ callout'[i].timeout = IF Ticking(i) THEN callout[i].timeout - 1
                                     ELSE callout[i].timeout
        BY <1>2
      <4> QED BY <4>1, <4>2 DEF Ticking
    <3>6. \A i \in Index : Registered(i) => entry'[i].left = callout'[i].timeout
      BY <1>3 DEF entry
    <3>7. \A i \in ToClear(c)' : i \in ToClear(c)
      BY <1>2, <1>3, <3>1, <3>2, <3>3, <3>4
    <3>8. \A i \in ToClear(c) \ ToClear(c)' : entry'[i].left = 0
      BY <1>2, <1>3, <3>1, <3>2, <3>3, <3>4, <3>6
    <3> QED BY <2>1, <3>7, <3>8
  <2> QED BY <2>2, <2>3
<1>8. /\ cancelling' \in [TSK -> SUBSET Index]
      /\ \A c \in TSK : cancelling[c] = ToClear(c) /\ cancelling'[c] = ToClear(c)'
  BY <1>7 DEF cancelling
<1>9. UNCHANGED calling
  BY <1>1 DEF calling
<1> QED BY <1>6, <1>7, <1>8, <1>9 DEF Service!Tick

-----------------------------------------------------------------------------

LEMMA InitMaps ==
    ASSUME NetTimerAssumption, Init PROVE Service!Init
<1>1. \A t \in Thread : thread[t].pc \in {"run", "timeout"}
  BY DEF Init, idle
<1>2. \A i \in Index : ~Registered(i)
  BY DEF Init, Registered, Free
<1>3. entry = [i \in Index |-> Service!Empty]
  BY <1>2 DEF entry, Service!Empty
<1>4. calling = NULL
  BY <1>1 DEF calling, Thread
<1>5. \A t \in TSK : thread[t] = idle
  BY DEF Init, Thread, NetTimerAssumption
<1>6. cancelling = [t \in TSK |-> {}]
  BY <1>5 DEF cancelling, ToClear, idle
<1> QED BY <1>3, <1>4, <1>6 DEF Service!Init

LEMMA StepMaps ==
    ASSUME NetTimerAssumption, IInv, IInv', [Next]_vars
    PROVE  [Service!Next]_(Service!vars)
<1> USE DEF Service!Next
<1>1. CASE UNCHANGED vars
  BY <1>1 DEF vars, Service!vars, entry, calling, cancelling, ToClear, Registered, BeingSet,
     Ticking, Free
<1>2. CASE \E t \in TSK, func \in CALLOUT, ticks \in TIMEOUT : timeout(t, func, ticks)
  BY <1>2, CallStutters
<1>3. CASE \E t \in TSK, func \in CALLOUT : untimeout(t, func)
  BY <1>3, UntimeoutStarts
<1>4. ASSUME NEW t \in Thread, ThreadStep(t) PROVE [Service!Next]_(Service!vars)
  <2>1. thread[t].ix \in Index
    BY DEF IInv, Types, Self
  <2>2. CASE timeout_wai_sem(t) \/ untimeout_wai_sem(t)
    BY <2>2, EnterStutters
  <2>3. CASE callout_busy(t)
    BY <2>3, BusyStutters
  <2>4. CASE first_store(t)
    BY <2>4, FirstStoreStutters
  <2>5. CASE second_store(t)
    <3>1. thread[t].func \in Function /\ thread[t].timeout \in Ticks
      BY <2>5 DEF second_store, At, IInv, ThreadOK
    <3> QED BY <2>1, <2>5, <3>1, SecondStoreRegisters DEF Function, Ticks
  <2>6. CASE compare(t)
    BY <2>1, <2>6, CompareFinds
  <2>7. CASE clear(t)
    BY <2>1, <2>7, ClearCancels
  <2> QED BY <1>4, <2>2, <2>3, <2>4, <2>5, <2>6, <2>7 DEF ThreadStep
<1>5. CASE TimerStep
  BY <1>5, LookCalls, TimerStepReturns DEF TimerStep
<1>6. CASE net_timer_handler
  BY <1>6, HandlerTicks
<1> QED BY <1>1, <1>2, <1>3, <1>4, <1>5, <1>6 DEF Next

(* The callouts of TINET implement the callout service: no function is     *)
(* called early, twice, or after it has been cancelled in time             *)
(* (net_timer.c: timeout, untimeout, net_timer_handler, net_timer_task).   *)
THEOREM CalloutsImplementService == Spec => ImplementsCalloutService
<1>0. NetTimerAssumption
  BY NetTimerAssumption
<1>1. Init => IInv
  BY <1>0, InitOK
<1>2. IInv /\ [Next]_vars => IInv'
  BY <1>0, StepOK
<1>3. Init => Service!Init
  BY <1>0, InitMaps
<1>4. IInv /\ IInv' /\ [Next]_vars => [Service!Next]_(Service!vars)
  BY <1>0, StepMaps
<1> QED BY <1>1, <1>2, <1>3, <1>4, PTL DEF Spec, ImplementsCalloutService, Service!Spec

=============================================================================
