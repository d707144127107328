------------------------------ MODULE NetTimer ------------------------------
(***************************************************************************)
(* The callouts of TINET (tinet/net/net_timer.c): a table of functions to  *)
(* call after a number of ticks, which tasks fill and clear, a cyclic      *)
(* handler counts down, and the network timer task empties.                *)
(*                                                                         *)
(* A lock keeps the tasks apart, not the handler, which comes in between   *)
(* any two steps of a task.  All tasks of TINET have one priority, so the  *)
(* semaphores serve them in order.                                         *)
(***************************************************************************)
EXTENDS Integers, SequencesExt

CONSTANTS
    TSK,             \* the tasks that use callouts
    NET_TIMER_TASK,
    CALLOUT,         \* functions with their arguments
    if_slowtimo,     \* the function that registers itself again
    TIMEOUT,         \* the numbers of ticks that tasks ask for
    IF_TIMER_TMO,    \* the number if_slowtimo asks for
    NUM_NET_CALLOUT,
    NULL

ASSUME NetTimerAssumption ==
    /\ NET_TIMER_TASK \notin TSK
    /\ if_slowtimo \notin CALLOUT /\ NULL \notin CALLOUT \cup {if_slowtimo}
    /\ TIMEOUT \subseteq Nat \ {0} /\ IF_TIMER_TMO \in Nat \ {0}
    /\ NUM_NET_CALLOUT \in Nat \ {0}

VARIABLES
    callout,
    SEM_CALL_OUT_LOCK,     \* semcnt and wait_queue
    SEM_CALL_OUT_TIMEOUT,  \* its count; the network timer task waits for it
    thread,                \* where each task is in timeout or untimeout
    scan                   \* the index ix of net_timer_task

vars == <<callout, SEM_CALL_OUT_LOCK, SEM_CALL_OUT_TIMEOUT, thread, scan>>

Index  == 0 .. NUM_NET_CALLOUT - 1
Thread == TSK \cup {NET_TIMER_TASK}

-----------------------------------------------------------------------------

idle == [pc |-> "run", func |-> NULL, timeout |-> 0, ix |-> 0]

(* The Ethernet input task registers if_slowtimo (ifinit) before it        *)
(* activates the network timer task.  Here the timer task, which does not  *)
(* look at the table before, makes that call in its place.                 *)
Init ==
    /\ callout = [i \in Index |-> [func |-> NULL, timeout |-> 0]]
    /\ SEM_CALL_OUT_LOCK = [semcnt |-> 1, wait_queue |-> <<>>]
    /\ SEM_CALL_OUT_TIMEOUT = 0
    /\ thread = [t \in Thread |->
                    IF t = NET_TIMER_TASK
                    THEN [pc |-> "timeout", func |-> if_slowtimo,
                          timeout |-> IF_TIMER_TMO, ix |-> 0]
                    ELSE idle]
    /\ scan = 0

At(t, pc) ==
    /\ thread[t].pc = pc
    /\ t \notin ToSet(SEM_CALL_OUT_LOCK.wait_queue)

(* wai_sem(SEM_CALL_OUT_LOCK): t goes on to pc once it has the lock.       *)
lock(t, pc) ==
    /\ SEM_CALL_OUT_LOCK' =
          IF SEM_CALL_OUT_LOCK.semcnt = 1 THEN [SEM_CALL_OUT_LOCK EXCEPT !.semcnt = 0]
          ELSE [SEM_CALL_OUT_LOCK EXCEPT !.wait_queue = Append(@, t)]
    /\ thread' = [thread EXCEPT ![t].pc = pc]

(* sig_sem(SEM_CALL_OUT_LOCK).                                             *)
unlock ==
    SEM_CALL_OUT_LOCK' =
       IF SEM_CALL_OUT_LOCK.wait_queue = <<>> THEN [SEM_CALL_OUT_LOCK EXCEPT !.semcnt = 1]
       ELSE [SEM_CALL_OUT_LOCK EXCEPT !.wait_queue = Tail(@)]

(* The network timer task goes on with the next entry, or waits.           *)
next_entry ==
    IF scan = 0 THEN [idle EXCEPT !.pc = "wait"] ELSE [idle EXCEPT !.pc = "scan"]

(* The end of timeout and of untimeout, in a task or in a function the     *)
(* network timer task has called.                                          *)
return(t) == thread' = [thread EXCEPT ![t] = IF t = NET_TIMER_TASK THEN next_entry ELSE idle]

-----------------------------------------------------------------------------
(* timeout.                                                                *)

timeout(t, func, ticks) ==
    /\ At(t, "run")
    /\ thread' = [thread EXCEPT ![t] = [pc |-> "timeout", func |-> func,
                                        timeout |-> ticks, ix |-> 0]]
    /\ UNCHANGED <<callout, SEM_CALL_OUT_LOCK, SEM_CALL_OUT_TIMEOUT, scan>>

timeout_wai_sem(t) ==
    /\ At(t, "timeout")
    /\ lock(t, "search")
    /\ UNCHANGED <<callout, SEM_CALL_OUT_TIMEOUT, scan>>

Free(i) == callout[i].func = NULL

(* Nothing is said to the caller if the table is full.                     *)
callout_busy(t) ==
    /\ At(t, "search")
    /\ \A i \in Index : ~Free(i)
    /\ unlock
    /\ return(t)
    /\ UNCHANGED <<callout, SEM_CALL_OUT_TIMEOUT, scan>>

(* Faulty variant: the lock is given back when the entry has been found.   *)
first_store_unlocks(t) ==
    /\ At(t, "search")
    /\ \E i \in Index :
          /\ Free(i) /\ \A j \in Index : j > i => ~Free(j)
          /\ thread' = [thread EXCEPT ![t].pc = "store", ![t].ix = i]
          /\ \/ callout' = [callout EXCEPT ![i].func = thread[t].func]
             \/ callout' = [callout EXCEPT ![i].timeout = thread[t].timeout]
    /\ unlock
    /\ UNCHANGED <<SEM_CALL_OUT_TIMEOUT, scan>>

(* The search is not disturbed by the handler, the stores are: it may see  *)
(* the first of them only, and the compiler chooses which one that is.     *)
first_store(t) ==
    /\ At(t, "search")
    /\ \E i \in Index :
          /\ Free(i) /\ \A j \in Index : j > i => ~Free(j)
          /\ thread' = [thread EXCEPT ![t].pc = "store", ![t].ix = i]
          /\ \/ callout' = [callout EXCEPT ![i].func = thread[t].func]
             \/ callout' = [callout EXCEPT ![i].timeout = thread[t].timeout]
    /\ UNCHANGED <<SEM_CALL_OUT_LOCK, SEM_CALL_OUT_TIMEOUT, scan>>

second_store(t) ==
    /\ At(t, "store")
    /\ callout' = [callout EXCEPT ![thread[t].ix] = [func    |-> thread[t].func,
                                                     timeout |-> thread[t].timeout]]
    /\ unlock
    /\ return(t)
    /\ UNCHANGED <<SEM_CALL_OUT_TIMEOUT, scan>>

-----------------------------------------------------------------------------
(* untimeout.                                                              *)

untimeout(t, func) ==
    /\ At(t, "run")
    /\ thread' = [thread EXCEPT ![t] = [pc |-> "untimeout", func |-> func,
                                        timeout |-> 0, ix |-> NUM_NET_CALLOUT - 1]]
    /\ UNCHANGED <<callout, SEM_CALL_OUT_LOCK, SEM_CALL_OUT_TIMEOUT, scan>>

untimeout_wai_sem(t) ==
    /\ At(t, "untimeout")
    /\ lock(t, "compare")
    /\ UNCHANGED <<callout, SEM_CALL_OUT_TIMEOUT, scan>>

Ticking(i) == callout[i].func # NULL /\ callout[i].timeout > 0

(* The comparison; the handler may come before the entry is cleared.       *)
compare(t) ==
    LET self  == thread[t]
        found == callout[self.ix].func = self.func /\ Ticking(self.ix)
    IN  /\ At(t, "compare")
        /\ IF found THEN /\ thread' = [thread EXCEPT ![t].pc = "clear"]
                         /\ UNCHANGED SEM_CALL_OUT_LOCK
           ELSE /\ unlock
                /\ IF self.ix = 0 THEN return(t)
                   ELSE thread' = [thread EXCEPT ![t].pc = "untimeout", ![t].ix = @ - 1]
        /\ UNCHANGED <<callout, SEM_CALL_OUT_TIMEOUT, scan>>

clear(t) ==
    /\ At(t, "clear")
    /\ callout' = [callout EXCEPT ![thread[t].ix].func = NULL]
    /\ unlock
    /\ return(t)
    /\ UNCHANGED <<SEM_CALL_OUT_TIMEOUT, scan>>

-----------------------------------------------------------------------------
(* net_timer_task.                                                         *)

(* Faulty variant: the scan begins below the last entry.                   *)
wai_sem_timeout_skips_last ==
    /\ At(NET_TIMER_TASK, "wait")
    /\ SEM_CALL_OUT_TIMEOUT > 0
    /\ SEM_CALL_OUT_TIMEOUT' = SEM_CALL_OUT_TIMEOUT - 1
    /\ thread' = [thread EXCEPT ![NET_TIMER_TASK].pc = "scan"]
    /\ scan' = NUM_NET_CALLOUT - 1
    /\ UNCHANGED <<callout, SEM_CALL_OUT_LOCK>>

(* wai_sem(SEM_CALL_OUT_TIMEOUT).                                          *)
wai_sem_timeout ==
    /\ At(NET_TIMER_TASK, "wait")
    /\ SEM_CALL_OUT_TIMEOUT > 0
    /\ SEM_CALL_OUT_TIMEOUT' = SEM_CALL_OUT_TIMEOUT - 1
    /\ thread' = [thread EXCEPT ![NET_TIMER_TASK].pc = "scan"]
    /\ scan' = NUM_NET_CALLOUT
    /\ UNCHANGED <<callout, SEM_CALL_OUT_LOCK>>

scan_wai_sem ==
    /\ At(NET_TIMER_TASK, "scan")
    /\ scan' = scan - 1
    /\ lock(NET_TIMER_TASK, "look")
    /\ UNCHANGED <<callout, SEM_CALL_OUT_TIMEOUT>>

look ==
    LET entry == callout[scan]
    IN  /\ At(NET_TIMER_TASK, "look")
        /\ unlock
        /\ IF entry.func # NULL /\ entry.timeout = 0
           THEN /\ callout' = [callout EXCEPT ![scan].func = NULL]
                /\ thread' = [thread EXCEPT ![NET_TIMER_TASK] =
                                 [idle EXCEPT !.pc = "call", !.func = entry.func]]
           ELSE return(NET_TIMER_TASK) /\ UNCHANGED callout
        /\ UNCHANGED <<SEM_CALL_OUT_TIMEOUT, scan>>

(* (func)(arg): if_slowtimo calls timeout.                                 *)
call ==
    LET func == thread[NET_TIMER_TASK].func
    IN  /\ At(NET_TIMER_TASK, "call")
        /\ IF func = if_slowtimo
           THEN thread' = [thread EXCEPT ![NET_TIMER_TASK].pc = "timeout",
                                         ![NET_TIMER_TASK].timeout = IF_TIMER_TMO]
           ELSE return(NET_TIMER_TASK)
        /\ UNCHANGED <<callout, SEM_CALL_OUT_LOCK, SEM_CALL_OUT_TIMEOUT, scan>>

-----------------------------------------------------------------------------

(* isig_sem is refused when the count is at its maximum.                   *)
net_timer_handler ==
    /\ callout' = [i \in Index |->
                      IF Ticking(i) THEN [callout[i] EXCEPT !.timeout = @ - 1]
                      ELSE callout[i]]
    /\ SEM_CALL_OUT_TIMEOUT' =
          IF /\ \E i \in Index : Ticking(i) /\ callout[i].timeout = 1
             /\ SEM_CALL_OUT_TIMEOUT < NUM_NET_CALLOUT
          THEN SEM_CALL_OUT_TIMEOUT + 1 ELSE SEM_CALL_OUT_TIMEOUT
    /\ UNCHANGED <<SEM_CALL_OUT_LOCK, thread, scan>>

(* What a task does once it is inside timeout or untimeout.                *)
ThreadStep(t) ==
    \/ timeout_wai_sem(t) \/ callout_busy(t) \/ first_store(t) \/ second_store(t)
    \/ untimeout_wai_sem(t) \/ compare(t) \/ clear(t)

TimerStep == wai_sem_timeout \/ scan_wai_sem \/ look \/ call

Next ==
    \/ \E t \in TSK, func \in CALLOUT, ticks \in TIMEOUT : timeout(t, func, ticks)
    \/ \E t \in TSK, func \in CALLOUT : untimeout(t, func)
    \/ \E t \in Thread : ThreadStep(t)
    \/ TimerStep
    \/ net_timer_handler

Spec == Init /\ [][Next]_vars

(* The handler is called in every cycle and no task stops on its way.      *)
FairSpec ==
    /\ Spec
    /\ WF_vars(net_timer_handler)
    /\ WF_vars(TimerStep)
    /\ \A t \in Thread : WF_vars(ThreadStep(t))

=============================================================================
