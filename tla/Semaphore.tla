------------------------------ MODULE Semaphore ------------------------------
(***************************************************************************)
(* Semaphore calls: kernel/semaphore.c.  (ref_sem only reads.)             *)
(***************************************************************************)
EXTENDS KernelState

acre_sem(sematr, isemcnt, maxsem) ==
    LET w == Head(free_cb["SEM"])
    IN  /\ CanCreate("acre_sem", "SEM")
        /\ isemcnt <= maxsem
        /\ maxsem >= 1
        /\ Become([create_wobj("SEM", sematr) EXCEPT
                     !.sem[w] = [semcnt  |-> isemcnt,
                                 isemcnt |-> isemcnt,
                                 maxsem  |-> maxsem]])
        /\ UnchangedContext

del_sem(w) ==
    /\ CanDelete("del_sem", "SEM", w)
    /\ Become(dispatch(delete_wobj("SEM", w)))
    /\ UnchangedContext

(* Faulty variants: the resource is counted as well as handed to the task  *)
(* that waits for it; the last task of the queue gets it.                  *)
sig_sem_counts_twice(w) ==
    LET q     == wobj[w].wait_queue
        taken == [Cur EXCEPT !.wobj[w].wait_queue = Tail(q)]
    IN  /\ Unl("sig_sem")
        /\ ObjectExists(w)
        /\ sem[w].semcnt < sem[w].maxsem
        /\ LET s == IF q = <<>> THEN Cur
                    ELSE dispatch_or_request(wait_complete(taken, Head(q)))
            IN  Become([s EXCEPT !.sem[w].semcnt = @ + 1])
        /\ UnchangedContext

sig_sem_wakes_last(w) ==
    LET q     == wobj[w].wait_queue
        taken == [Cur EXCEPT !.wobj[w].wait_queue = Front(q)]
    IN  /\ Unl("sig_sem")
        /\ ObjectExists(w)
        /\ \/ /\ q # <<>>
              /\ Become(dispatch_or_request(wait_complete(taken, Last(q))))
           \/ /\ q = <<>>
              /\ sem[w].semcnt < sem[w].maxsem
              /\ Become([Cur EXCEPT !.sem[w].semcnt = @ + 1])
        /\ UnchangedContext

sig_sem(w) ==
    LET q     == wobj[w].wait_queue
        taken == [Cur EXCEPT !.wobj[w].wait_queue = Tail(q)]
    IN  /\ Unl("sig_sem")
        /\ ObjectExists(w)
        /\ \/ /\ q # <<>>
              /\ Become(dispatch_or_request(wait_complete(taken, Head(q))))
           \/ /\ q = <<>>
              /\ sem[w].semcnt < sem[w].maxsem
              /\ Become([Cur EXCEPT !.sem[w].semcnt = @ + 1])
        /\ UnchangedContext

Acquire(w) ==
    /\ sem[w].semcnt >= 1
    /\ Become([Cur EXCEPT !.sem[w].semcnt = @ - 1])

wai_sem(w) ==
    /\ MayWait("wai_sem", w)
    /\ \/ Acquire(w)
       \/ /\ sem[w].semcnt = 0
          /\ Become(dispatch(wobj_make_wait(Cur, TS_WAITING_SEM, w)))
    /\ UnchangedContext

pol_sem(w) ==
    /\ TskCtxUnl("pol_sem")
    /\ ObjectExists(w)
    /\ Acquire(w)
    /\ UnchangedContext

twai_sem(w) ==
    /\ MayWait("twai_sem", w)
    /\ \/ Acquire(w)
       \/ /\ sem[w].semcnt = 0
          /\ Become(dispatch(
                      wobj_make_wait_tmout(Cur, TS_WAITING_SEM, w, "finite")))
    /\ UnchangedContext

ini_sem(w) ==
    LET drained == init_wait_queue(Cur, w, "wait_queue")
    IN  /\ TskCtxUnl("ini_sem")
        /\ ObjectExists(w)
        /\ Become(dispatch([drained EXCEPT !.sem[w].semcnt = sem[w].isemcnt]))
        /\ UnchangedContext

=============================================================================
