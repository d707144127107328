------------------------------ MODULE TaskSync ------------------------------
(***************************************************************************)
(* Task-dependent synchronization calls: kernel/task_sync.c.               *)
(* A timeout is "TMO_FEVR" or "finite": polling (TMO_POL) never waits and  *)
(* differs from slp_tsk only in consuming a queued wakeup.                 *)
(***************************************************************************)
EXTENDS KernelState

TMO == {"TMO_FEVR", "finite"}

consume_wupque == [Cur EXCEPT !.tcb[p_runtsk].wupque = FALSE]

(* Faulty variant: waits although the task is requested to terminate.      *)
slp_tsk_ignores_raster ==
    /\ Dispatchable("slp_tsk")
    /\ Become(IF tcb[p_runtsk].wupque THEN consume_wupque
              ELSE dispatch(make_wait(Cur, TS_WAITING_SLP)))
    /\ UnchangedContext

slp_tsk ==
    /\ Dispatchable("slp_tsk")
    /\ ~tcb[p_runtsk].raster
    /\ Become(IF tcb[p_runtsk].wupque THEN consume_wupque
              ELSE dispatch(make_wait(Cur, TS_WAITING_SLP)))
    /\ UnchangedContext

tslp_tsk(tmout) ==
    /\ Dispatchable("tslp_tsk")
    /\ ~tcb[p_runtsk].raster
    /\ Become(IF tcb[p_runtsk].wupque THEN consume_wupque
              ELSE dispatch(make_wait_tmout(Cur, TS_WAITING_SLP, tmout)))
    /\ UnchangedContext

wup_tsk(t) ==
    /\ Unl("wup_tsk")
    /\ TaskExists(t)
    /\ ~TSTAT_DORMANT(tcb[t].tstat)
    /\ \/ /\ TSTAT_WAIT_SLP(tcb[t].tstat)
          /\ Become(dispatch_or_request(wait_complete(Cur, t)))
       \/ /\ ~TSTAT_WAIT_SLP(tcb[t].tstat)
          /\ ~tcb[t].wupque
          /\ Become([Cur EXCEPT !.tcb[t].wupque = TRUE])
    /\ UnchangedContext

can_wup(t) ==
    /\ TskCtxUnl("can_wup")
    /\ TaskExists(t)
    /\ ~TSTAT_DORMANT(tcb[t].tstat)
    /\ Become([Cur EXCEPT !.tcb[t].wupque = FALSE])
    /\ UnchangedContext

rel_wai(t) ==
    LET dequeued == wait_dequeue_tmevtb(wait_dequeue_wobj(Cur, t), t)
    IN  /\ Unl("rel_wai")
        /\ TaskExists(t)
        /\ TSTAT_WAITING(tcb[t].tstat)
        /\ Become(dispatch_or_request(
                    make_non_wait(set_wercd(dequeued, t, "E_RLWAI"), t)))
        /\ UnchangedContext

sus_tsk(t) ==
    LET suspended == [Cur EXCEPT !.tcb[t].tstat = TS_SUSPENDED]
    IN  /\ TskCtxUnl("sus_tsk")
        /\ ~(t = p_runtsk /\ ~dspflg)
        /\ TaskExists(t)
        /\ ~TSTAT_DORMANT(tcb[t].tstat)
        /\ ~tcb[t].raster
        /\ \/ /\ TSTAT_RUNNABLE(tcb[t].tstat)
              /\ Become(dispatch(make_non_runnable(suspended, t)))
           \/ /\ ~TSTAT_RUNNABLE(tcb[t].tstat)
              /\ ~TSTAT_SUSPENDED(tcb[t].tstat)
              /\ Become([Cur EXCEPT !.tcb[t].tstat = @ \cup TS_SUSPENDED])
        /\ UnchangedContext

rsm_tsk(t) ==
    /\ TskCtxUnl("rsm_tsk")
    /\ TaskExists(t)
    /\ TSTAT_SUSPENDED(tcb[t].tstat)
    /\ Become(IF TSTAT_WAITING(tcb[t].tstat)
              THEN [Cur EXCEPT !.tcb[t].tstat = @ \ TS_SUSPENDED]
              ELSE dispatch(make_runnable(
                       [Cur EXCEPT !.tcb[t].tstat = TS_RUNNABLE], t)))
    /\ UnchangedContext

dly_tsk ==
    LET t == p_runtsk
        s == make_wait(Cur, TS_WAITING_DLY)
    IN  /\ Dispatchable("dly_tsk")
        /\ ~tcb[t].raster
        /\ Become(dispatch([s EXCEPT !.tcb[t].winfo = "tmevtb",
                                     !.tmevtb[t] = "wait_tmout_ok"]))
        /\ UnchangedContext

=============================================================================
