------------------------------ MODULE TaskTerm ------------------------------
(***************************************************************************)
(* Task termination calls: kernel/task_term.c.                             *)
(***************************************************************************)
EXTENDS KernelState

(* The only call that is accepted with the CPU locked and with dispatching *)
(* disabled: it ends both.                                                 *)
ext_tsk ==
    LET enabled == [Cur EXCEPT !.enadsp = TRUE, !.ipm = FALSE, !.dspflg = TRUE,
                               !.p_schedtsk = search_schedtsk(Cur)]
        s       == IF ~enadsp \/ ipm THEN enabled ELSE Cur
    IN  /\ "ext_tsk" \in TSKCALLS
        /\ p_runtsk # NULL
        /\ ~excpt
        /\ ~LeavingWait
        /\ ~BeforeLock
        /\ Become(dispatcher(task_terminate(s, p_runtsk)))
        /\ lock_flag' = FALSE
        /\ UNCHANGED excpt

ras_ter(t) ==
    LET tstat    == tcb[t].tstat
        request  == [Cur EXCEPT !.tcb[t].raster = TRUE]
        released == set_wercd(
                      wait_dequeue_tmevtb(wait_dequeue_wobj(request, t), t),
                      t, "E_RASTER")
        runnable == [(IF TSTAT_WAITING(tstat) THEN released ELSE request)
                        EXCEPT !.tcb[t].tstat = TS_RUNNABLE]
    IN  /\ TskCtxUnl("ras_ter")
        /\ t # p_runtsk
        /\ TaskExists(t)
        /\ ~TSTAT_DORMANT(tstat)
        /\ \/ /\ tcb[t].enater
              /\ Become(dispatch(task_terminate(Cur, t)))
           \/ /\ ~tcb[t].enater
              /\ Become(IF TSTAT_RUNNABLE(tstat) THEN request
                        ELSE dispatch(make_runnable(runnable, t)))
        /\ UnchangedContext

dis_ter ==
    /\ TskCtxUnl("dis_ter")
    /\ Become([Cur EXCEPT !.tcb[p_runtsk].enater = FALSE])
    /\ UnchangedContext

ena_ter ==
    /\ TskCtxUnl("ena_ter")
    /\ Become(IF tcb[p_runtsk].raster /\ dspflg
              THEN dispatcher(task_terminate(Cur, p_runtsk))
              ELSE [Cur EXCEPT !.tcb[p_runtsk].enater = TRUE])
    /\ UnchangedContext

ter_tsk(t) ==
    /\ TskCtxUnl("ter_tsk")
    /\ t # p_runtsk
    /\ TaskExists(t)
    /\ ~TSTAT_DORMANT(tcb[t].tstat)
    /\ Become(dispatch(task_terminate(Cur, t)))
    /\ UnchangedContext

=============================================================================
