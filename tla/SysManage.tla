----------------------------- MODULE SysManage -----------------------------
(***************************************************************************)
(* System state calls: kernel/sys_manage.c, and chg_ipm of                 *)
(* kernel/interrupt.c.                                                     *)
(***************************************************************************)
EXTENDS KernelState

rot_rdq(pri) ==
    /\ Unl("rot_rdq")
    /\ Become(dispatch_or_request(rotate_ready_queue(Cur, pri)))
    /\ UnchangedContext

(* loc_cpu also masks the interrupts, see int_entry in Kernel.             *)
loc_cpu ==
    /\ TskCtxUnl("loc_cpu")
    /\ lock_flag' = TRUE
    /\ UNCHANGED <<kvars, excpt>>

unl_cpu ==
    /\ lock_flag
    /\ lock_flag' = FALSE
    /\ UNCHANGED <<kvars, excpt>>

dis_dsp ==
    /\ TskCtxUnl("dis_dsp")
    /\ Become([Cur EXCEPT !.enadsp = FALSE, !.dspflg = FALSE])
    /\ UnchangedContext

(* Faulty variant: leaves the switch to the next service call.             *)
resume_dispatching_later(s) ==
    LET r == [s EXCEPT !.dspflg = TRUE, !.p_schedtsk = search_schedtsk(s)]
    IN  IF s.tcb[s.p_runtsk].raster /\ s.tcb[s.p_runtsk].enater
        THEN dispatcher(task_terminate(r, s.p_runtsk))
        ELSE r

(* Dispatching becomes possible: what was put off while it was not, the    *)
(* choice of the task to run and the termination requested of the running  *)
(* task, is done now.                                                      *)
resume_dispatching(s) ==
    LET r == [s EXCEPT !.dspflg = TRUE, !.p_schedtsk = search_schedtsk(s)]
    IN  IF s.tcb[s.p_runtsk].raster /\ s.tcb[s.p_runtsk].enater
        THEN dispatcher(task_terminate(r, s.p_runtsk))
        ELSE dispatch(r)

(* Faulty variant: forgets the interrupt priority mask.                    *)
ena_dsp_ignores_ipm ==
    /\ TskCtxUnl("ena_dsp")
    /\ Become(resume_dispatching([Cur EXCEPT !.enadsp = TRUE]))
    /\ UnchangedContext

ena_dsp ==
    LET s == [Cur EXCEPT !.enadsp = TRUE]
    IN  /\ TskCtxUnl("ena_dsp")
        /\ Become(IF ipm THEN s ELSE resume_dispatching(s))
        /\ UnchangedContext

(* mask is FALSE for TIPM_ENAALL.                                          *)
chg_ipm(mask) ==
    LET s == [Cur EXCEPT !.ipm = mask]
    IN  /\ TskCtxUnl("chg_ipm")
        /\ Become(IF ~mask /\ enadsp THEN resume_dispatching(s)
                  ELSE [s EXCEPT !.dspflg = FALSE])
        /\ UnchangedContext

=============================================================================
