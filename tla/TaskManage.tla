----------------------------- MODULE TaskManage -----------------------------
(***************************************************************************)
(* Task management calls: kernel/task_manage.c.                            *)
(* get_pri and get_inf change nothing; get_tst, which changes nothing      *)
(* either, is here for what it answers.                                    *)
(***************************************************************************)
EXTENDS KernelState

(* A task with TA_ACT is made ready, but no dispatch follows.              *)
acre_tsk(tskatr, itskpri) ==
    LET t       == Head(free_tcb)
        created == make_dormant(
                     [Cur EXCEPT
                        !.free_tcb      = Tail(@),
                        !.tinib[t]      = [tskatr    |-> tskatr,
                                           ipriority |-> itskpri],
                        !.tcb[t].actque = FALSE], t)
    IN  /\ TskCtxUnl("acre_tsk")
        /\ free_tcb # <<>>
        /\ Become(IF "TA_ACT" \in tskatr THEN make_active(created, t) ELSE created)
        /\ UnchangedContext

(* Faulty variant: deletes a task that is not dormant.                     *)
del_tsk_any_state(t) ==
    /\ TskCtxUnl("del_tsk")
    /\ TaskExists(t)
    /\ t \in ToSet(dynamic_tsk)
    /\ Become([Cur EXCEPT !.tinib[t].tskatr = {"TA_NOEXS"},
                          !.free_tcb = queue_insert_prev(@, t)])
    /\ UnchangedContext

del_tsk(t) ==
    /\ TskCtxUnl("del_tsk")
    /\ TaskExists(t)
    /\ t \in ToSet(dynamic_tsk)
    /\ TSTAT_DORMANT(tcb[t].tstat)
    /\ Become([Cur EXCEPT !.tinib[t].tskatr = {"TA_NOEXS"},
                          !.free_tcb = queue_insert_prev(@, t)])
    /\ UnchangedContext

act_tsk(t) ==
    /\ Unl("act_tsk")
    /\ TaskExists(t)
    /\ \/ /\ TSTAT_DORMANT(tcb[t].tstat)
          /\ Become(dispatch_or_request(make_active(Cur, t)))
       \/ /\ ~TSTAT_DORMANT(tcb[t].tstat)
          /\ "TA_NOACTQUE" \notin tinib[t].tskatr
          /\ ~tcb[t].actque
          /\ Become([Cur EXCEPT !.tcb[t].actque = TRUE])
    /\ UnchangedContext

can_act(t) ==
    /\ TskCtxUnl("can_act")
    /\ TaskExists(t)
    /\ Become([Cur EXCEPT !.tcb[t].actque = FALSE])
    /\ UnchangedContext

(* The error code E_NOEXS is overwritten before the return.                *)
get_tst(t) ==
    LET tstat == tcb[t].tstat
        state == IF TSTAT_DORMANT(tstat) THEN "TTS_DMT"
                 ELSE IF TSTAT_SUSPENDED(tstat)
                 THEN IF TSTAT_WAITING(tstat) THEN "TTS_WAS" ELSE "TTS_SUS"
                 ELSE IF TSTAT_WAITING(tstat) THEN "TTS_WAI"
                 ELSE IF t = p_runtsk THEN "TTS_RUN" ELSE "TTS_RDY"
    IN  [ercd    |-> "E_OK",
         tskstat |-> IF TaskExists(t) THEN state ELSE "unset"]

MayChangePri(t, newbpri) ==
    /\ TaskExists(t)
    /\ ~TSTAT_DORMANT(tcb[t].tstat)
    /\ mutex_check_ceilpri(Cur, t, newbpri)

(* Faulty variant: the base priority is stored as the application wrote it *)
(* (1 is the highest), without INT_PRIORITY.                               *)
set_bpriority_external(s, t, newbpri) ==
    LET r == [s EXCEPT !.tcb[t].bpriority = newbpri + 1]
    IN  IF mutex_scan_ceilmtx(r, t) THEN r
        ELSE dispatch(change_priority(r, t, newbpri, FALSE))

set_bpriority(s, t, newbpri) ==
    LET r == [s EXCEPT !.tcb[t].bpriority = newbpri]
    IN  IF mutex_scan_ceilmtx(r, t) THEN r
        ELSE dispatch(change_priority(r, t, newbpri, FALSE))

chg_pri(t, newbpri) ==
    /\ TskCtxUnl("chg_pri")
    /\ MayChangePri(t, newbpri)
    /\ Become(set_bpriority(Cur, t, newbpri))
    /\ UnchangedContext

(* With TPRI_INI the call reads the initial priority of the task before it *)
(* locks the CPU, and sets it afterwards.                                  *)
chg_pri_ini(t) ==
    /\ TskCtxUnl("chg_pri_ini")
    /\ Become([Cur EXCEPT !.tcb[p_runtsk].prelock =
                  [tskid |-> t, newbpri |-> tinib[t].ipriority]])
    /\ UnchangedContext

chg_pri_ini_locked(t, newbpri) ==
    LET locked == [Cur EXCEPT !.tcb[p_runtsk].prelock = NULL]
    IN  /\ ~excpt
        /\ BeforeLock
        /\ tcb[p_runtsk].prelock = [tskid |-> t, newbpri |-> newbpri]
        /\ Become(IF MayChangePri(t, newbpri)
                  THEN set_bpriority(locked, t, newbpri) ELSE locked)
        /\ UnchangedContext

=============================================================================
