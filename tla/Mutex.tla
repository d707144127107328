------------------------------- MODULE Mutex -------------------------------
(***************************************************************************)
(* Mutex calls: kernel/mutex.c.                                            *)
(***************************************************************************)
EXTENDS KernelState

CeilingPermits(t, m) ==
    MTX_CEILING(Cur, m) => tcb[t].bpriority >= mtx[m].ceilpri

(* mtxatr is {} (FIFO order), {"TA_TPRI"} or {"TA_TPRI", "TA_CEILING"}.    *)
acre_mtx(mtxatr, ceilpri) ==
    LET m == Head(free_mtxcb)
    IN  /\ TskCtxUnl("acre_mtx")
        /\ free_mtxcb # <<>>
        /\ Become([Cur EXCEPT
                     !.free_mtxcb = Tail(@),
                     !.wobj[m]    = new_wobj(mtxatr),
                     !.mtx[m]     = [p_loctsk |-> NULL, ceilpri |-> ceilpri]])
        /\ UnchangedContext

(* Faulty variant: does not dispatch to a task whose wait it ended.        *)
del_mtx_no_dispatch(m) ==
    LET loctsk   == mtx[m].p_loctsk
        drained  == init_wait_queue(Cur, m, "wait_queue")
        unlinked == IF loctsk = NULL THEN drained
                    ELSE mutex_unlink(drained, loctsk, m)
    IN  /\ TskCtxUnl("del_mtx")
        /\ ObjectExists(m)
        /\ m \in ToSet(dynamic_mtx)
        /\ Become([unlinked EXCEPT !.wobj[m].wobjatr = {"TA_NOEXS"},
                                   !.free_mtxcb = queue_insert_prev(@, m)])
        /\ UnchangedContext

(* The free MTXCB is linked through its wait queue; p_loctsk keeps the     *)
(* last owner until the MTXCB is used again.                               *)
del_mtx(m) ==
    LET loctsk   == mtx[m].p_loctsk
        drained  == init_wait_queue(Cur, m, "wait_queue")
        unlinked == IF loctsk = NULL THEN drained
                    ELSE mutex_unlink(drained, loctsk, m)
        deleted  == [unlinked EXCEPT !.wobj[m].wobjatr = {"TA_NOEXS"},
                                     !.free_mtxcb = queue_insert_prev(@, m)]
    IN  /\ TskCtxUnl("del_mtx")
        /\ ObjectExists(m)
        /\ m \in ToSet(dynamic_mtx)
        /\ Become(dispatch(deleted))
        /\ UnchangedContext

LockFree(m) ==
    /\ mtx[m].p_loctsk = NULL
    /\ Become(mutex_acquire(Cur, p_runtsk, m))

loc_mtx(m) ==
    /\ Dispatchable("loc_mtx")
    /\ ObjectExists(m)
    /\ ~tcb[p_runtsk].raster
    /\ CeilingPermits(p_runtsk, m)
    /\ \/ LockFree(m)
       \/ /\ mtx[m].p_loctsk \notin {NULL, p_runtsk}
          /\ Become(dispatch(wobj_make_wait(Cur, TS_WAITING_MTX, m)))
    /\ UnchangedContext

ploc_mtx(m) ==
    /\ TskCtxUnl("ploc_mtx")
    /\ ObjectExists(m)
    /\ CeilingPermits(p_runtsk, m)
    /\ LockFree(m)
    /\ UnchangedContext

tloc_mtx(m) ==
    /\ Dispatchable("tloc_mtx")
    /\ ObjectExists(m)
    /\ ~tcb[p_runtsk].raster
    /\ CeilingPermits(p_runtsk, m)
    /\ \/ LockFree(m)
       \/ /\ mtx[m].p_loctsk \notin {NULL, p_runtsk}
          /\ Become(dispatch(
                      wobj_make_wait_tmout(Cur, TS_WAITING_MTX, m, "finite")))
    /\ UnchangedContext

unl_mtx(m) ==
    LET t      == p_runtsk
        popped == [Cur EXCEPT !.tcb[t].lastmtx = Tail(@)]
    IN  /\ TskCtxUnl("unl_mtx")
        /\ ObjectExists(m)
        /\ tcb[t].lastmtx # <<>>
        /\ m = Head(tcb[t].lastmtx)
        /\ Become(dispatch(mutex_release(mutex_drop_priority(popped, t, m), m)))
        /\ UnchangedContext

ini_mtx(m) ==
    LET loctsk  == mtx[m].p_loctsk
        drained == init_wait_queue(Cur, m, "wait_queue")
        freed   == [drained EXCEPT !.mtx[m].p_loctsk = NULL]
    IN  /\ TskCtxUnl("ini_mtx")
        /\ ObjectExists(m)
        /\ Become(dispatch(IF loctsk = NULL THEN drained
                           ELSE mutex_unlink(freed, loctsk, m)))
        /\ UnchangedContext

=============================================================================
