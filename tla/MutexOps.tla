------------------------------ MODULE MutexOps ------------------------------
(***************************************************************************)
(* The internal operations of kernel/mutex.c (locking, handing over,       *)
(* releasing, and the priority ceiling protocol), and task_terminate of    *)
(* kernel/task.c, which releases what the task holds through the mutex     *)
(* hooks.                                                                  *)
(***************************************************************************)
EXTENDS WaitOps

MTX_CEILING(s, m) == "TA_CEILING" \in s.wobj[m].wobjatr

(* The mutexes on the list that starts at p_lastmtx of task t.             *)
held_mtx(s, t) == ToSet(s.tcb[t].lastmtx)

mutex_check_ceilpri(s, t, bpriority) ==
    LET permits(m) == MTX_CEILING(s, m) => bpriority >= s.mtx[m].ceilpri
    IN  /\ \A m \in held_mtx(s, t) : permits(m)
        /\ TSTAT_WAIT_MTX(s.tcb[t].tstat) => permits(s.tcb[t].p_wobjcb)

mutex_scan_ceilmtx(s, t) == \E m \in held_mtx(s, t) : MTX_CEILING(s, m)

mutex_calc_priority(s, t) ==
    Min({s.tcb[t].bpriority} \cup
        {s.mtx[m].ceilpri : m \in {h \in held_mtx(s, t) : MTX_CEILING(s, h)}})

(* Faulty variant: the task goes behind the others of its priority.        *)
mutex_drop_priority_to_tail(s, t, m) ==
    LET newpri == mutex_calc_priority(s, t)
    IN  IF /\ MTX_CEILING(s, m)
           /\ s.mtx[m].ceilpri = s.tcb[t].priority
           /\ newpri # s.tcb[t].priority
        THEN change_priority(s, t, newpri, FALSE)
        ELSE s

mutex_drop_priority(s, t, m) ==
    LET newpri == mutex_calc_priority(s, t)
    IN  IF /\ MTX_CEILING(s, m)
           /\ s.mtx[m].ceilpri = s.tcb[t].priority
           /\ newpri # s.tcb[t].priority
        THEN change_priority(s, t, newpri, TRUE)
        ELSE s

lock_record(s, t, m) ==
    [s EXCEPT !.mtx[m].p_loctsk = t, !.tcb[t].lastmtx = Cons(m, @)]

(* Faulty variant: does not raise the priority to the ceiling.             *)
mutex_acquire_no_ceiling(s, t, m) == lock_record(s, t, m)

mutex_acquire(s, t, m) ==
    LET r == lock_record(s, t, m)
    IN  IF MTX_CEILING(s, m) /\ s.mtx[m].ceilpri < s.tcb[t].priority
        THEN change_priority(r, t, s.mtx[m].ceilpri, TRUE)
        ELSE r

(* Faulty variants: the new owner keeps its priority; the last waiter gets *)
(* the mutex; the new owner stays in the wait queue.                       *)
mutex_release_no_ceiling(s, m) ==
    LET q == s.wobj[m].wait_queue
        r == [s EXCEPT !.wobj[m].wait_queue = Tail(q)]
    IN  IF q = <<>> THEN [s EXCEPT !.mtx[m].p_loctsk = NULL]
        ELSE wait_complete(lock_record(r, Head(q), m), Head(q))

mutex_release_lifo(s, m) ==
    LET q == s.wobj[m].wait_queue
        r == [s EXCEPT !.wobj[m].wait_queue = Front(q)]
    IN  IF q = <<>> THEN [s EXCEPT !.mtx[m].p_loctsk = NULL]
        ELSE wait_complete(lock_record(r, Last(q), m), Last(q))

mutex_release_keeps_waiter(s, m) ==
    LET q == s.wobj[m].wait_queue
    IN  IF q = <<>> THEN [s EXCEPT !.mtx[m].p_loctsk = NULL]
        ELSE wait_complete(lock_record(s, Head(q), m), Head(q))

mutex_release(s, m) ==
    LET q      == s.wobj[m].wait_queue
        t      == Head(q)
        woken  == set_wercd(wait_dequeue_tmevtb(
                      [s EXCEPT !.wobj[m].wait_queue = Tail(q)], t), t, "E_OK")
        owner  == lock_record(woken, t, m)
        raised == IF MTX_CEILING(s, m) /\ s.mtx[m].ceilpri < s.tcb[t].priority
                  THEN [owner EXCEPT !.tcb[t].priority = s.mtx[m].ceilpri]
                  ELSE owner
    IN  IF q = <<>> THEN [s EXCEPT !.mtx[m].p_loctsk = NULL]
        ELSE make_non_wait(raised, t)

(* One turn of the loop of mutex_release_all.                              *)
mutex_release_last(s, t) ==
    LET held == s.tcb[t].lastmtx
    IN  mutex_release([s EXCEPT !.tcb[t].lastmtx = Tail(held)], Head(held))

mutex_release_all(s, t) ==
    LET turns == Len(s.tcb[t].lastmtx)
        after[n \in 0 .. turns] ==
            IF n = 0 THEN s ELSE mutex_release_last(after[n - 1], t)
    IN  after[turns]

(* Faulty variant: takes the mutex that was locked last out of the list.   *)
mutex_unlink_last(s, t, m) ==
    mutex_drop_priority([s EXCEPT !.tcb[t].lastmtx = Tail(@)], t, m)

(* del_mtx and ini_mtx take a locked mutex out of its owner's list,        *)
(* wherever it stands in it.                                               *)
mutex_unlink(s, t, m) ==
    mutex_drop_priority(
        [s EXCEPT !.tcb[t].lastmtx = queue_delete(@, m)], t, m)

-----------------------------------------------------------------------------

task_terminate(s, t) ==
    LET tstat   == s.tcb[t].tstat
        stopped == IF TSTAT_RUNNABLE(tstat) THEN make_non_runnable(s, t)
                   ELSE IF TSTAT_WAITING(tstat)
                   THEN wait_dequeue_tmevtb(wait_dequeue_wobj(s, t), t)
                   ELSE s
        dormant == make_dormant(mutex_release_all(stopped, t), t)
    IN  IF s.tcb[t].actque
        THEN make_active([dormant EXCEPT !.tcb[t].actque = FALSE], t)
        ELSE dormant

=============================================================================
