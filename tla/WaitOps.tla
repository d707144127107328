------------------------------ MODULE WaitOps ------------------------------
(***************************************************************************)
(* Waiting: kernel/wait.h and kernel/wait.c.  How a running task enters a  *)
(* wait (with or without a timeout, on an object or not), and how a wait   *)
(* ends: completion, timeout, release of the object.                       *)
(*                                                                         *)
(* The time events are abstracted to the callback each task has            *)
(* registered; when they are due is the subject of TimeEvent.              *)
(***************************************************************************)
EXTENDS TaskOps

make_wait(s, tstat) ==
    LET t == s.p_runtsk
        r == make_non_runnable([s EXCEPT !.tcb[t].tstat = tstat], t)
    IN  [r EXCEPT !.tcb[t].winfo = "no_tmevtb", !.tcb[t].insvc = TRUE]

(* tmout is "TMO_FEVR" or "finite".                                        *)
make_wait_tmout(s, tstat, tmout) ==
    LET t == s.p_runtsk
        r == make_wait(s, tstat)
    IN  IF tmout = "TMO_FEVR" THEN r
        ELSE [r EXCEPT !.tcb[t].winfo = "tmevtb", !.tmevtb[t] = "wait_tmout"]

make_non_wait(s, t) ==
    IF ~TSTAT_SUSPENDED(s.tcb[t].tstat)
    THEN make_runnable([s EXCEPT !.tcb[t].tstat = TS_RUNNABLE], t)
    ELSE [s EXCEPT !.tcb[t].tstat = TS_SUSPENDED]

(* The queue of its object a waiting task is in.                           *)
queue_of(tstat) ==
    IF tstat \cap {"RDTQ", "RPDQ"} # {} THEN "rwait_queue" ELSE "wait_queue"

wait_dequeue_wobj(s, t) ==
    IF TSTAT_WAIT_WOBJ(s.tcb[t].tstat)
    THEN [s EXCEPT !.wobj[s.tcb[t].p_wobjcb][queue_of(s.tcb[t].tstat)] =
              queue_delete(@, t)]
    ELSE s

wait_dequeue_tmevtb(s, t) ==
    IF s.tcb[t].winfo = "tmevtb" THEN [s EXCEPT !.tmevtb[t] = "none"] ELSE s

set_wercd(s, t, wercd) == [s EXCEPT !.tcb[t].winfo = wercd]

(* Faulty variant: the error code, which shares a union with the pointer   *)
(* to the time event, is set before the time event is taken back.          *)
wait_complete_wercd_first(s, t) ==
    make_non_wait(wait_dequeue_tmevtb(set_wercd(s, t, "E_OK"), t), t)

wait_complete(s, t) ==
    make_non_wait(set_wercd(wait_dequeue_tmevtb(s, t), t, "E_OK"), t)

(* The time event has already been taken out of the heap by signal_time.   *)
wait_tmout(s, t) ==
    make_non_wait(set_wercd(wait_dequeue_wobj(s, t), t, "E_TMOUT"), t)

wait_tmout_ok(s, t) == make_non_wait(set_wercd(s, t, "E_OK"), t)

wobj_queue_insert(s, w) ==
    LET t == s.p_runtsk
        r == [s EXCEPT !.tcb[t].p_wobjcb = w]
    IN  IF "TA_TPRI" \in s.wobj[w].wobjatr
        THEN [r EXCEPT !.wobj[w].wait_queue = queue_insert_tpri(s, @, t)]
        ELSE [r EXCEPT !.wobj[w].wait_queue = queue_insert_prev(@, t)]

wobj_make_wait(s, tstat, w) == wobj_queue_insert(make_wait(s, tstat), w)

wobj_make_wait_tmout(s, tstat, w, tmout) ==
    wobj_queue_insert(make_wait_tmout(s, tstat, tmout), w)

(* The receiver of a data queue waits, always in FIFO order.               *)
make_wait_receive(s, tstat, w, tmout) ==
    LET t == s.p_runtsk
        r == make_wait_tmout(s, tstat, tmout)
    IN  [r EXCEPT !.wobj[w].rwait_queue = queue_insert_prev(@, t),
                  !.tcb[t].p_wobjcb = w]

(* Faulty variant: the waiting tasks are told that their wait succeeded.   *)
init_wait_queue_turn_ok(s, w, queue) ==
    LET q == s.wobj[w][queue]
        r == [s EXCEPT !.wobj[w][queue] = Tail(q)]
    IN  wait_complete(r, Head(q))

(* The loop of init_wait_queue: one turn takes the first task of the queue *)
(* out and ends its wait with E_DLT.                                       *)
init_wait_queue_turn(s, w, queue) ==
    LET q == s.wobj[w][queue]
        t == Head(q)
        r == wait_dequeue_tmevtb([s EXCEPT !.wobj[w][queue] = Tail(q)], t)
    IN  make_non_wait(set_wercd(r, t, "E_DLT"), t)

init_wait_queue(s, w, queue) ==
    LET turns == Len(s.wobj[w][queue])
        after[n \in 0 .. turns] ==
            IF n = 0 THEN s ELSE init_wait_queue_turn(after[n - 1], w, queue)
    IN  after[turns]

(* An object with senders and receivers ends the waits of both.            *)
init_wait_queues(s, w) ==
    init_wait_queue(init_wait_queue(s, w, "wait_queue"), w, "rwait_queue")

=============================================================================
