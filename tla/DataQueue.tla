------------------------------ MODULE DataQueue ------------------------------
(***************************************************************************)
(* Data queue calls: kernel/dataqueue.c.  (ref_dtq only reads.)            *)
(*                                                                         *)
(* p_dtqmb is the ring buffer; its element i is p_dtqmb[i + 1] here.       *)
(***************************************************************************)
EXTENDS KernelState

(* The index after i in a ring buffer of dtqcnt elements.                  *)
ring_next(i, dtqcnt) == IF i + 1 >= dtqcnt THEN 0 ELSE i + 1

new_dtqcb(dtqcnt) ==
    [dtqcnt |-> dtqcnt, p_dtqmb |-> [i \in 1 .. dtqcnt |-> NULL],
     count |-> 0, head |-> 0, tail |-> 0]

enqueue_data(s, w, data) ==
    LET q == s.dtq[w]
    IN  [s EXCEPT !.dtq[w] =
            [q EXCEPT !.p_dtqmb[q.tail + 1] = data,
                      !.count = @ + 1,
                      !.tail  = ring_next(q.tail, q.dtqcnt)]]

(* Faulty variant: overwrites the oldest datum, but leaves head on it.     *)
force_enqueue_data_keeps_head(s, w, data) ==
    LET q    == s.dtq[w]
        tail == ring_next(q.tail, q.dtqcnt)
        put  == [q EXCEPT !.p_dtqmb = [i \in DOMAIN @ |->
                                         IF i = q.tail + 1 THEN data ELSE @[i]],
                          !.tail = tail]
    IN  [s EXCEPT !.dtq[w] =
            IF q.count < q.dtqcnt THEN [put EXCEPT !.count = @ + 1] ELSE put]

(* A buffer that is full loses its oldest datum.  One that has no element  *)
(* loses the datum itself: the C code stores it outside the buffer.        *)
force_enqueue_data(s, w, data) ==
    LET q    == s.dtq[w]
        tail == ring_next(q.tail, q.dtqcnt)
        put  == [q EXCEPT !.p_dtqmb = [i \in DOMAIN @ |->
                                         IF i = q.tail + 1 THEN data ELSE @[i]],
                          !.tail = tail]
    IN  [s EXCEPT !.dtq[w] =
            IF q.count < q.dtqcnt THEN [put EXCEPT !.count = @ + 1]
            ELSE [put EXCEPT !.head = tail]]

dequeue_data(s, w) ==
    LET q == s.dtq[w]
    IN  [s EXCEPT !.out = [from |-> w, what |-> [data |-> q.p_dtqmb[q.head + 1]]],
                  !.dtq[w] = [q EXCEPT !.count = @ - 1,
                                       !.head  = ring_next(q.head, q.dtqcnt)]]

receivers(s, w) == s.wobj[w].rwait_queue
senders(s, w)   == s.wobj[w].wait_queue

(* Faulty variant: the receiver that came last gets the datum.             *)
hand_over_last(s, w, data) ==
    LET t == Last(receivers(s, w))
    IN  wait_complete([s EXCEPT !.wobj[w].rwait_queue = Front(@),
                                !.tcb[t].wobjdata     = [data |-> data]], t)

(* The first receiver gets the datum past the buffer.                      *)
hand_over(s, w, data) ==
    LET t == Head(receivers(s, w))
    IN  wait_complete([s EXCEPT !.wobj[w].rwait_queue = Tail(@),
                                !.tcb[t].wobjdata     = [data |-> data]], t)

can_send_data(s, w) ==
    receivers(s, w) # <<>> \/ s.dtq[w].count < s.dtq[w].dtqcnt

send_data(s, w, data) ==
    IF receivers(s, w) # <<>> THEN hand_over(s, w, data) ELSE enqueue_data(s, w, data)

force_send_data(s, w, data) ==
    IF receivers(s, w) # <<>> THEN hand_over(s, w, data)
    ELSE force_enqueue_data(s, w, data)

can_receive_data(s, w) == s.dtq[w].count > 0 \/ senders(s, w) # <<>>

(* Faulty variant: the datum of a task that waits to send is delivered     *)
(* before what the buffer holds.                                           *)
receive_data_sender_first(s, w) ==
    LET t     == Head(senders(s, w))
        taken == [s EXCEPT !.wobj[w].wait_queue = Tail(@),
                           !.tcb[t].wobjdata    = NULL]
    IN  IF senders(s, w) = <<>> THEN dequeue_data(s, w)
        ELSE wait_complete([taken EXCEPT !.out = [from |-> w, what |-> s.tcb[t].wobjdata]], t)

(* The oldest datum is received; the first task that waits to send then    *)
(* puts its own into the buffer.  Without a buffer it is received from     *)
(* that task.                                                              *)
receive_data(s, w) ==
    LET t     == Head(senders(s, w))
        taken == [s EXCEPT !.wobj[w].wait_queue = Tail(@),
                           !.tcb[t].wobjdata    = NULL]
    IN  IF s.dtq[w].count > 0
        THEN IF senders(s, w) = <<>> THEN dequeue_data(s, w)
             ELSE wait_complete(enqueue_data(dequeue_data(taken, w), w,
                                             s.tcb[t].wobjdata.data), t)
        ELSE wait_complete([taken EXCEPT !.out = [from |-> w, what |-> s.tcb[t].wobjdata]], t)

-----------------------------------------------------------------------------

(* Faulty variant: the new queue takes over the count of the deleted one.  *)
acre_dtq_keeps_count(dtqatr, dtqcnt) ==
    LET w == Head(free_cb["DTQ"])
    IN  /\ CanCreate("acre_dtq", "DTQ")
        /\ Become([create_wobj("DTQ", dtqatr) EXCEPT
                     !.dtq[w] = [new_dtqcb(dtqcnt) EXCEPT !.count = dtq[w].count]])
        /\ UnchangedContext

acre_dtq(dtqatr, dtqcnt) ==
    LET w == Head(free_cb["DTQ"])
    IN  /\ CanCreate("acre_dtq", "DTQ")
        /\ Become([create_wobj("DTQ", dtqatr) EXCEPT !.dtq[w] = new_dtqcb(dtqcnt)])
        /\ UnchangedContext

del_dtq(w) ==
    /\ CanDelete("del_dtq", "DTQ", w)
    /\ Become(dispatch(delete_wobj("DTQ", w)))
    /\ UnchangedContext

(* The running task keeps its datum in its WINFO and waits to send it.     *)
holding(data) == [Cur EXCEPT !.tcb[p_runtsk].wobjdata = [data |-> data]]

snd_dtq(w, data) ==
    /\ MayWait("snd_dtq", w)
    /\ Become(dispatch(IF can_send_data(Cur, w) THEN send_data(Cur, w, data)
                       ELSE wobj_make_wait(holding(data), TS_WAITING_SDTQ, w)))
    /\ UnchangedContext

psnd_dtq(w, data) ==
    /\ Unl("psnd_dtq")
    /\ ObjectExists(w)
    /\ can_send_data(Cur, w)
    /\ Become(dispatch_or_request(send_data(Cur, w, data)))
    /\ UnchangedContext

tsnd_dtq(w, data) ==
    /\ MayWait("tsnd_dtq", w)
    /\ Become(dispatch(
                IF can_send_data(Cur, w) THEN send_data(Cur, w, data)
                ELSE wobj_make_wait_tmout(holding(data), TS_WAITING_SDTQ, w, "finite")))
    /\ UnchangedContext

(* fsnd_dtq from an interrupt handler: no task runs between the test of    *)
(* the capacity and the lock.                                              *)
fsnd_dtq_handler(w, data) ==
    /\ excpt
    /\ "fsnd_dtq" \in INTCALLS
    /\ dtq[w].dtqcnt > 0
    /\ ObjectExists(w)
    /\ Become(force_send_data(Cur, w, data))
    /\ UnchangedContext

(* fsnd_dtq from a task tests the capacity before it locks the CPU.        *)
fsnd_dtq(w, data) ==
    /\ TskCtxUnl("fsnd_dtq")
    /\ dtq[w].dtqcnt > 0
    /\ Become([Cur EXCEPT !.tcb[p_runtsk].prelock = [dtqid |-> w, data |-> data]])
    /\ UnchangedContext

fsnd_dtq_locked(w, data) ==
    LET locked == [Cur EXCEPT !.tcb[p_runtsk].prelock = NULL]
    IN  /\ ~excpt
        /\ BeforeLock
        /\ tcb[p_runtsk].prelock = [dtqid |-> w, data |-> data]
        /\ Become(IF ObjectExists(w)
                  THEN dispatch(force_send_data(locked, w, data)) ELSE locked)
        /\ UnchangedContext

rcv_dtq(w) ==
    /\ MayWait("rcv_dtq", w)
    /\ Become(dispatch(IF can_receive_data(Cur, w) THEN receive_data(Cur, w)
                       ELSE make_wait_receive(Cur, TS_WAITING_RDTQ, w, "TMO_FEVR")))
    /\ UnchangedContext

prcv_dtq(w) ==
    /\ TskCtxUnl("prcv_dtq")
    /\ ObjectExists(w)
    /\ can_receive_data(Cur, w)
    /\ Become(dispatch(receive_data(Cur, w)))
    /\ UnchangedContext

trcv_dtq(w) ==
    /\ MayWait("trcv_dtq", w)
    /\ Become(dispatch(IF can_receive_data(Cur, w) THEN receive_data(Cur, w)
                       ELSE make_wait_receive(Cur, TS_WAITING_RDTQ, w, "finite")))
    /\ UnchangedContext

ini_dtq(w) ==
    /\ TskCtxUnl("ini_dtq")
    /\ ObjectExists(w)
    /\ Become(dispatch([init_wait_queues(Cur, w) EXCEPT
                          !.dtq[w].count = 0, !.dtq[w].head = 0, !.dtq[w].tail = 0]))
    /\ UnchangedContext

=============================================================================
