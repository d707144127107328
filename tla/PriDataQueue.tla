---------------------------- MODULE PriDataQueue ----------------------------
(***************************************************************************)
(* Priority data queue calls: kernel/pridataq.c.  (ref_pdq only reads.)    *)
(*                                                                         *)
(* p_pdqmb is an array of blocks, of which the first unused ones have been *)
(* used; a used block is either in the chain of data that starts at p_head *)
(* or in the list of free blocks.  Block i is p_pdqmb[i + 1] here.         *)
(***************************************************************************)
EXTENDS KernelState

new_pdqcb(pdqcnt, maxdpri) ==
    [pdqcnt |-> pdqcnt, maxdpri |-> maxdpri,
     p_pdqmb |-> [i \in 1 .. pdqcnt |-> [p_next |-> NULL, data |-> NULL, datapri |-> 0]],
     count |-> 0, p_head |-> NULL, unused |-> 0, p_freelist |-> NULL]

block(q, i) == q.p_pdqmb[i + 1]

(* The list of the blocks of q from block i on.                            *)
chain(q, i) ==
    LET from[n \in 0 .. q.pdqcnt] ==
            IF n = 0 THEN <<i>>
            ELSE IF Last(from[n - 1]) = NULL THEN from[n - 1]
            ELSE Append(from[n - 1], block(q, Last(from[n - 1])).p_next)
    IN  SelectSeq(from[q.pdqcnt], LAMBDA b : b # NULL)

(* Block b, with data and datapri, is linked in behind block prev, or at   *)
(* the head.                                                               *)
link(q, b, prev, data, datapri) ==
    LET next == IF prev = NULL THEN q.p_head ELSE block(q, prev).p_next
        put  == [q EXCEPT !.p_pdqmb[b + 1] = [p_next  |-> next,
                                              data    |-> data,
                                              datapri |-> datapri],
                          !.count = @ + 1]
    IN  IF prev = NULL THEN [put EXCEPT !.p_head = b]
        ELSE [put EXCEPT !.p_pdqmb[prev + 1].p_next = b]

(* Faulty variant: goes before the data of its own priority.               *)
insertion_point_lifo(q, datapri) ==
    LET c     == chain(q, q.p_head)
        lower == SelectInSeq(c, LAMBDA b : block(q, b).datapri >= datapri)
        prevs == IF lower = 0 THEN c ELSE SubSeq(c, 1, lower - 1)
    IN  IF prevs = <<>> THEN NULL ELSE Last(prevs)

(* The block before the first of lower priority in the chain; NULL: the    *)
(* datum goes to the head.                                                 *)
insertion_point(q, datapri) ==
    LET c     == chain(q, q.p_head)
        lower == SelectInSeq(c, LAMBDA b : block(q, b).datapri > datapri)
        prevs == IF lower = 0 THEN c ELSE SubSeq(c, 1, lower - 1)
    IN  IF prevs = <<>> THEN NULL ELSE Last(prevs)

enqueue_pridata(s, w, data, datapri) ==
    LET q     == s.pdq[w]
        b     == IF q.p_freelist # NULL THEN q.p_freelist ELSE q.unused
        taken == IF q.p_freelist # NULL
                 THEN [q EXCEPT !.p_freelist = block(q, q.p_freelist).p_next]
                 ELSE [q EXCEPT !.unused = @ + 1]
    IN  [s EXCEPT !.pdq[w] =
            link(taken, b, insertion_point(q, datapri), data, datapri)]

(* Faulty variant: the block is not given back.                            *)
dequeue_pridata_leaks(s, w) ==
    LET q == s.pdq[w]
        b == block(q, q.p_head)
    IN  [s EXCEPT !.out = [from |-> w,
                           what |-> [data |-> b.data, datapri |-> b.datapri]],
                  !.pdq[w] = [q EXCEPT !.p_head = b.p_next, !.count = @ - 1]]

dequeue_pridata(s, w) ==
    LET q == s.pdq[w]
        b == block(q, q.p_head)
    IN  [s EXCEPT !.out = [from |-> w,
                           what |-> [data |-> b.data, datapri |-> b.datapri]],
                  !.pdq[w] = [q EXCEPT !.p_head     = b.p_next,
                                       !.count      = @ - 1,
                                       !.p_pdqmb[q.p_head + 1].p_next = q.p_freelist,
                                       !.p_freelist = q.p_head]]

pdq_receivers(s, w) == s.wobj[w].rwait_queue
pdq_senders(s, w)   == s.wobj[w].wait_queue

can_send_pridata(s, w) ==
    pdq_receivers(s, w) # <<>> \/ s.pdq[w].count < s.pdq[w].pdqcnt

send_pridata(s, w, data, datapri) ==
    LET t     == Head(pdq_receivers(s, w))
        datum == [data |-> data, datapri |-> datapri]
    IN  IF pdq_receivers(s, w) # <<>>
        THEN wait_complete([s EXCEPT !.wobj[w].rwait_queue = Tail(@),
                                     !.tcb[t].wobjdata     = datum], t)
        ELSE enqueue_pridata(s, w, data, datapri)

can_receive_pridata(s, w) == s.pdq[w].count > 0 \/ pdq_senders(s, w) # <<>>

(* The first task that waits to send puts its datum into the buffer only   *)
(* after the datum to receive has been chosen, whatever its priority.      *)
receive_pridata(s, w) ==
    LET t     == Head(pdq_senders(s, w))
        datum == s.tcb[t].wobjdata
        taken == [s EXCEPT !.wobj[w].wait_queue = Tail(@),
                           !.tcb[t].wobjdata    = NULL]
    IN  IF s.pdq[w].count > 0
        THEN IF pdq_senders(s, w) = <<>> THEN dequeue_pridata(s, w)
             ELSE wait_complete(
                     enqueue_pridata(dequeue_pridata(taken, w), w,
                                     datum.data, datum.datapri), t)
        ELSE wait_complete([taken EXCEPT !.out = [from |-> w, what |-> datum]], t)

-----------------------------------------------------------------------------

(* Faulty variant: the new queue takes over the free list of the deleted   *)
(* one.                                                                    *)
acre_pdq_keeps_freelist(pdqatr, pdqcnt, maxdpri) ==
    LET w == Head(free_cb["PDQ"])
    IN  /\ CanCreate("acre_pdq", "PDQ")
        /\ Become([create_wobj("PDQ", pdqatr) EXCEPT
                     !.pdq[w] = [new_pdqcb(pdqcnt, maxdpri) EXCEPT
                                   !.p_freelist = IF pdqcnt = 0 THEN NULL
                                                  ELSE pdq[w].p_freelist]])
        /\ UnchangedContext

acre_pdq(pdqatr, pdqcnt, maxdpri) ==
    LET w == Head(free_cb["PDQ"])
    IN  /\ CanCreate("acre_pdq", "PDQ")
        /\ Become([create_wobj("PDQ", pdqatr) EXCEPT
                     !.pdq[w] = new_pdqcb(pdqcnt, maxdpri)])
        /\ UnchangedContext

del_pdq(w) ==
    /\ CanDelete("del_pdq", "PDQ", w)
    /\ Become(dispatch(delete_wobj("PDQ", w)))
    /\ UnchangedContext

holding_pri(data, datapri) ==
    [Cur EXCEPT !.tcb[p_runtsk].wobjdata = [data |-> data, datapri |-> datapri]]

snd_pdq(w, data, datapri) ==
    /\ MayWait("snd_pdq", w)
    /\ datapri <= pdq[w].maxdpri
    /\ Become(dispatch(
                IF can_send_pridata(Cur, w) THEN send_pridata(Cur, w, data, datapri)
                ELSE wobj_make_wait(holding_pri(data, datapri), TS_WAITING_SPDQ, w)))
    /\ UnchangedContext

psnd_pdq(w, data, datapri) ==
    /\ Unl("psnd_pdq")
    /\ ObjectExists(w)
    /\ datapri <= pdq[w].maxdpri
    /\ can_send_pridata(Cur, w)
    /\ Become(dispatch_or_request(send_pridata(Cur, w, data, datapri)))
    /\ UnchangedContext

tsnd_pdq(w, data, datapri) ==
    /\ MayWait("tsnd_pdq", w)
    /\ datapri <= pdq[w].maxdpri
    /\ Become(dispatch(
                IF can_send_pridata(Cur, w) THEN send_pridata(Cur, w, data, datapri)
                ELSE wobj_make_wait_tmout(holding_pri(data, datapri),
                                          TS_WAITING_SPDQ, w, "finite")))
    /\ UnchangedContext

rcv_pdq(w) ==
    /\ MayWait("rcv_pdq", w)
    /\ Become(dispatch(IF can_receive_pridata(Cur, w) THEN receive_pridata(Cur, w)
                       ELSE make_wait_receive(Cur, TS_WAITING_RPDQ, w, "TMO_FEVR")))
    /\ UnchangedContext

prcv_pdq(w) ==
    /\ TskCtxUnl("prcv_pdq")
    /\ ObjectExists(w)
    /\ can_receive_pridata(Cur, w)
    /\ Become(dispatch(receive_pridata(Cur, w)))
    /\ UnchangedContext

trcv_pdq(w) ==
    /\ MayWait("trcv_pdq", w)
    /\ Become(dispatch(IF can_receive_pridata(Cur, w) THEN receive_pridata(Cur, w)
                       ELSE make_wait_receive(Cur, TS_WAITING_RPDQ, w, "finite")))
    /\ UnchangedContext

ini_pdq(w) ==
    LET emptied == [pdq[w] EXCEPT !.count = 0, !.p_head = NULL,
                                  !.unused = 0, !.p_freelist = NULL]
    IN  /\ TskCtxUnl("ini_pdq")
        /\ ObjectExists(w)
        /\ Become(dispatch([init_wait_queues(Cur, w) EXCEPT !.pdq[w] = emptied]))
        /\ UnchangedContext

=============================================================================
