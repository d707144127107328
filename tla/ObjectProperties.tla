-------------------------- MODULE ObjectProperties --------------------------
(***************************************************************************)
(* What makes the synchronization and communication objects correct.       *)
(***************************************************************************)
EXTENDS KernelProperties

(* Task t, in a wait of one of the kinds, leaves it in this step with E_OK.*)
Served(t, kinds) ==
    /\ tcb[t].tstat \cap kinds # {}
    /\ ~TSTAT_WAITING(tcb'[t].tstat)
    /\ tcb'[t].insvc
    /\ tcb'[t].winfo = "E_OK"

(* The tasks that wait for an object are served in the order of its queue: *)
(* what is released, sent or received goes to the first, never to a task   *)
(* behind it.  (Event flags serve by pattern.)                             *)
ServedInOrder ==
    [][\A t \in TSK :
          Served(t, {"SEM", "SDTQ", "RDTQ", "SPDQ", "RPDQ", "MPF"}) =>
             t = Head(wobj[tcb[t].p_wobjcb][queue_of(tcb[t].tstat)])]_vars

(* For every kind, a control block is in the list of free ones exactly     *)
(* while it has no object, and then no task waits for it (the acre_ and    *)
(* del_ calls).                                                            *)
KindOf == [SEM |-> SEM, FLG |-> FLG, DTQ |-> DTQ, PDQ |-> PDQ, MPF |-> MPF]

ObjectFreeListsOK ==
    /\ \A k \in OBJKIND :
          /\ NoDuplicates(free_cb[k])
          /\ ToSet(free_cb[k]) = {w \in ToSet(dynamic_obj[k]) : ~ObjectExists(w)}
    /\ \A t \in TSK : TSTAT_WAIT_WOBJ(tcb[t].tstat) => ObjectExists(tcb[t].p_wobjcb)

-----------------------------------------------------------------------------
(* Semaphores.                                                             *)

(* No resource is free while a task waits for one, and there are never     *)
(* more than the semaphore's maximum (semaphore.c).                        *)
SemaphoreOK ==
    \A w \in SEM : ObjectExists(w) =>
       /\ sem[w].semcnt <= sem[w].maxsem
       /\ wobj[w].wait_queue # <<>> => sem[w].semcnt = 0

-----------------------------------------------------------------------------
(* Event flags.                                                            *)

(* No task waits whose condition the flag meets, and without TA_WMUL at    *)
(* most one task waits (eventflag.c: set_flg, wai_flg).                    *)
EventFlagOK ==
    \A w \in FLG : ObjectExists(w) =>
       /\ \A t \in ToSet(wobj[w].wait_queue) : ~flg_met(Cur, w, t)
       /\ "TA_WMUL" \notin wobj[w].wobjatr => Len(wobj[w].wait_queue) <= 1

(* A task is released by a pattern that meets the condition it waited for, *)
(* although waiptn of its WINFO is overwritten with that pattern; and a    *)
(* flag with TA_CLR releases one task and is then clear.                   *)
FlagReleasesMet ==
    [][\A t \in TSK : Served(t, {"FLG"}) =>
          LET w   == tcb[t].p_wobjcb
              old == tcb[t].wobjdata
          IN  /\ flg_cond(tcb'[t].wobjdata.waiptn, old.waiptn, old.wfmode)
              /\ "TA_CLR" \in wobj[w].wobjatr =>
                    /\ flg'[w].flgptn = {}
                    /\ \A u \in TSK : Served(u, {"FLG"}) => u = t]_vars

-----------------------------------------------------------------------------
(* Data queues.                                                            *)

(* The indices of the ring buffer agree with its count, tasks wait to send *)
(* only while it is full and to receive only while there is nothing to     *)
(* receive (dataqueue.c).                                                  *)
DataQueueOK ==
    \A w \in DTQ : ObjectExists(w) =>
       LET q == dtq[w]
       IN  /\ q.count <= q.dtqcnt
           /\ IF q.dtqcnt = 0 THEN q.head = 0 /\ q.tail = 0
              ELSE q.tail = (q.head + q.count) % q.dtqcnt /\ q.head < q.dtqcnt
           /\ senders(Cur, w) # <<>> => q.count = q.dtqcnt
           /\ receivers(Cur, w) # <<>> => q.count = 0 /\ senders(Cur, w) = <<>>

(* All that has been sent to queue w and not received.                     *)
contents(w) ==
    LET q == dtq[w]
    IN  IF ~ObjectExists(w) THEN <<>>
        ELSE [i \in 1 .. q.count |-> q.p_dtqmb[((q.head + i - 1) % q.dtqcnt) + 1]]
             \o [i \in DOMAIN senders(Cur, w) |->
                    tcb[senders(Cur, w)[i]].wobjdata.data]

(* A datum handed to task t, which has not returned from its call.         *)
handed(w, t) ==
    IF /\ tcb[t].p_wobjcb = w
       /\ tcb[t].winfo = "E_OK"
       /\ tcb[t].wobjdata # NULL
    THEN tcb[t].wobjdata.data ELSE NULL

returned(w) == IF out # NULL /\ out.from = w THEN out.what.data ELSE NULL

(* The queue looked at, if there are several.                              *)
Q == CHOOSE w \in DTQ : TRUE

Channel == INSTANCE DataChannel WITH
                 Data     <- DATA,
                 Receiver <- TSK,
                 Nothing  <- NULL,
                 capacity <- dtq[Q].dtqcnt,
                 chan     <- contents(Q),
                 hand     <- [t \in TSK |-> handed(Q, t)],
                 got      <- returned(Q)

(* A data queue without TA_TPRI is a FIFO channel: through the ring        *)
(* buffer, the tasks that wait to send and the hand-over to tasks that     *)
(* wait to receive, data keep their order and none is lost or doubled.     *)
ImplementsDataChannel == Channel!Spec

(* The CPU of an application that never locks it is not locked (loc_cpu    *)
(* and unl_cpu are the transitions to and from the CPU locked state).      *)
CpuStaysUnlocked == ~lock_flag

-----------------------------------------------------------------------------
(* Priority data queues.                                                   *)

queued(q) == chain(q, q.p_head)
unchained(q) == chain(q, q.p_freelist)

(* Every used block is in exactly one of the two lists, count is the       *)
(* length of the chain, and tasks wait only when they have to (pridataq.c).*)
PriDataQueueOK ==
    \A w \in PDQ : ObjectExists(w) =>
       LET q == pdq[w]
       IN  /\ NoDuplicates(queued(q) \o unchained(q))
           /\ ToSet(queued(q) \o unchained(q)) = 0 .. q.unused - 1
           /\ q.unused <= q.pdqcnt
           /\ q.count = Len(queued(q))
           /\ pdq_senders(Cur, w) # <<>> => q.count = q.pdqcnt
           /\ pdq_receivers(Cur, w) # <<>> => q.count = 0 /\ pdq_senders(Cur, w) = <<>>

(* The data in the chain, in order.                                        *)
datum(b)   == [data |-> b.data, datapri |-> b.datapri]
pridata(w) == [i \in DOMAIN queued(pdq[w]) |->
                 datum(block(pdq[w], queued(pdq[w])[i]))]

InOrder(c, x) == SelectSeq(c, LAMBDA y : y.datapri <= x.datapri) \o <<x>>
                 \o SelectSeq(c, LAMBDA y : y.datapri > x.datapri)

(* What is received is the oldest datum of the highest priority in the     *)
(* chain; a new datum goes behind those of its own priority, and no other  *)
(* change is made to the chain, but for emptying it.                       *)
PriorityOrder ==
    [][\A w \in PDQ :
          pridata(w)' # pridata(w) /\ pridata(w)' # <<>> =>
             \E d \in DATA, p \in DPRI :
                LET x    == [data |-> d, datapri |-> p]
                    rest == Tail(pridata(w))
                IN  \/ pridata(w)' = InOrder(pridata(w), x)
                    \/ /\ pridata(w) # <<>>
                       /\ pridata(w)' \in {rest, InOrder(rest, x)}
                       /\ out' = [from |-> w, what |-> Head(pridata(w))]]_vars

-----------------------------------------------------------------------------
(* Fixed-size memory pools.                                                *)

allocated(p) == {i \in 0 .. p.blkcnt - 1 : is_allocated(p, i)}

(* The blocks in the list of free ones.                                    *)
listed(p) ==
    LET from[n \in 0 .. p.blkcnt] ==
            IF n = 0 THEN <<p.freelist>>
            ELSE IF Last(from[n - 1]) \in 0 .. p.blkcnt - 1
            THEN Append(from[n - 1], p.p_mpfmb[Last(from[n - 1]) + 1])
            ELSE from[n - 1]
    IN  from[p.blkcnt]

(* Every used block is either allocated or once in the list of free ones,  *)
(* which ends with INDEX_NULL; fblkcnt counts the blocks that are not      *)
(* allocated, and no task waits while there is one.  What ini_mpf has      *)
(* taken back is not allocated, although its entries still say so          *)
(* (mempfix.c).                                                            *)
MemPoolOK ==
    \A w \in MPF : ObjectExists(w) =>
       LET p    == mpf[w]
           free == Front(listed(p))
       IN  /\ p.unused <= p.blkcnt
           /\ Last(listed(p)) = INDEX_NULL
           /\ NoDuplicates(free)
           /\ ToSet(free) = (0 .. p.unused - 1) \ allocated(p)
           /\ p.fblkcnt = p.blkcnt - Cardinality(allocated(p))
           /\ wobj[w].wait_queue # <<>> => p.fblkcnt = 0

(* A block is given to a task only if it is not allocated, or if it has    *)
(* just been released for that task.                                       *)
BlockGivenOnce ==
    [][\A w \in MPF :
          /\ mpf'[w].fblkcnt < mpf[w].fblkcnt /\ wobj'[w].wobjatr = wobj[w].wobjatr =>
                out'.what.blk \in allocated(mpf[w])' \ allocated(mpf[w])
          /\ \A t \in TSK : Served(t, {"MPF"}) /\ tcb[t].p_wobjcb = w =>
                /\ tcb'[t].wobjdata.blk \in allocated(mpf[w]) \cap allocated(mpf[w])'
                /\ mpf'[w] = mpf[w]]_vars

-----------------------------------------------------------------------------
(* The data structures of the objects of every kind agree with each other, *)
(* and no task waits for what it could have.                               *)
ObjectsOK ==
    /\ SemaphoreOK
    /\ EventFlagOK
    /\ DataQueueOK
    /\ PriDataQueueOK
    /\ MemPoolOK

=============================================================================
