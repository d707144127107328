------------------------------ MODULE TaskOps ------------------------------
(***************************************************************************)
(* The task control block, the ready queue and the operations of           *)
(* kernel/task.c on them (all but task_terminate, which needs the mutexes  *)
(* and is in MutexOps).                                                    *)
(*                                                                         *)
(* A kernel function runs with the CPU locked, so it is a function of the  *)
(* kernel's data: every operator below maps a kernel state s, a record of  *)
(* the kernel's global variables, to the state the C function leaves.      *)
(* The C pointers to a TCB are the task ids themselves.                    *)
(***************************************************************************)
EXTENDS Integers, FiniteSets, SequencesExt

CONSTANTS
    TSK,         \* task ids (the TCBs)
    WOBJ,        \* synchronization objects, each with a wait queue (WOBJCB)
    MTX,         \* the objects that are mutexes
    SEM,         \* ... semaphores
    FLG,         \* ... event flags
    DTQ,         \* ... data queues
    PDQ,         \* ... priority data queues
    MPF,         \* ... fixed-size memory pools
    FLGBIT,      \* the bits of a flag pattern; a pattern is a set of them
    DATA,        \* what a data queue transports
    MAXDPRI,     \* the lowest data priority; 1 is the highest
    TNUM_TPRI,   \* number of task priorities
    NULL         \* the null pointer

ASSUME TaskOpsAssumption ==
    /\ TNUM_TPRI \in Nat \ {0}
    /\ MTX \cup SEM \cup FLG \cup DTQ \cup PDQ \cup MPF = WOBJ
    /\ MTX \cap (SEM \cup FLG \cup DTQ \cup PDQ \cup MPF) = {}
    /\ SEM \cap (FLG \cup DTQ \cup PDQ \cup MPF) = {}
    /\ FLG \cap (DTQ \cup PDQ \cup MPF) = {}
    /\ DTQ \cap (PDQ \cup MPF) = {} /\ PDQ \cap MPF = {}
    /\ NULL \notin TSK \cup WOBJ \cup DATA
    /\ MAXDPRI \in Nat \ {0}

(* Priorities in the kernel's internal representation; 0 is the highest.   *)
TPRI == 0 .. TNUM_TPRI - 1

-----------------------------------------------------------------------------
(* Task states: a tstat word is the set of its bits.                       *)

TS_DORMANT     == {}
TS_RUNNABLE    == {"RUNNABLE"}
TS_SUSPENDED   == {"SUSPENDED"}
TS_WAITING_SLP == {"SLP"}
TS_WAITING_DLY == {"DLY"}
TS_WAITING_MTX == {"MTX"}
TS_WAITING_SEM == {"SEM"}
TS_WAITING_FLG == {"FLG"}
TS_WAITING_SDTQ == {"SDTQ"}
TS_WAITING_RDTQ == {"RDTQ"}
TS_WAITING_SPDQ == {"SPDQ"}
TS_WAITING_RPDQ == {"RPDQ"}
TS_WAITING_MPF == {"MPF"}

TS_WOBJCB_MASK  == {"SEM", "FLG", "SDTQ", "SPDQ", "MTX", "MPF"}
TS_WOBJ_MASK    == TS_WOBJCB_MASK \cup {"RDTQ", "RPDQ"}
TS_WAITING_MASK == TS_WOBJ_MASK \cup {"SLP", "DLY"}

TSTAT_DORMANT(tstat)     == tstat = TS_DORMANT
TSTAT_RUNNABLE(tstat)    == "RUNNABLE" \in tstat
TSTAT_SUSPENDED(tstat)   == "SUSPENDED" \in tstat
TSTAT_WAITING(tstat)     == tstat \cap TS_WAITING_MASK # {}
TSTAT_WAIT_SLP(tstat)    == tstat \ TS_SUSPENDED = TS_WAITING_SLP
TSTAT_WAIT_MTX(tstat)    == tstat \ TS_SUSPENDED = TS_WAITING_MTX
TSTAT_WAIT_WOBJ(tstat)   == tstat \cap TS_WOBJ_MASK # {}
TSTAT_WAIT_WOBJCB(tstat) == tstat \cap TS_WOBJCB_MASK # {}

(* What a WINFO holds: it is a union of the error code a wait ends with    *)
(* and of the pointer to the time event of a wait that has a timeout.      *)
WERCD == {"E_OK", "E_TMOUT", "E_RLWAI", "E_DLT", "E_RASTER"}
WINFO == WERCD \cup {"tmevtb", "no_tmevtb"}

(* What a task that waits for an object keeps in its WINFO for that object:*)
(* the pattern and mode it waits for, the data it sends or has received,   *)
(* the block it has been given.                                            *)
DPRI     == 1 .. MAXDPRI
TWFMODE  == {"TWF_ANDW", "TWF_ORW"}
WOBJDATA == {NULL}
            \cup [waiptn : SUBSET FLGBIT, wfmode : TWFMODE]
            \cup [data : DATA]
            \cup [data : DATA, datapri : DPRI]
            \cup [blk : Nat]

(* What a call has read of an object before it locks the CPU: chg_pri the   *)
(* initial priority (TPRI_INI), fsnd_dtq that the queue has a buffer.       *)
PRELOCK == {NULL}
           \cup [tskid : TSK, newbpri : TPRI]
           \cup [dtqid : DTQ, data : DATA]

(* A TCB, with what its task keeps on its stack while it waits: the WINFO, *)
(* the object it waits for, and insvc, that it is suspended in dispatch()  *)
(* inside a service call whose frame holds them.  lastmtx is the list from *)
(* p_lastmtx through the p_prevmtx pointers.                               *)
TCB == [tstat     : SUBSET (TS_WAITING_MASK \cup {"RUNNABLE", "SUSPENDED"}),
        bpriority : TPRI,
        priority  : TPRI,
        actque    : BOOLEAN,
        wupque    : BOOLEAN,
        raster    : BOOLEAN,
        enater    : BOOLEAN,
        lastmtx   : Seq(MTX),
        winfo     : WINFO,
        p_wobjcb  : WOBJ \cup {NULL},
        wobjdata  : WOBJDATA,
        prelock   : PRELOCK,
        insvc     : BOOLEAN]

TSKATR  == SUBSET {"TA_ACT", "TA_NOACTQUE", "TA_NOEXS"}
WOBJATR == SUBSET {"TA_TPRI", "TA_CEILING", "TA_WMUL", "TA_CLR", "TA_NOEXS"}
TMEVT   == {"none", "wait_tmout", "wait_tmout_ok"}

(* The two indices that are no block of a memory pool (mempfix.c).         *)
INDEX_NULL  == -1
INDEX_ALLOC == -2

(* The control blocks of the objects, with the numbers of their            *)
(* initialization blocks and the memory they manage.                       *)
SEMCB == [semcnt : Nat, isemcnt : Nat, maxsem : Nat]
FLGCB == [flgptn : SUBSET FLGBIT, iflgptn : SUBSET FLGBIT]
DTQCB == [dtqcnt : Nat, p_dtqmb : Seq(DATA \cup {NULL}),
          count : Nat, head : Nat, tail : Nat]
PDQMB == [p_next : Nat \cup {NULL}, data : DATA \cup {NULL}, datapri : Nat]
PDQCB == [pdqcnt : Nat, maxdpri : DPRI, p_pdqmb : Seq(PDQMB), count : Nat,
          p_head : Nat \cup {NULL}, unused : Nat, p_freelist : Nat \cup {NULL}]
MPFCB == [blkcnt : Nat, p_mpfmb : Seq(Nat \cup {INDEX_NULL, INDEX_ALLOC}),
          fblkcnt : Nat, unused : Nat, freelist : Nat \cup {INDEX_NULL}]

(* The kinds of objects other than mutexes, each with its list of control  *)
(* blocks without an object.                                               *)
OBJKIND == {"SEM", "FLG", "DTQ", "PDQ", "MPF"}

(* The kernel state.  tmevtb[t] is the callback of the time event that     *)
(* task t has registered, or "none".  The receivers of a data queue have a *)
(* queue of their own.  out is what the call of the last step has returned *)
(* through its pointer p_flgptn, p_data or p_blk, and of which object.     *)
KState == [tcb          : [TSK -> TCB],
           tinib        : [TSK -> [tskatr : TSKATR, ipriority : TPRI]],
           free_tcb     : Seq(TSK),
           wobj         : [WOBJ -> [wait_queue  : Seq(TSK),
                                    rwait_queue : Seq(TSK),
                                    wobjatr     : WOBJATR]],
           sem          : [SEM -> SEMCB],
           flg          : [FLG -> FLGCB],
           dtq          : [DTQ -> DTQCB],
           pdq          : [PDQ -> PDQCB],
           mpf          : [MPF -> MPFCB],
           free_cb      : [OBJKIND -> Seq(WOBJ)],
           mtx          : [MTX -> [p_loctsk : TSK \cup {NULL}, ceilpri : TPRI]],
           free_mtxcb   : Seq(MTX),
           ready_queue  : [TPRI -> Seq(TSK)],
           ready_primap : SUBSET TPRI,
           p_schedtsk   : TSK \cup {NULL},
           p_runtsk     : TSK \cup {NULL},
           enadsp       : BOOLEAN,
           dspflg       : BOOLEAN,
           ipm          : BOOLEAN,
           tmevtb       : [TSK -> TMEVT],
           out          : {NULL} \cup [from : WOBJ, what : WOBJDATA]]

-----------------------------------------------------------------------------
(* Queues (include/queue.h, and queue_insert_tpri of kernel/wait.h).       *)

queue_insert_prev(q, t) == Append(q, t)
queue_insert_next(q, t) == Cons(t, q)
queue_delete(q, t)      == RemoveFirst(q, t)

queue_insert_tpri(s, q, t) ==
    LET lower == SelectInSeq(q, LAMBDA e : s.tcb[t].priority < s.tcb[e].priority)
    IN  IF lower = 0 THEN Append(q, t) ELSE InsertAt(q, lower, t)

-----------------------------------------------------------------------------
(* The scheduler.                                                          *)

primap_search(s) == Min(s.ready_primap)

search_schedtsk(s) == Head(s.ready_queue[primap_search(s)])

(* Faulty variant: chooses a task while dispatching is disabled.           *)
make_runnable_ignores_dspflg(s, t) ==
    LET pri     == s.tcb[t].priority
        preempt == \/ s.p_schedtsk = NULL
                   \/ pri < s.tcb[s.p_schedtsk].priority
    IN  [s EXCEPT !.ready_queue[pri] = queue_insert_prev(@, t),
                  !.ready_primap     = @ \cup {pri},
                  !.p_schedtsk       = IF preempt THEN t ELSE @]

make_runnable(s, t) ==
    LET pri     == s.tcb[t].priority
        preempt == \/ s.p_schedtsk = NULL
                   \/ pri < s.tcb[s.p_schedtsk].priority
    IN  [s EXCEPT !.ready_queue[pri] = queue_insert_prev(@, t),
                  !.ready_primap     = @ \cup {pri},
                  !.p_schedtsk       = IF s.dspflg /\ preempt THEN t ELSE @]

(* Faulty variant: clears the bitmap only for the task in p_schedtsk.      *)
make_non_runnable_stale_primap(s, t) ==
    LET pri  == s.tcb[t].priority
        rest == queue_delete(s.ready_queue[pri], t)
        del  == [s EXCEPT !.ready_queue[pri] = rest]
        clr  == [del EXCEPT !.ready_primap = IF rest = <<>> THEN @ \ {pri} ELSE @]
        next == IF rest # <<>> THEN Head(rest)
                ELSE IF clr.ready_primap = {} THEN NULL
                ELSE search_schedtsk(clr)
    IN  IF s.p_schedtsk = t THEN [clr EXCEPT !.p_schedtsk = next] ELSE del

make_non_runnable(s, t) ==
    LET pri  == s.tcb[t].priority
        rest == queue_delete(s.ready_queue[pri], t)
        del  == [s EXCEPT
                   !.ready_queue[pri] = rest,
                   !.ready_primap     = IF rest = <<>> THEN @ \ {pri} ELSE @]
        next == IF rest # <<>> THEN Head(rest)
                ELSE IF del.ready_primap = {} THEN NULL
                ELSE search_schedtsk(del)
    IN  IF s.p_schedtsk = t THEN [del EXCEPT !.p_schedtsk = next] ELSE del

(* The stack of a dormant task is dead, and with it the wait frame.        *)
make_dormant(s, t) ==
    LET ipriority == s.tinib[t].ipriority
    IN  [s EXCEPT !.tcb[t] = [@ EXCEPT !.tstat     = TS_DORMANT,
                                       !.bpriority = ipriority,
                                       !.priority  = ipriority,
                                       !.wupque    = FALSE,
                                       !.raster    = FALSE,
                                       !.enater    = TRUE,
                                       !.winfo     = "no_tmevtb",
                                       !.p_wobjcb  = NULL,
                                       !.wobjdata  = NULL,
                                       !.prelock   = NULL,
                                       !.insvc     = FALSE]]

make_active(s, t) ==
    make_runnable([s EXCEPT !.tcb[t].tstat = TS_RUNNABLE], t)

(* Faulty variant: leaves a waiting task where it was in the wait queue.   *)
wobj_change_priority_in_place(s, w, t) == s

wobj_change_priority(s, w, t) ==
    IF "TA_TPRI" \in s.wobj[w].wobjatr
    THEN [s EXCEPT !.wobj[w].wait_queue =
                       queue_insert_tpri(s, queue_delete(@, t), t)]
    ELSE s

change_priority(s, t, newpri, mtxmode) ==
    LET oldpri == s.tcb[t].priority
        set    == [s EXCEPT !.tcb[t].priority = newpri]
        rest   == queue_delete(s.ready_queue[oldpri], t)
        del    == [set EXCEPT
                     !.ready_queue[oldpri] = rest,
                     !.ready_primap = IF rest = <<>> THEN @ \ {oldpri} ELSE @]
        moved  == [del EXCEPT
                     !.ready_queue[newpri] = IF mtxmode
                                             THEN queue_insert_next(@, t)
                                             ELSE queue_insert_prev(@, t),
                     !.ready_primap = @ \cup {newpri}]
        sched  == IF s.p_schedtsk = t
                  THEN IF newpri >= oldpri THEN search_schedtsk(moved) ELSE t
                  ELSE IF \/ newpri < s.tcb[s.p_schedtsk].priority
                          \/ mtxmode /\ newpri = s.tcb[s.p_schedtsk].priority
                       THEN t ELSE s.p_schedtsk
    IN  IF TSTAT_RUNNABLE(s.tcb[t].tstat)
        THEN IF s.dspflg THEN [moved EXCEPT !.p_schedtsk = sched] ELSE moved
        ELSE IF TSTAT_WAIT_WOBJCB(s.tcb[t].tstat)
        THEN wobj_change_priority(set, s.tcb[t].p_wobjcb, t)
        ELSE set

(* Faulty variant: does not pass the processor on.                         *)
rotate_ready_queue_keeps_schedtsk(s, pri) ==
    LET q == s.ready_queue[pri]
    IN  IF Len(q) < 2 THEN s
        ELSE [s EXCEPT !.ready_queue[pri] = Append(Tail(q), Head(q))]

rotate_ready_queue(s, pri) ==
    LET q       == s.ready_queue[pri]
        rotated == Append(Tail(q), Head(q))
    IN  IF Len(q) < 2 THEN s
        ELSE [s EXCEPT !.ready_queue[pri] = rotated,
                       !.p_schedtsk = IF s.dspflg /\ @ = Head(q)
                                      THEN Head(rotated) ELSE @]

=============================================================================
