---------------------------- MODULE KernelState ----------------------------
(***************************************************************************)
(* The variables of the kernel, the two execution contexts, and the        *)
(* dispatcher of arch/arm_gcc/common/core_support.S.                       *)
(*                                                                         *)
(* A service call runs with the CPU locked from its first test of an       *)
(* object to its last update, so it is one action: Become(f(Cur)), where f *)
(* composes the operators of MutexOps.  A call that a CHECK_ macro or an   *)
(* error code turns away changes nothing and is no action.                 *)
(***************************************************************************)
EXTENDS MutexOps

CONSTANT CONFIG   \* each application's configuration, by its name (see Kernel)

VARIABLES
    app,            \* the application the kernel is built with; never changes
    tcb,            \* task control blocks
    tinib,          \* task initialization blocks
    free_tcb,       \* TCBs without a task
    wobj,           \* common part of the object control blocks
    mtx,            \* mutex control blocks
    free_mtxcb,     \* MTXCBs without a mutex
    sem,            \* semaphore control blocks
    flg,            \* event flag control blocks
    dtq,            \* data queue control blocks
    pdq,            \* priority data queue control blocks
    mpf,            \* memory pool control blocks
    free_cb,        \* for each kind of object, the control blocks without one
    ready_queue,    \* one queue of runnable tasks per priority
    ready_primap,   \* the priorities whose queue is not empty
    p_schedtsk,     \* the task that should run
    p_runtsk,       \* the task that runs
    enadsp,         \* dispatching enabled (dis_dsp, ena_dsp)
    dspflg,         \* a dispatch may happen
    ipm,            \* the interrupt priority mask is above TIPM_ENAALL
    tmevtb,         \* the time event of each waiting task
    out,            \* what the last call returned through its pointer
    excpt,          \* an interrupt handler runs (excpt_nest_count > 0)
    lock_flag       \* the task in p_runtsk has locked the CPU (loc_cpu)

kvars == <<tcb, tinib, free_tcb, wobj, mtx, free_mtxcb, sem, flg, dtq, pdq,
           mpf, free_cb, ready_queue, ready_primap, p_schedtsk, p_runtsk,
           enadsp, dspflg, ipm, tmevtb, out, app>>
vars  == <<kvars, excpt, lock_flag>>

(* What the configurator makes of the application.                         *)
torder_table == CONFIG[app].torder_table
dynamic_tsk  == CONFIG[app].dynamic_tsk
dynamic_mtx  == CONFIG[app].dynamic_mtx
dynamic_obj  == CONFIG[app].dynamic_obj
tinib_table  == CONFIG[app].tinib_table
wobj_inib    == CONFIG[app].wobj_inib
ceilpri_inib == CONFIG[app].ceilpri_inib
seminib      == CONFIG[app].seminib
flginib      == CONFIG[app].flginib
dtqinib      == CONFIG[app].dtqinib
pdqinib      == CONFIG[app].pdqinib
mpfinib      == CONFIG[app].mpfinib

(* The service calls its tasks and interrupt handlers make.                *)
TSKCALLS == CONFIG[app].tskcalls
INTCALLS == CONFIG[app].intcalls

(* The kernel state the operators work on, and its replacement.  A call    *)
(* begins with nothing returned.                                           *)
Cur == [tcb          |-> tcb,
        tinib        |-> tinib,
        free_tcb     |-> free_tcb,
        wobj         |-> wobj,
        mtx          |-> mtx,
        free_mtxcb   |-> free_mtxcb,
        sem          |-> sem,
        flg          |-> flg,
        dtq          |-> dtq,
        pdq          |-> pdq,
        mpf          |-> mpf,
        free_cb      |-> free_cb,
        ready_queue  |-> ready_queue,
        ready_primap |-> ready_primap,
        p_schedtsk   |-> p_schedtsk,
        p_runtsk     |-> p_runtsk,
        enadsp       |-> enadsp,
        dspflg       |-> dspflg,
        ipm          |-> ipm,
        tmevtb       |-> tmevtb,
        out          |-> NULL]

Become(s) ==
    /\ tcb'          = s.tcb
    /\ tinib'        = s.tinib
    /\ free_tcb'     = s.free_tcb
    /\ wobj'         = s.wobj
    /\ mtx'          = s.mtx
    /\ free_mtxcb'   = s.free_mtxcb
    /\ sem'          = s.sem
    /\ flg'          = s.flg
    /\ dtq'          = s.dtq
    /\ pdq'          = s.pdq
    /\ mpf'          = s.mpf
    /\ free_cb'      = s.free_cb
    /\ ready_queue'  = s.ready_queue
    /\ ready_primap' = s.ready_primap
    /\ p_schedtsk'   = s.p_schedtsk
    /\ p_runtsk'     = s.p_runtsk
    /\ enadsp'       = s.enadsp
    /\ dspflg'       = s.dspflg
    /\ ipm'          = s.ipm
    /\ tmevtb'       = s.tmevtb
    /\ out'          = s.out
    /\ app'          = app

-----------------------------------------------------------------------------
(* Contexts.                                                               *)

(* The running task is back from dispatch() in a waiting service call; the *)
(* CPU stays locked until it has read its error code and left the call.    *)
LeavingWait == p_runtsk # NULL /\ tcb[p_runtsk].insvc

(* The running task has begun a service call and read what it reads before *)
(* it locks the CPU: the only place in a call where an interrupt handler,  *)
(* and through it other tasks, come in between.                            *)
BeforeLock == p_runtsk # NULL /\ tcb[p_runtsk].prelock # NULL

(* CHECK_TSKCTX_UNL: task context, CPU not locked.                         *)
TskCtxUnl(call) ==
    /\ call \in TSKCALLS
    /\ p_runtsk # NULL
    /\ ~excpt
    /\ ~lock_flag
    /\ ~LeavingWait
    /\ ~BeforeLock

(* CHECK_DISPATCH: and dispatching is possible.                            *)
Dispatchable(call) == TskCtxUnl(call) /\ dspflg

(* CHECK_UNL: either context, CPU not locked.                              *)
Unl(call) ==
    \/ TskCtxUnl(call)
    \/ excpt /\ call \in INTCALLS

-----------------------------------------------------------------------------
(* The dispatcher.                                                         *)

dispatcher(s) == [s EXCEPT !.p_runtsk = s.p_schedtsk]

dispatch(s) == IF s.p_runtsk # s.p_schedtsk THEN dispatcher(s) ELSE s

(* dispatch() from a task; from an interrupt handler request_dispatch(),   *)
(* which leaves the switch to the exit of the handler.                     *)
dispatch_or_request(s) == IF excpt THEN s ELSE dispatch(s)

UnchangedContext == UNCHANGED <<excpt, lock_flag>>

-----------------------------------------------------------------------------

TaskExists(t) == "TA_NOEXS" \notin tinib[t].tskatr

ObjectExists(w) == "TA_NOEXS" \notin wobj[w].wobjatr

(* Creation and deletion of an object: its control block comes from the    *)
(* head of the list of its kind and goes back to the end.                  *)
new_wobj(atr) == [wait_queue |-> <<>>, rwait_queue |-> <<>>, wobjatr |-> atr]

(* Call name by the running task can create an object of kind.             *)
CanCreate(call, kind) == TskCtxUnl(call) /\ free_cb[kind] # <<>>

create_wobj(kind, atr) ==
    [Cur EXCEPT !.free_cb[kind] = Tail(@),
                !.wobj[Head(free_cb[kind])] = new_wobj(atr)]

CanDelete(call, kind, w) ==
    TskCtxUnl(call) /\ ObjectExists(w) /\ w \in ToSet(dynamic_obj[kind])

(* Faulty variants: the control block is lost; the tasks that wait to      *)
(* receive are forgotten.                                                  *)
delete_wobj_loses_cb(kind, w) ==
    [init_wait_queues(Cur, w) EXCEPT !.wobj[w].wobjatr = {"TA_NOEXS"}]

delete_wobj_forgets_receivers(kind, w) ==
    [init_wait_queue(Cur, w, "wait_queue") EXCEPT
        !.wobj[w].wobjatr = {"TA_NOEXS"},
        !.free_cb[kind]   = queue_insert_prev(@, w)]

delete_wobj(kind, w) ==
    [init_wait_queues(Cur, w) EXCEPT !.wobj[w].wobjatr = {"TA_NOEXS"},
                                     !.free_cb[kind] = queue_insert_prev(@, w)]

(* A waiting call of the running task on object w is not turned away.      *)
MayWait(call, w) ==
    /\ Dispatchable(call)
    /\ ObjectExists(w)
    /\ ~tcb[p_runtsk].raster

=============================================================================
