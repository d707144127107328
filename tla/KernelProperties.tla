-------------------------- MODULE KernelProperties --------------------------
(***************************************************************************)
(* What makes the kernel's scheduling, waiting, locking and termination    *)
(* correct: invariants relating its data structures to each other, and     *)
(* action properties of its steps.                                         *)
(***************************************************************************)
EXTENDS Kernel

Runnable(t)  == TSTAT_RUNNABLE(tcb[t].tstat)
Waiting(t)   == TSTAT_WAITING(tcb[t].tstat)
WaitsOn(t,w) == TSTAT_WAIT_WOBJ(tcb[t].tstat) /\ tcb[t].p_wobjcb = w

(* The application makes one of the calls.                                 *)
Makes(calls) == (TSKCALLS \cup INTCALLS) \cap calls # {}

NoDuplicates(q) == \A i, j \in DOMAIN q : q[i] = q[j] => i = j

(* Every kernel variable holds a value of its C type.                      *)
TypeOK ==
    /\ Cur \in KState
    /\ excpt \in BOOLEAN
    /\ lock_flag \in BOOLEAN

-----------------------------------------------------------------------------
(* Scheduling.                                                             *)

(* The ready queue of a priority holds exactly the runnable tasks of that  *)
(* current priority, each once, and the bitmap exactly the priorities with *)
(* a task (task.c: make_runnable, make_non_runnable, change_priority).     *)
ReadyQueueOK ==
    /\ \A p \in TPRI :
          /\ NoDuplicates(ready_queue[p])
          /\ ToSet(ready_queue[p]) = {t \in TSK : Runnable(t) /\ tcb[t].priority = p}
    /\ ready_primap = {p \in TPRI : ready_queue[p] # <<>>}

(* While dispatching is enabled p_schedtsk, which every operation updates  *)
(* incrementally, is the task a search of the ready queue would find; while*)
(* it is disabled it stays on the running task.                            *)
SchedtskOK ==
    IF dspflg
    THEN p_schedtsk = IF ready_primap = {} THEN NULL ELSE search_schedtsk(Cur)
    ELSE p_schedtsk = p_runtsk

(* In task context the task that runs is the task that should run          *)
(* (task.h: p_runtsk is normally p_schedtsk; the assert after              *)
(* mutex_acquire in loc_mtx, ploc_mtx and tloc_mtx).                       *)
RunsSchedtsk == ~excpt => p_runtsk = p_schedtsk

(* dspflg caches "dispatching enabled and all interrupts unmasked", and a  *)
(* task that disabled dispatching is running and stays runnable.           *)
DispatchFlagOK ==
    /\ dspflg <=> enadsp /\ ~ipm
    /\ ~dspflg => p_runtsk # NULL /\ Runnable(p_runtsk)

(* What the scheduler keeps incrementally is what a search would find, and *)
(* what it finds is what runs.                                             *)
SchedulerOK == ReadyQueueOK /\ SchedtskOK /\ DispatchFlagOK /\ RunsSchedtsk

(* While dispatching is disabled the processor is not taken from the task  *)
(* that disabled it, whatever other tasks or interrupt handlers do.        *)
NoSwitchWhileDisabled ==
    [][~dspflg /\ ~dspflg' => p_runtsk' = p_runtsk]_vars

-----------------------------------------------------------------------------
(* Creation.                                                               *)

(* A TCB is in the list of free TCBs exactly while its task does not       *)
(* exist, and then no queue, mutex or time event refers to it; the same    *)
(* for mutexes (task_manage.c: acre_tsk, del_tsk; mutex.c: acre_mtx,       *)
(* del_mtx).                                                               *)
FreeListsOK ==
    /\ NoDuplicates(free_tcb)
    /\ ToSet(free_tcb) = {t \in ToSet(dynamic_tsk) : ~TaskExists(t)}
    /\ NoDuplicates(free_mtxcb)
    /\ ToSet(free_mtxcb) = {m \in ToSet(dynamic_mtx) : ~ObjectExists(m)}
    /\ \A t \in TSK : ~TaskExists(t) =>
          /\ TSTAT_DORMANT(tcb[t].tstat)
          /\ ~tcb[t].actque
          /\ tmevtb[t] = "none"
          /\ \A m \in MTX : ObjectExists(m) => mtx[m].p_loctsk # t

(* get_tst answers E_NOEXS for a task that does not exist (the error code  *)
(* its first branch sets).                                                 *)
GetTstReportsMissing ==
    \A t \in TSK : ~TaskExists(t) => get_tst(t).ercd = "E_NOEXS"

(* A task that locks a mutex is still the task that should run (the assert *)
(* after mutex_acquire in loc_mtx, ploc_mtx and tloc_mtx).                 *)
LockerStaysScheduled ==
    [][\A m \in MTX :
          mtx[m].p_loctsk = NULL /\ mtx'[m].p_loctsk # NULL =>
             p_schedtsk' = p_runtsk']_vars

-----------------------------------------------------------------------------
(* Waiting.                                                                *)

(* A wait queue holds exactly the tasks in the waiting state for its       *)
(* object, the queue of receivers those that wait to receive, each once,   *)
(* and by priority if the object has TA_TPRI, also after the priority of a *)
(* waiting task changed (wait.h).                                          *)
WaitQueueOK ==
    \A w \in WOBJ : LET q == wobj[w].wait_queue
                        r == wobj[w].rwait_queue
                        receiving(t) == tcb[t].tstat \cap {"RDTQ", "RPDQ"} # {}
                    IN  /\ NoDuplicates(q) /\ NoDuplicates(r)
                        /\ ToSet(q) = {t \in TSK : WaitsOn(t, w) /\ ~receiving(t)}
                        /\ ToSet(r) = {t \in TSK : WaitsOn(t, w) /\ receiving(t)}
                        /\ "TA_TPRI" \in wobj[w].wobjatr =>
                              \A i, j \in DOMAIN q : i < j =>
                                 tcb[q[i]].priority <= tcb[q[j]].priority

(* The WINFO of a task is a union: while the task waits it says whether a  *)
(* time event is registered, and once the wait is over it is an error code *)
(* of that wait.  The time event, which is on the stack of the task, is    *)
(* registered only while the task waits.                                   *)
WaitInfoOK ==
    \A t \in TSK :
       /\ (tmevtb[t] # "none") <=> (Waiting(t) /\ tcb[t].winfo = "tmevtb")
       /\ Waiting(t) => tcb[t].winfo \in {"tmevtb", "no_tmevtb"}
       /\ tcb[t].insvc /\ ~Waiting(t) => tcb[t].winfo \in WERCD
       /\ Waiting(t) => tcb[t].insvc
       /\ "DLY" \in tcb[t].tstat => tmevtb[t] = "wait_tmout_ok"

(* A task that is requested to terminate is runnable, so that it comes to  *)
(* allow it, and once it allows termination only a disabled dispatch       *)
(* delays it (task_term.c: ras_ter, ena_ter; sys_manage.c: ena_dsp).       *)
TerminationRequestOK ==
    \A t \in TSK : tcb[t].raster =>
       /\ Runnable(t)
       /\ tcb[t].enater => ~dspflg /\ t = p_runtsk

-----------------------------------------------------------------------------
(* Mutexes.                                                                *)

(* The list of mutexes of a task and the owners of the mutexes agree, and  *)
(* a mutex without an owner has no waiters: no wakeup is lost.             *)
MutexOK ==
    /\ \A t \in TSK :
          /\ NoDuplicates(tcb[t].lastmtx)
          /\ held_mtx(Cur, t) =
                {m \in MTX : ObjectExists(m) /\ mtx[m].p_loctsk = t}
          /\ TSTAT_DORMANT(tcb[t].tstat) => tcb[t].lastmtx = <<>>
    /\ \A m \in MTX :
          mtx[m].p_loctsk = NULL \/ ~ObjectExists(m) => wobj[m].wait_queue = <<>>

(* Priority ceiling protocol: the current priority of a task is the higher *)
(* of its base priority and the ceilings it holds, and no base priority is *)
(* above the ceiling of a mutex the task holds or waits for.               *)
CeilingOK ==
    \A t \in TSK : ~TSTAT_DORMANT(tcb[t].tstat) =>
       /\ tcb[t].priority = mutex_calc_priority(Cur, t)
       /\ mutex_check_ceilpri(Cur, t, tcb[t].bpriority)

(* A mutex changes hands only from a free mutex to the running task, or to *)
(* the first task of its wait queue; and a task whose wait for a mutex     *)
(* ends, other than by its termination, gets E_OK exactly if it now owns   *)
(* the mutex.                                                              *)
MutexHandover ==
    [][/\ \A m \in MTX :
             mtx'[m].p_loctsk \notin {NULL, mtx[m].p_loctsk} =>
                IF wobj[m].wait_queue = <<>>
                THEN mtx[m].p_loctsk = NULL \/ ~ObjectExists(m)
                ELSE mtx'[m].p_loctsk = Head(wobj[m].wait_queue)
       /\ \A t \in TSK :
             TSTAT_WAIT_MTX(tcb[t].tstat) /\ ~TSTAT_WAITING(tcb'[t].tstat) /\ tcb'[t].insvc =>
                (tcb'[t].winfo = "E_OK"
                    <=> mtx'[tcb[t].p_wobjcb].p_loctsk = t)]_vars

(* A running task that stays runnable loses the processor only to a task   *)
(* of higher priority: what a task gains from a priority ceiling and loses *)
(* again costs it no precedence among tasks of its own priority, if the    *)
(* application neither rotates the ready queue nor changes base            *)
(* priorities.                                                             *)
PreemptedByHigher ==
    [][\A a, b \in TSK :
          /\ ~Makes({"rot_rdq", "chg_pri", "chg_pri_ini"})
          /\ p_runtsk = a /\ p_runtsk' = b /\ a # b
          /\ TSTAT_RUNNABLE(tcb'[a].tstat)
          => tcb'[b].priority < tcb'[a].priority]_vars

(* With the priority ceiling protocol no task ever waits for a mutex, if    *)
(* all mutexes are TA_CEILING and a task that holds one neither waits for   *)
(* anything else, nor is suspended, nor gives way to its equals.            *)
CeilingNeverBlocks ==
    /\ ~Makes({"slp_tsk", "tslp_tsk", "dly_tsk", "sus_tsk", "rot_rdq", "chg_pri"})
    /\ \A m \in MTX : ObjectExists(m) => MTX_CEILING(Cur, m)
    => \A m \in MTX : wobj[m].wait_queue = <<>>

(* The mutexes of the kernel implement the lock service.                    *)
Locks == INSTANCE LockService WITH
            Client  <- TSK,
            Lock    <- MTX,
            NoOne   <- NULL,
            owner   <- [m \in MTX |-> IF ObjectExists(m) THEN mtx[m].p_loctsk ELSE NULL],
            waiters <- [m \in MTX |-> ToSet(wobj[m].wait_queue)]

ImplementsLockService == Locks!Spec

-----------------------------------------------------------------------------
(* Liveness.                                                               *)

(* A timer interrupt stays pending until the CPU takes it, the handlers    *)
(* end, a due time event is served by signal_time, and a task that is      *)
(* dispatched leaves its service call.                                     *)
FairInterrupts ==
    /\ SF_vars(int_entry)
    /\ WF_vars(int_exit)
    /\ WF_vars(wait_return)
    /\ \A t \in TSK : SF_vars(timeout(t))

FairSpec == Spec /\ FairInterrupts

(* Every wait with a time limit ends: its time event is served or taken    *)
(* back (task_sync.c: tslp_tsk, dly_tsk; mutex.c: tloc_mtx).               *)
TimedWaitEnds == \A t \in TSK : tmevtb[t] # "none" ~> tmevtb[t] = "none"

=============================================================================
