------------------------------- MODULE Kernel -------------------------------
(***************************************************************************)
(* The kernel: its tasks, objects and interrupt handlers together.         *)
(*                                                                         *)
(* An application is every sequence of its calls by the running task and   *)
(* by interrupt handlers.                                                  *)
(***************************************************************************)
EXTENDS TaskManage, TaskTerm, TaskSync, Mutex, SysManage,
        Semaphore, EventFlag, DataQueue, PriDataQueue, MemPool

(* The configuration of an application: its static tasks, in the order they *)
(* are initialized, and objects; the ids acre_ calls may give out, in the   *)
(* order of the control blocks; the calls it makes and their parameters.    *)
(* The configurator lists no id twice and gives each object a control block *)
(* of its kind.  An id that is in no list is none of the application.       *)
IsConfig(c) ==
    /\ c.torder_table \in Seq(TSK) /\ IsInjective(c.torder_table)
    /\ c.dynamic_tsk \in Seq(TSK) /\ IsInjective(c.dynamic_tsk)
    /\ ToSet(c.torder_table) \cap ToSet(c.dynamic_tsk) = {}
    /\ c.tinib_table \in [ToSet(c.torder_table) ->
                            [tskatr : SUBSET {"TA_ACT", "TA_NOACTQUE"}, ipriority : TPRI]]
    /\ c.dynamic_mtx \in Seq(MTX) /\ IsInjective(c.dynamic_mtx)
    /\ c.dynamic_obj \in [SEM : Seq(SEM), FLG : Seq(FLG), DTQ : Seq(DTQ),
                          PDQ : Seq(PDQ), MPF : Seq(MPF)]
    /\ \A k \in OBJKIND : IsInjective(c.dynamic_obj[k])
    /\ DOMAIN c.wobj_inib \subseteq WOBJ
          \ (ToSet(c.dynamic_mtx) \cup UNION {ToSet(c.dynamic_obj[k]) : k \in OBJKIND})
    /\ c.wobj_inib \in [DOMAIN c.wobj_inib -> {a \in WOBJATR : "TA_NOEXS" \notin a}]
    /\ c.ceilpri_inib \in [MTX \cap DOMAIN c.wobj_inib -> TPRI]
    /\ c.seminib \in [SEM \cap DOMAIN c.wobj_inib -> [isemcnt : Nat, maxsem : Nat]]
    /\ \A w \in DOMAIN c.seminib : c.seminib[w].isemcnt <= c.seminib[w].maxsem
    /\ c.flginib \in [FLG \cap DOMAIN c.wobj_inib -> SUBSET FLGBIT]
    /\ c.dtqinib \in [DTQ \cap DOMAIN c.wobj_inib -> Nat]
    /\ c.pdqinib \in [PDQ \cap DOMAIN c.wobj_inib -> [pdqcnt : Nat, maxdpri : DPRI]]
    /\ c.mpfinib \in [MPF \cap DOMAIN c.wobj_inib -> Nat \ {0}]
    /\ c.acre_tsk \subseteq
          [tskatr : SUBSET {"TA_ACT", "TA_NOACTQUE"}, ipriority : TPRI]
    /\ c.tskpri \subseteq TPRI /\ c.datpri \subseteq DPRI
    /\ c.data \subseteq DATA /\ c.flgptn \subseteq SUBSET FLGBIT
    /\ c.maxcnt \in Nat

ASSUME KernelAssumption == \A a \in DOMAIN CONFIG : IsConfig(CONFIG[a])

-----------------------------------------------------------------------------
(* Start of the kernel.                                                    *)

zero_tcb == [tstat |-> TS_DORMANT, bpriority |-> 0, priority |-> 0,
             actque |-> FALSE, wupque |-> FALSE, raster |-> FALSE,
             enater |-> FALSE, lastmtx |-> <<>>, winfo |-> "no_tmevtb",
             p_wobjcb |-> NULL, wobjdata |-> NULL, prelock |-> NULL,
             insvc |-> FALSE]

unused_tinib == [tskatr |-> {"TA_NOEXS"}, ipriority |-> 0]

zero_state ==
    [tcb          |-> [t \in TSK |-> zero_tcb],
     tinib        |-> [t \in TSK |-> IF t \in ToSet(torder_table)
                                     THEN tinib_table[t] ELSE unused_tinib],
     free_tcb     |-> dynamic_tsk,
     wobj         |-> [w \in WOBJ |->
                         new_wobj(IF w \in DOMAIN wobj_inib
                                  THEN wobj_inib[w] ELSE {"TA_NOEXS"})],
     mtx          |-> [m \in MTX |->
                         [p_loctsk |-> NULL,
                          ceilpri  |-> IF m \in DOMAIN ceilpri_inib
                                       THEN ceilpri_inib[m] ELSE 0]],
     free_mtxcb   |-> dynamic_mtx,
     sem          |-> [w \in SEM |->
                         IF w \in DOMAIN seminib
                         THEN [semcnt  |-> seminib[w].isemcnt,
                               isemcnt |-> seminib[w].isemcnt,
                               maxsem  |-> seminib[w].maxsem]
                         ELSE [semcnt |-> 0, isemcnt |-> 0, maxsem |-> 0]],
     flg          |-> [w \in FLG |->
                         IF w \in DOMAIN flginib
                         THEN [flgptn |-> flginib[w], iflgptn |-> flginib[w]]
                         ELSE [flgptn |-> {}, iflgptn |-> {}]],
     dtq          |-> [w \in DTQ |->
                         new_dtqcb(IF w \in DOMAIN dtqinib THEN dtqinib[w] ELSE 0)],
     pdq          |-> [w \in PDQ |->
                         IF w \in DOMAIN pdqinib
                         THEN new_pdqcb(pdqinib[w].pdqcnt, pdqinib[w].maxdpri)
                         ELSE new_pdqcb(0, 1)],
     mpf          |-> [w \in MPF |->
                         new_mpfcb(IF w \in DOMAIN mpfinib THEN mpfinib[w] ELSE 0)],
     free_cb      |-> dynamic_obj,
     ready_queue  |-> [p \in TPRI |-> <<>>],
     ready_primap |-> {},
     p_schedtsk   |-> NULL,
     p_runtsk     |-> NULL,
     enadsp       |-> TRUE,
     dspflg       |-> TRUE,
     ipm          |-> FALSE,
     tmevtb       |-> [t \in TSK |-> "none"],
     out          |-> NULL]

initialize_task ==
    LET static(s, t) == LET d == make_dormant(s, t)
                        IN  IF "TA_ACT" \in s.tinib[t].tskatr
                            THEN make_active(d, t) ELSE d
        after[n \in 0 .. Len(torder_table)] ==
            IF n = 0 THEN zero_state ELSE static(after[n - 1], torder_table[n])
    IN  after[Len(torder_table)]

(* sta_ker ends in start_dispatch, with the first task in p_runtsk.        *)
sta_ker == dispatcher(initialize_task)

Init ==
    /\ app \in DOMAIN CONFIG
    /\ tcb = sta_ker.tcb                   /\ tinib = sta_ker.tinib
    /\ free_tcb = sta_ker.free_tcb         /\ wobj = sta_ker.wobj
    /\ mtx = sta_ker.mtx                   /\ free_mtxcb = sta_ker.free_mtxcb
    /\ sem = sta_ker.sem                   /\ flg = sta_ker.flg
    /\ dtq = sta_ker.dtq                   /\ pdq = sta_ker.pdq
    /\ mpf = sta_ker.mpf                   /\ free_cb = sta_ker.free_cb
    /\ ready_queue = sta_ker.ready_queue   /\ ready_primap = sta_ker.ready_primap
    /\ p_schedtsk = sta_ker.p_schedtsk     /\ p_runtsk = sta_ker.p_runtsk
    /\ enadsp = sta_ker.enadsp             /\ dspflg = sta_ker.dspflg
    /\ ipm = sta_ker.ipm                   /\ tmevtb = sta_ker.tmevtb
    /\ out = sta_ker.out
    /\ excpt = FALSE                       /\ lock_flag = FALSE

-----------------------------------------------------------------------------
(* Interrupts.  Nested handlers are one: only the exit of the outermost    *)
(* one dispatches.                                                         *)

int_entry ==
    /\ ~excpt
    /\ ~lock_flag
    /\ ~LeavingWait
    /\ excpt' = TRUE
    /\ UNCHANGED <<kvars, lock_flag>>

int_exit ==
    /\ excpt
    /\ excpt' = FALSE
    /\ Become(dispatch(Cur))
    /\ UNCHANGED lock_flag

(* signal_time, in the handler of the timer interrupt, has taken the time  *)
(* event of task t out of the heap and calls its callback.                 *)
timeout(t) ==
    LET s == [Cur EXCEPT !.tmevtb[t] = "none"]
    IN  /\ excpt
        /\ tmevtb[t] # "none"
        /\ Become(IF tmevtb[t] = "wait_tmout" THEN wait_tmout(s, t)
                  ELSE wait_tmout_ok(s, t))
        /\ UnchangedContext

(* Faulty variant: the task leaves the call with the CPU still locked.     *)
wait_return_locked ==
    /\ ~excpt
    /\ LeavingWait
    /\ Become([Cur EXCEPT !.tcb[p_runtsk] =
                  [@ EXCEPT !.winfo = "no_tmevtb", !.p_wobjcb = NULL,
                            !.wobjdata = NULL]])
    /\ UnchangedContext

(* A task that was in a wait returns from its service call with winfo, and *)
(* with what it was given if that is E_OK.                                 *)
wait_return ==
    LET t     == tcb[p_runtsk]
        given == t.winfo = "E_OK" /\ t.wobjdata # NULL
    IN  /\ ~excpt
        /\ LeavingWait
        /\ Become([Cur EXCEPT
                     !.tcb[p_runtsk] = [t EXCEPT !.insvc    = FALSE,
                                                 !.winfo    = "no_tmevtb",
                                                 !.p_wobjcb = NULL,
                                                 !.wobjdata = NULL],
                     !.out = IF given THEN [from |-> t.p_wobjcb, what |-> t.wobjdata]
                             ELSE NULL])
        /\ UnchangedContext

-----------------------------------------------------------------------------

TaskManageNext ==
    \/ \E c \in CONFIG[app].acre_tsk : acre_tsk(c.tskatr, c.ipriority)
    \/ \E t \in TSK : del_tsk(t) \/ act_tsk(t) \/ can_act(t)
    \/ \E t \in TSK, p \in CONFIG[app].tskpri : chg_pri(t, p)
    \/ \E t \in TSK, p \in TPRI : chg_pri_ini_locked(t, p)
    \/ \E t \in TSK : chg_pri_ini(t)

TaskTermNext ==
    \/ ext_tsk \/ dis_ter \/ ena_ter
    \/ \E t \in TSK : ras_ter(t) \/ ter_tsk(t)

TaskSyncNext ==
    \/ slp_tsk \/ dly_tsk
    \/ \E tmout \in TMO : tslp_tsk(tmout)
    \/ \E t \in TSK : \/ wup_tsk(t) \/ can_wup(t) \/ rel_wai(t)
                      \/ sus_tsk(t) \/ rsm_tsk(t)

MutexNext ==
    \/ \E atr \in {{}, {"TA_TPRI"}, {"TA_TPRI", "TA_CEILING"}},
          p \in CONFIG[app].tskpri :
          acre_mtx(atr, p)
    \/ \E m \in MTX : \/ del_mtx(m) \/ loc_mtx(m) \/ ploc_mtx(m)
                      \/ tloc_mtx(m) \/ unl_mtx(m) \/ ini_mtx(m)

SysManageNext ==
    \/ loc_cpu \/ unl_cpu \/ dis_dsp \/ ena_dsp
    \/ \E p \in CONFIG[app].tskpri : rot_rdq(p)
    \/ \E mask \in BOOLEAN : chg_ipm(mask)

ORDER == {{}, {"TA_TPRI"}}

SemaphoreNext ==
    \/ \E atr \in ORDER, i, max \in 0 .. CONFIG[app].maxcnt : acre_sem(atr, i, max)
    \/ \E w \in SEM : \/ del_sem(w) \/ sig_sem(w) \/ wai_sem(w)
                      \/ pol_sem(w) \/ twai_sem(w) \/ ini_sem(w)

EventFlagNext ==
    \/ \E atr \in SUBSET {"TA_TPRI", "TA_WMUL", "TA_CLR"},
          ptn \in CONFIG[app].flgptn :
          acre_flg(atr, ptn)
    \/ \E w \in FLG : del_flg(w) \/ ini_flg(w)
    \/ \E w \in FLG, ptn \in SUBSET FLGBIT : set_flg(w, ptn) \/ clr_flg(w, ptn)
    \/ \E w \in FLG, ptn \in WAIPTN, mode \in TWFMODE :
          wai_flg(w, ptn, mode) \/ pol_flg(w, ptn, mode) \/ twai_flg(w, ptn, mode)

DataQueueNext ==
    \/ \E atr \in ORDER, cnt \in 0 .. CONFIG[app].maxcnt : acre_dtq(atr, cnt)
    \/ \E w \in DTQ : \/ del_dtq(w) \/ ini_dtq(w)
                      \/ rcv_dtq(w) \/ prcv_dtq(w) \/ trcv_dtq(w)
    \/ \E w \in DTQ, d \in CONFIG[app].data :
          \/ snd_dtq(w, d) \/ psnd_dtq(w, d) \/ tsnd_dtq(w, d)
          \/ fsnd_dtq(w, d) \/ fsnd_dtq_locked(w, d) \/ fsnd_dtq_handler(w, d)

PriDataQueueNext ==
    \/ \E atr \in ORDER, cnt \in 0 .. CONFIG[app].maxcnt, max \in CONFIG[app].datpri :
          acre_pdq(atr, cnt, max)
    \/ \E w \in PDQ : \/ del_pdq(w) \/ ini_pdq(w)
                      \/ rcv_pdq(w) \/ prcv_pdq(w) \/ trcv_pdq(w)
    \/ \E w \in PDQ, d \in CONFIG[app].data, pri \in CONFIG[app].datpri :
          snd_pdq(w, d, pri) \/ psnd_pdq(w, d, pri) \/ tsnd_pdq(w, d, pri)

MemPoolNext ==
    \/ \E atr \in ORDER, cnt \in 0 .. CONFIG[app].maxcnt : acre_mpf(atr, cnt)
    \/ \E w \in MPF : \/ del_mpf(w) \/ ini_mpf(w)
                      \/ get_mpf(w) \/ pget_mpf(w) \/ tget_mpf(w)
    \/ \E w \in MPF : \E blk \in 0 .. mpf[w].blkcnt - 1 : rel_mpf(w, blk)

InterruptNext ==
    \/ int_entry \/ int_exit \/ wait_return
    \/ \E t \in TSK : timeout(t)

Next ==
    \/ TaskManageNext \/ TaskTermNext \/ TaskSyncNext
    \/ MutexNext \/ SemaphoreNext \/ EventFlagNext
    \/ DataQueueNext \/ PriDataQueueNext \/ MemPoolNext
    \/ SysManageNext \/ InterruptNext

Spec == Init /\ [][Next]_vars

=============================================================================
