------------------------------ MODULE MCObjects ------------------------------
(***************************************************************************)
(* Kernel with small applications of two or three tasks and one object of  *)
(* a kind.  The run checks all of them.                                    *)
(***************************************************************************)
EXTENDS ObjectProperties

CONSTANTS t1, t2, t3, s1, f1, q1, pq1, mp1

Once(p)    == [tskatr |-> {"TA_ACT", "TA_NOACTQUE"}, ipriority |-> p]
Dormant(p) == [tskatr |-> {"TA_NOACTQUE"}, ipriority |-> p]

(* Two tasks of priority 1.                                                *)
TwoTasks ==
    [torder_table |-> <<t1, t2>>, dynamic_tsk |-> <<>>, dynamic_mtx |-> <<>>,
     dynamic_obj |-> [k \in OBJKIND |-> <<>>],
     tinib_table |-> t1 :> Once(1) @@ t2 :> Once(1),
     wobj_inib |-> <<>>, ceilpri_inib |-> <<>>, seminib |-> <<>>,
     flginib |-> <<>>, dtqinib |-> <<>>, pdqinib |-> <<>>, mpfinib |-> <<>>,
     acre_tsk |-> {}, tskpri |-> {0, 1}, datpri |-> DPRI, data |-> DATA,
     maxcnt |-> 0, flgptn |-> {{1}}, tskcalls |-> {}, intcalls |-> {}]

(* And one of priority 0 that interrupt handlers activate.                 *)
ThreeTasks ==
    [TwoTasks EXCEPT
       !.torder_table = <<t1, t2, t3>>,
       !.tinib_table  = t1 :> Once(1) @@ t2 :> Once(1) @@ t3 :> Dormant(0)]

Calls(config, tskcalls, intcalls) ==
    [config EXCEPT !.tskcalls = tskcalls, !.intcalls = intcalls]

-----------------------------------------------------------------------------
(* A semaphore with waiters in priority order.                             *)
SemaphoreApp ==
    Calls([ThreeTasks EXCEPT !.dynamic_obj.SEM = <<s1>>, !.maxcnt = 2],
          {"act_tsk", "ext_tsk", "acre_sem", "del_sem", "sig_sem", "wai_sem",
            "pol_sem", "twai_sem", "ini_sem"},
          {"act_tsk", "sig_sem"})

(* An event flag of two bits, with every attribute; and one waited for     *)
(* with a time limit.                                                      *)
EventFlagApp ==
    Calls([TwoTasks EXCEPT !.dynamic_obj.FLG = <<f1>>],
          {"acre_flg", "del_flg", "set_flg", "clr_flg", "wai_flg",
           "pol_flg", "ini_flg"},
          {"set_flg", "rel_wai"})

TimedEventFlagApp == Calls(EventFlagApp, {"acre_flg", "set_flg", "twai_flg"}, {"set_flg"})

(* A data queue with room for two data.                                    *)
DataQueueApp ==
    Calls([ThreeTasks EXCEPT !.wobj_inib = q1 :> {}, !.dtqinib = q1 :> 2],
          {"act_tsk", "ext_tsk", "ter_tsk", "snd_dtq", "rcv_dtq", "prcv_dtq",
           "ini_dtq"},
          {"act_tsk", "psnd_dtq", "fsnd_dtq"})

(* A priority data queue with room for two data.                           *)
PriDataQueueApp ==
    Calls([TwoTasks EXCEPT !.wobj_inib = pq1 :> {},
                           !.pdqinib   = pq1 :> [pdqcnt |-> 2, maxdpri |-> 2]],
          {"snd_pdq", "rcv_pdq", "prcv_pdq"},
          {"psnd_pdq"})

(* A memory pool of two blocks.                                            *)
MemPoolApp ==
    Calls([ThreeTasks EXCEPT !.wobj_inib = mp1 :> {}, !.mpfinib = mp1 :> 2],
          {"act_tsk", "ext_tsk", "ter_tsk", "get_mpf", "pget_mpf", "tget_mpf",
           "rel_mpf", "ini_mpf"},
          {"act_tsk", "rel_wai"})

(* A queue or pool that is created, used and deleted, with room for at     *)
(* most one datum or block.                                                *)
Created(kind, w, calls) ==
    Calls([TwoTasks EXCEPT !.dynamic_obj[kind] = <<w>>, !.datpri = {1},
                           !.data = {1}, !.maxcnt = 1],
          calls \cup {"acre_flg"}, {})

CreateDataQueue ==
    Created("DTQ", q1, {"acre_dtq", "del_dtq", "psnd_dtq", "tsnd_dtq", "trcv_dtq",
                           "fsnd_dtq"})
CreatePriDataQueue ==
    Created("PDQ", pq1, {"acre_pdq", "del_pdq", "psnd_pdq", "tsnd_pdq", "trcv_pdq",
                           "ini_pdq"})
CreateMemPool ==
    Created("MPF", mp1, {"acre_mpf", "del_mpf", "get_mpf", "rel_mpf"})

ObjectApps ==
    [Semaphore |-> SemaphoreApp, EventFlag |-> EventFlagApp,
     TimedEventFlag |-> TimedEventFlagApp, DataQueue |-> DataQueueApp,
     PriDataQueue |-> PriDataQueueApp, MemPool |-> MemPoolApp,
     CreateDataQueue |-> CreateDataQueue, CreatePriDataQueue |-> CreatePriDataQueue,
     CreateMemPool |-> CreateMemPool]

(* A flag that is created while there is, or is not, a control block left. *)
AcreFlgApp ==
    [AcreFlg |-> Calls([TwoTasks EXCEPT !.dynamic_obj.FLG = <<f1>>],
                       {"act_tsk", "acre_flg", "del_flg", "set_flg", "wai_flg"},
                       {"set_flg"})]
=============================================================================
