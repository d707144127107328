------------------------------ MODULE MCKernel ------------------------------
(***************************************************************************)
(* Kernel with small applications of two or three tasks and up to two      *)
(* mutexes.  The runs check several applications each.                     *)
(***************************************************************************)
EXTENDS KernelProperties

CONSTANTS t1, t2, t3, m1, m2

Dormant(p)        == [tskatr |-> {}, ipriority |-> p]
Active(p)         == [tskatr |-> {"TA_ACT"}, ipriority |-> p]
NoActque(p)       == [tskatr |-> {"TA_NOACTQUE"}, ipriority |-> p]
ActiveNoActque(p) == [tskatr |-> {"TA_ACT", "TA_NOACTQUE"}, ipriority |-> p]

(* An application of one static task and nothing else.                     *)
Base ==
    [torder_table |-> <<t1>>, dynamic_tsk |-> <<>>, dynamic_mtx |-> <<>>,
     dynamic_obj |-> [k \in OBJKIND |-> <<>>],
     tinib_table |-> t1 :> ActiveNoActque(1),
     wobj_inib |-> <<>>, ceilpri_inib |-> <<>>, seminib |-> <<>>,
     flginib |-> <<>>, dtqinib |-> <<>>, pdqinib |-> <<>>, mpfinib |-> <<>>,
     acre_tsk |-> {}, tskpri |-> {0, 1}, datpri |-> {}, data |-> {},
     maxcnt |-> 0, flgptn |-> {}, tskcalls |-> {}, intcalls |-> {}]

Mutexes(config, atr, ceilpri) ==
    [config EXCEPT !.wobj_inib = atr, !.ceilpri_inib = ceilpri]

Calls(config, tskcalls, intcalls) ==
    [config EXCEPT !.tskcalls = tskcalls, !.intcalls = intcalls]

-----------------------------------------------------------------------------
(* The calls on tasks, by two tasks, one of which queues activations:      *)
(* once with requests to terminate, once with changes of the priority.     *)
TwoTasks(calls) ==
    Calls([Base EXCEPT !.torder_table = <<t1, t2>>,
                       !.tinib_table  = t1 :> Active(1) @@ t2 :> NoActque(0)],
          {"act_tsk", "can_act", "ext_tsk", "ter_tsk", "slp_tsk", "tslp_tsk",
           "dly_tsk", "wup_tsk", "can_wup", "rel_wai", "sus_tsk", "rsm_tsk",
           "rot_rdq", "dis_dsp", "ena_dsp", "chg_ipm", "loc_cpu"} \cup calls,
          {"act_tsk", "wup_tsk", "rel_wai", "rot_rdq"})

TaskCalls       == TwoTasks({"ras_ter", "dis_ter", "ena_ter"})
PriorityChanges == TwoTasks({"chg_pri"})

(* The calls that move tasks in the ready queue, by three tasks.           *)
Scheduling ==
    Calls([Base EXCEPT
             !.torder_table = <<t1, t2, t3>>,
             !.tinib_table  = t1 :> ActiveNoActque(1) @@ t2 :> ActiveNoActque(1)
                               @@ t3 :> Dormant(0)],
          {"act_tsk", "ext_tsk", "ter_tsk", "slp_tsk", "wup_tsk", "rot_rdq",
           "dis_dsp", "ena_dsp", "chg_pri"},
          {"act_tsk", "wup_tsk", "rot_rdq"})

TaskApps == [TaskCalls |-> TaskCalls, PriorityChanges |-> PriorityChanges,
             Scheduling |-> Scheduling]

-----------------------------------------------------------------------------
(* A ceiling mutex and one with waiters in priority order; three tasks     *)
(* below the ceiling.                                                      *)
CeilingAndPriority == m1 :> {"TA_TPRI", "TA_CEILING"} @@ m2 :> {"TA_TPRI"}
CeilingAndFifo     == m1 :> {"TA_TPRI", "TA_CEILING"} @@ m2 :> {}

Locking ==
    Calls(Mutexes([Base EXCEPT
                     !.torder_table = <<t1, t2, t3>>,
                     !.tinib_table  = t1 :> ActiveNoActque(1)
                                      @@ t2 :> ActiveNoActque(1) @@ t3 :> NoActque(1)],
                  CeilingAndPriority, m1 :> 0 @@ m2 :> 0),
          {"act_tsk", "ext_tsk", "loc_mtx", "tloc_mtx", "unl_mtx", "ter_tsk",
           "chg_pri"},
          {"act_tsk", "rel_wai"})

(* Two ceiling mutexes with different ceilings, locked one in the other,   *)
(* by tasks that request termination or return to their initial priority.  *)
Nested(calls) ==
    Calls(Mutexes([Base EXCEPT
                     !.torder_table = <<t1, t2, t3>>,
                     !.tinib_table  = t1 :> ActiveNoActque(2)
                                      @@ t2 :> ActiveNoActque(2) @@ t3 :> NoActque(1)],
                  m1 :> {"TA_TPRI", "TA_CEILING"} @@ m2 :> {"TA_TPRI", "TA_CEILING"},
                  m1 :> 0 @@ m2 :> 1),
          {"act_tsk", "ext_tsk", "ter_tsk", "loc_mtx", "ploc_mtx", "unl_mtx",
           "ini_mtx", "dis_dsp", "ena_dsp", "chg_ipm", "loc_cpu"} \cup calls,
          {"act_tsk"})

NestedCeilings  == Nested({"ras_ter", "dis_ter", "ena_ter"})
InitialPriority == Nested({"chg_pri_ini"})

(* One static task; the others, and mutex m2, are created and deleted.     *)
Dynamic ==
    Calls(Mutexes([Base EXCEPT !.dynamic_tsk = <<t2, t3>>,
                               !.dynamic_mtx = <<m2>>,
                               !.acre_tsk    = {NoActque(0), NoActque(1)}],
                  m1 :> {}, m1 :> 0),
          {"acre_tsk", "del_tsk", "act_tsk", "ext_tsk", "acre_mtx", "del_mtx",
           "loc_mtx", "unl_mtx", "ter_tsk"},
          {"act_tsk"})

MutexApps ==
    [Locking |-> Locking, NestedCeilings |-> NestedCeilings,
     InitialPriority |-> InitialPriority, Dynamic |-> Dynamic]

(* Whatever is claimed of one of these applications is checked for all.    *)
TaskAndMutexApps == TaskApps @@ MutexApps

-----------------------------------------------------------------------------
(* Waits with a time limit, of two tasks.                                  *)
Timed ==
    Calls(Mutexes([Base EXCEPT !.torder_table = <<t1, t2>>,
                               !.tinib_table  = t1 :> Active(1) @@ t2 :> NoActque(0)],
                  CeilingAndFifo, m1 :> 0 @@ m2 :> 0),
          {"act_tsk", "ext_tsk", "ter_tsk", "tslp_tsk", "dly_tsk", "wup_tsk",
           "loc_mtx", "tloc_mtx", "unl_mtx"},
          {"act_tsk", "rel_wai"})

TimedApp == [Timed |-> Timed]

(* Tasks created active, with a higher priority than their creator.        *)
CreateActive ==
    Calls([Dynamic EXCEPT !.acre_tsk = {ActiveNoActque(0)}],
          {"acre_tsk", "loc_mtx", "ploc_mtx", "unl_mtx", "ext_tsk"},
          {"act_tsk"})

CreateActiveApp == [CreateActive |-> CreateActive]

(* Tasks created and deleted.                                              *)
CreateDormantApp ==
    [CreateDormant |->
       Calls(Dynamic, {"acre_tsk", "del_tsk", "act_tsk", "ext_tsk"}, {})]
=============================================================================
