---------------------------- MODULE KernelProofs ----------------------------
(***************************************************************************)
(* The kernel keeps its ready queues, its wait queues, its choice of the   *)
(* task that runs, the states of its tasks, the owners of its mutexes and  *)
(* its lists of free control blocks consistent, for every application that *)
(* creates no task with TA_ACT: the inductive invariant IInv, one lemma    *)
(* for each of the kernel's actions, the start of the kernel, and the      *)
(* properties that follow.                                                 *)
(***************************************************************************)
EXTENDS ObjectProperties, WaitProofs

(* Of the tasks requested to terminate only one that runs while            *)
(* dispatching is disabled could be terminated.                            *)
Ends(s) == IF s.dspflg THEN {} ELSE {s.p_runtsk}

(* The free lists hold the control blocks without a task or an object.     *)
FreeOK(s, c) ==
    /\ Lists(s.free_tcb, {t \in ToSet(c.dynamic_tsk) : ~Exists(s, t)}, TSK)
    /\ Lists(s.free_mtxcb, {m \in ToSet(c.dynamic_mtx) : ~WobjExists(s, m)}, MTX)
    /\ \A k \in OBJKIND :
          Lists(s.free_cb[k], {w \in ToSet(c.dynamic_obj[k]) : ~WobjExists(s, w)}, WOBJ)

(* Mutexes and their owners are consistent, and every task follows the     *)
(* priority ceiling protocol.                                              *)
Protocol(s) == \A t \in TSK : Fit(s, t)

LocksOK(s) == LockInv(s, {}, {}) /\ Protocol(s)

KInv(s, c) ==
    /\ Inv(s, {}, Ends(s))
    /\ s.dspflg <=> s.enadsp /\ ~s.ipm
    /\ FreeOK(s, c)
    /\ LocksOK(s)

IInv ==
    /\ app \in DOMAIN CONFIG
    /\ KInv(Cur, CONFIG[app])
    /\ ~excpt => p_runtsk = p_schedtsk

(* While dispatching is disabled the task that runs keeps the processor.   *)
Undisturbed(s, r) == ~s.dspflg /\ ~r.dspflg => r.p_runtsk = s.p_runtsk

(* What an operation on tasks, objects and mutexes leaves as it is.        *)
Preserves(s, r) == Passes(s, r) /\ (LocksOK(s) => LocksOK(r) /\ NoNewOwner(s, r))

(* What each step shows.                                                   *)
StepOK ==
    /\ IInv'
    /\ ~dspflg /\ ~dspflg' => p_runtsk' = p_runtsk
    /\ excpt' => NoNewOwner(Cur, Cur')

-----------------------------------------------------------------------------
(* Steps.                                                                  *)

LEMMA CurFields ==
    /\ Cur.tcb = tcb /\ Cur.tinib = tinib /\ Cur.free_tcb = free_tcb
    /\ Cur.wobj = wobj /\ Cur.mtx = mtx /\ Cur.free_mtxcb = free_mtxcb
    /\ Cur.sem = sem /\ Cur.flg = flg /\ Cur.dtq = dtq /\ Cur.pdq = pdq
    /\ Cur.mpf = mpf /\ Cur.free_cb = free_cb /\ Cur.ready_queue = ready_queue
    /\ Cur.ready_primap = ready_primap /\ Cur.p_schedtsk = p_schedtsk
    /\ Cur.p_runtsk = p_runtsk /\ Cur.enadsp = enadsp /\ Cur.dspflg = dspflg
    /\ Cur.ipm = ipm /\ Cur.tmevtb = tmevtb /\ Cur.out = NULL
BY DEF Cur

LEMMA CurExists ==
    /\ \A t : Exists(Cur, t) <=> TaskExists(t)
    /\ \A w \in WOBJ : WobjExists(Cur, w) <=> ObjectExists(w)
BY CurFields DEF Exists, TaskExists, WobjExists, ObjectExists

(* An operation that leaves the frame as it is, ...                        *)
LEMMA FrameKept ==
    ASSUME NEW s, NEW c, KInv(s, c), NEW r, Passes(s, r)
    PROVE  /\ Ends(r) = Ends(s)
           /\ r.dspflg <=> r.enadsp /\ ~r.ipm
           /\ FreeOK(r, c)
<1>1. Ends(r) = Ends(s) /\ (r.dspflg <=> r.enadsp /\ ~r.ipm)
  BY PassesFields DEF KInv, Ends
<1>2. /\ \A t : Exists(r, t) <=> Exists(s, t)
      /\ \A w : WobjExists(r, w) <=> WobjExists(s, w)
  BY PassesFields DEF Exists, WobjExists
<1>3. FreeOK(r, c)
  BY <1>2, PassesFields DEF FreeOK, KInv
<1> QED BY <1>1, <1>3

LEMMA Preserved ==
    ASSUME NEW s, NEW c, KInv(s, c), NEW r, Inv(r, {}, Ends(s)), Preserves(s, r)
    PROVE  KInv(r, c)
BY FrameKept DEF KInv, Preserves

(* ... and one that locks and unlocks no mutex.                            *)
LEMMA KeepsPreserves ==
    ASSUME NEW s, NEW r, Keeps(s, r)
    PROVE  Preserves(s, r)
<1> DEFINE X == {}
           M == {}
<1>1. Passes(s, r) /\ KeepsLocks(s, r) /\ NoNewOwner(s, r)
  BY KeepsFields DEF NoNewOwner
<1>2. LockInv(s, X, M) => LockInv(r, X, M)
  <2> HIDE DEF X, M
  <2> QED BY <1>1, LockKept
<1>3. Protocol(s) => Protocol(r)
  BY DEF Keeps, Protocol
<1> QED BY <1>1, <1>2, <1>3 DEF Preserves, LocksOK

(* ... and one that changes priorities as the protocol says.               *)
LEMMA LocksPreserved ==
    ASSUME NEW s, NEW r, KeepsLocks(s, r), CeilingsKept(s, r, {})
    PROVE  Preserves(s, r)
<1> DEFINE X == {}
           M == {}
<1>1. Passes(s, r) /\ NoNewOwner(s, r)
  BY DEF NoNewOwner, KeepsLocks
<1>2. LockInv(s, X, M) => LockInv(r, X, M)
  <2> HIDE DEF X, M
  <2> QED BY LockKept
<1>3. Protocol(s) => Protocol(r)
  BY DEF CeilingsKept, Protocol
<1> QED BY <1>1, <1>2, <1>3 DEF Preserves, LocksOK

LEMMA LocksMoved ==
    ASSUME NEW s, NEW r, Passes(s, r), LockInv(s, {}, {}) => LockInv(r, {}, {}),
           CeilingsKept(s, r, {}), NoNewOwner(s, r)
    PROVE  Preserves(s, r)
<1>1. Protocol(s) => Protocol(r)
  BY DEF CeilingsKept, Protocol
<1> QED BY <1>1 DEF Preserves, LocksOK

LEMMA PreservesTrans ==
    ASSUME NEW s, NEW r, NEW n, Preserves(s, r), Preserves(r, n)
    PROVE  Preserves(s, n)
BY PassesTrans DEF Preserves, NoNewOwner

LEMMA Operation ==
    ASSUME NEW s, NEW c, KInv(s, c), NEW r, Inv(r, {}, Ends(s)), Keeps(s, r)
    PROVE  KInv(r, c)
BY KeepsPreserves, Preserved

(* The TCBs and the mutexes outside M are as they were.                    *)
LEMMA LockSame ==
    ASSUME NEW s, NEW r, NEW X, NEW M, LockInv(s, X, M), r.tcb = s.tcb,
           \A m \in MTX \ M : r.mtx[m] = s.mtx[m] /\ r.wobj[m] = s.wobj[m]
    PROVE  LockInv(r, X, M)
<1>1. \A t \in TSK : SameLock(s, r, t)
  BY DEF SameLock, BlockedOn
<1>2. Beside(s, r, M)
  BY <1>1 DEF Beside
<1> QED BY <1>2, BesideKept

(* No TCB and no mutex has changed.                                        *)
LEMMA ProtocolKept ==
    ASSUME NEW s, NEW r, Protocol(s), r.tcb = s.tcb, SameCeilings(s, r)
    PROVE  Protocol(r)
BY SameTcbFit, FitSame DEF Protocol

LEMMA LockUntouched ==
    ASSUME NEW s, NEW r, LocksOK(s), r.tcb = s.tcb, r.mtx = s.mtx,
           \A m \in MTX : r.wobj[m] = s.wobj[m]
    PROVE  LocksOK(r)
<1> DEFINE X == {}
           M == {}
<1>1. LockInv(s, X, M)
  BY DEF LocksOK
<1>2. LockInv(r, X, M)
  <2> HIDE DEF X, M
  <2> QED BY <1>1, LockSame
<1>3. Protocol(r)
  BY ProtocolKept DEF LocksOK, SameCeilings
<1> QED BY <1>2, <1>3 DEF LocksOK

LEMMA OperationInv ==
    ASSUME NEW s, NEW c, KInv(s, c)
    PROVE  Inv(s, {}, Ends(s)) /\ WellFormed(s)
BY DEF KInv, Inv

(* The step to a state that Become names.                                  *)
LEMMA Became ==
    ASSUME app \in DOMAIN CONFIG, NEW r, KInv(r, CONFIG[app]), Become(r),
           ~excpt' => r.p_runtsk = r.p_schedtsk, Undisturbed(Cur, r),
           excpt' => NoNewOwner(Cur, r)
    PROVE  StepOK
<1> DEFINE n == Cur'
<1>1. /\ n.tcb = r.tcb /\ n.tinib = r.tinib /\ n.free_tcb = r.free_tcb
      /\ n.wobj = r.wobj /\ n.mtx = r.mtx /\ n.free_mtxcb = r.free_mtxcb
      /\ n.sem = r.sem /\ n.flg = r.flg /\ n.dtq = r.dtq /\ n.pdq = r.pdq
      /\ n.mpf = r.mpf /\ n.free_cb = r.free_cb /\ n.ready_queue = r.ready_queue
      /\ n.ready_primap = r.ready_primap /\ n.p_schedtsk = r.p_schedtsk
      /\ n.p_runtsk = r.p_runtsk /\ n.enadsp = r.enadsp /\ n.dspflg = r.dspflg
      /\ n.ipm = r.ipm /\ n.tmevtb = r.tmevtb
  BY DEF Become, Cur
<1>2. HasFields(n, KernelField)
  BY DEF HasFields, KernelField, Cur
<1>3. n.p_runtsk = p_runtsk' /\ n.p_schedtsk = p_schedtsk' /\ app' = app
  BY DEF Cur, Become
<1> HIDE DEF n
<1>4. Agree(r, n, DataField)
  BY <1>1 DEF Agree, KernelField, DataField
<1>5. Inv(r, {}, Ends(r)) /\ WellFormed(r)
  BY OperationInv
<1>6. Like(r, n, {}) /\ Keeps(r, n)
  BY <1>2, <1>4, <1>5, DataLike
<1>7. Inv(n, {}, Ends(r))
  <2> DEFINE X == {}
  <2>1. Inv(r, X, Ends(r)) /\ Like(r, n, X)
    BY <1>5, <1>6
  <2> HIDE DEF X
  <2>2. Inv(n, X, Ends(r))
    BY <2>1, Change
  <2> QED BY <2>2 DEF X
<1>8. KInv(n, CONFIG[app])
  BY <1>6, <1>7, Operation
<1>9. ~excpt' => p_runtsk' = p_schedtsk'
  BY <1>1, <1>3
<1>10. IInv'
  BY <1>3, <1>8, <1>9 DEF IInv, n
<1>11. r.dspflg = dspflg' /\ r.p_runtsk = p_runtsk'
  BY DEF Become
<1>12. excpt' => NoNewOwner(Cur, n)
  BY <1>1 DEF NoNewOwner
<1> QED BY <1>10, <1>11, <1>12, CurFields DEF StepOK, Undisturbed, n

(* The dispatcher.                                                         *)
LEMMA dispatcher_kinv ==
    ASSUME NEW s, NEW c, KInv(s, c)
    PROVE  LET r == dispatcher(s)
           IN  /\ KInv(r, c) /\ r.p_runtsk = r.p_schedtsk
               /\ Undisturbed(s, r) /\ r.dspflg = s.dspflg /\ r.mtx = s.mtx
<1> DEFINE r == dispatcher(s)
           X == {}
<1>1. Inv(s, X, Ends(s)) /\ WellFormed(s)
  BY OperationInv
<1>2. WellFormed(r) /\ Agree(s, r, {"p_runtsk"}) /\ r.p_runtsk = s.p_schedtsk
  BY <1>1 DEF dispatcher, WellFormed, HasFields, KernelField, Agree
<1> HIDE DEF r
<1>3. \A f \in KernelField \ {"p_runtsk"} : r[f] = s[f]
  BY <1>2 DEF Agree
<1>4. /\ r.tcb = s.tcb /\ r.ready_queue = s.ready_queue /\ r.ready_primap = s.ready_primap
      /\ r.p_schedtsk = s.p_schedtsk /\ r.dspflg = s.dspflg /\ r.enadsp = s.enadsp
      /\ r.ipm = s.ipm /\ r.tinib = s.tinib /\ r.wobj = s.wobj /\ r.tmevtb = s.tmevtb
      /\ r.free_tcb = s.free_tcb /\ r.free_mtxcb = s.free_mtxcb /\ r.free_cb = s.free_cb
      /\ r.mtx = s.mtx
  BY <1>3 DEF KernelField
<1>5. Ends(r) = Ends(s) /\ Undisturbed(s, r)
  <2>1. ~s.dspflg => s.p_schedtsk = s.p_runtsk
    BY <1>1 DEF Inv, Sched, Scheduled
  <2> QED BY <1>2, <1>4, <2>1 DEF Ends, Undisturbed
<1>6. Inv(r, {}, Ends(r))
  <2>1. Sched(s, Ready(s, {}))
    BY <1>1 DEF Inv
  <2>2. Sched(r, Ready(s, {}))
    BY <1>2, <1>4, <2>1, dispatcher_sched
  <2>3. \A t \in TSK : TaskOK(s, t, Ends(s))
    BY <1>1 DEF Inv
  <2>4. Inv(s, {}, Ends(s))
    BY <1>1
  <2>5. Agree(s, r, ProcessorField)
    BY <1>2 DEF Agree, ProcessorField
  <2> QED BY <1>2, <1>5, <2>2, <2>3, <2>4, <2>5, Switch
<1>7. FreeOK(r, c)
  <2>1. FreeOK(s, c)
    BY DEF KInv
  <2>2. /\ \A t : Exists(r, t) <=> Exists(s, t)
        /\ \A w : WobjExists(r, w) <=> WobjExists(s, w)
    BY <1>4 DEF Exists, WobjExists
  <2> QED BY <1>4, <2>1, <2>2 DEF FreeOK
<1>8. r.dspflg <=> r.enadsp /\ ~r.ipm
  BY <1>4 DEF KInv
<1>9. LocksOK(r)
  BY <1>4, LockUntouched DEF KInv
<1>10. KInv(r, c)
  BY <1>6, <1>7, <1>8, <1>9 DEF KInv
<1> QED BY <1>2, <1>4, <1>5, <1>10 DEF r

LEMMA PreservesUndisturbed ==
    ASSUME NEW s, NEW r, Preserves(s, r)
    PROVE  Undisturbed(s, r)
BY PassesFields DEF Undisturbed, Preserves

LEMMA dispatch_kinv ==
    ASSUME NEW s, NEW c, KInv(s, c)
    PROVE  LET r == dispatch(s)
           IN  /\ KInv(r, c) /\ r.p_runtsk = r.p_schedtsk
               /\ Undisturbed(s, r) /\ r.dspflg = s.dspflg /\ r.mtx = s.mtx
<1> DEFINE d == dispatcher(s)
<1>1. /\ KInv(d, c) /\ d.p_runtsk = d.p_schedtsk
      /\ Undisturbed(s, d) /\ d.dspflg = s.dspflg /\ d.mtx = s.mtx
  BY dispatcher_kinv
<1> HIDE DEF d
<1>2. Undisturbed(s, s)
  BY DEF Undisturbed
<1>3. dispatch(s) = IF s.p_runtsk # s.p_schedtsk THEN d ELSE s
  BY DEF dispatch, d
<1> QED BY <1>1, <1>2, <1>3

(* A dispatch after an operation.                                          *)
LEMMA dispatch_undisturbed ==
    ASSUME NEW s, NEW c, NEW r, KInv(r, c), Undisturbed(s, r), r.dspflg = s.dspflg,
           NEW d, d = dispatch(r) \/ d = dispatcher(r)
    PROVE  Undisturbed(s, d)
BY dispatch_kinv, dispatcher_kinv DEF Undisturbed

(* What a step from IInv starts from.                                      *)
LEMMA StepBegins ==
    ASSUME IInv
    PROVE  /\ app \in DOMAIN CONFIG /\ KInv(Cur, CONFIG[app])
           /\ Inv(Cur, {}, Ends(Cur)) /\ WellFormed(Cur)
           /\ ~excpt => Cur.p_runtsk = Cur.p_schedtsk
BY OperationInv, CurFields DEF IInv

(* A call of a task or a handler that ends with a dispatch.                *)
LEMMA PreservedDispatched ==
    ASSUME IInv, NEW r, Inv(r, {}, Ends(Cur)), Preserves(Cur, r),
           \/ Become(dispatch(r))
           \/ Become(dispatch_or_request(r)) /\ UnchangedContext
    PROVE  StepOK
<1>1. app \in DOMAIN CONFIG /\ KInv(r, CONFIG[app])
  BY StepBegins, Preserved
<1>2. KInv(dispatch(r), CONFIG[app]) /\ dispatch(r).p_runtsk = dispatch(r).p_schedtsk
      /\ Undisturbed(Cur, dispatch(r)) /\ Undisturbed(Cur, r)
      /\ NoNewOwner(Cur, r) /\ NoNewOwner(Cur, dispatch(r))
  <2>1. Undisturbed(Cur, r) /\ r.dspflg = Cur.dspflg
    BY PreservesUndisturbed, PassesFields DEF Preserves
  <2>2. NoNewOwner(Cur, r)
    BY StepBegins DEF KInv, Preserves
  <2> QED BY <1>1, <2>1, <2>2, dispatch_kinv, dispatch_undisturbed DEF NoNewOwner
<1>3. CASE Become(dispatch(r))
  BY <1>1, <1>2, <1>3, Became
<1>4. CASE Become(dispatch_or_request(r)) /\ UnchangedContext
  <2>1. CASE excpt
    <3>1. Become(r) /\ excpt'
      BY <1>4, <2>1 DEF dispatch_or_request, UnchangedContext
    <3> QED BY <1>1, <1>2, <3>1, Became
  <2>2. CASE ~excpt
    BY <1>3, <1>4, <2>2 DEF dispatch_or_request
  <2> QED BY <2>1, <2>2
<1> QED BY <1>3, <1>4

LEMMA Dispatched ==
    ASSUME IInv, NEW r, Inv(r, {}, Ends(Cur)), Keeps(Cur, r),
           \/ Become(dispatch(r))
           \/ Become(dispatch_or_request(r)) /\ UnchangedContext
    PROVE  StepOK
BY KeepsPreserves, PreservedDispatched

(* A call that leaves the task that should run as it is.                   *)
LEMMA PreservedQuiet ==
    ASSUME IInv, NEW r, Inv(r, {}, Ends(Cur)), Preserves(Cur, r),
           r.p_schedtsk = Cur.p_schedtsk, Become(r), excpt => excpt'
    PROVE  StepOK
<1>1. app \in DOMAIN CONFIG /\ KInv(r, CONFIG[app])
  BY StepBegins, Preserved
<1>2. (~excpt' => r.p_runtsk = r.p_schedtsk) /\ Undisturbed(Cur, r) /\ NoNewOwner(Cur, r)
  BY StepBegins, PassesFields, PreservesUndisturbed DEF Preserves, KInv
<1> QED BY <1>1, <1>2, Became

LEMMA Quiet ==
    ASSUME IInv, NEW r, Inv(r, {}, Ends(Cur)), Keeps(Cur, r),
           r.p_schedtsk = Cur.p_schedtsk, Become(r), excpt => excpt'
    PROVE  StepOK
BY KeepsPreserves, PreservedQuiet

(* The running task.                                                       *)
LEMMA Running ==
    ASSUME IInv, ~excpt, p_runtsk # NULL
    PROVE  /\ p_runtsk \in Ready(Cur, {}) /\ p_runtsk \in TSK
           /\ TSTAT_RUNNABLE(Cur.tcb[p_runtsk].tstat)
           /\ Cur.tcb[p_runtsk].tstat # TS_DORMANT
           /\ Exists(Cur, p_runtsk)
           /\ p_runtsk = Cur.p_runtsk
<1>1. Cur.p_runtsk = p_runtsk /\ Cur.p_schedtsk = p_runtsk
  BY CurFields, StepBegins
<1>2. Sched(Cur, Ready(Cur, {})) /\ \A t \in TSK : TaskOK(Cur, t, Ends(Cur))
  BY StepBegins DEF Inv
<1>3. p_runtsk \in Ready(Cur, {})
  BY <1>1, <1>2 DEF Sched, Scheduled, IsFirst
<1>4. p_runtsk \in TSK /\ TSTAT_RUNNABLE(Cur.tcb[p_runtsk].tstat)
  BY <1>3 DEF Ready
<1>5. Cur.tcb[p_runtsk].tstat # TS_DORMANT
  BY <1>4 DEF TSTAT_RUNNABLE, TS_DORMANT
<1> QED BY <1>1, <1>2, <1>3, <1>4, <1>5 DEF TaskOK

-----------------------------------------------------------------------------
(* Task management calls.                                                  *)

(* A dormant task is given to or taken from an application.                *)
LEMMA Relabel ==
    ASSUME NEW s, NEW c, KInv(s, c), NEW r, WellFormed(r),
           Agree(s, r, {"free_tcb", "tinib"}),
           \A u \in TSK : (Exists(r, u) <=> Exists(s, u)) \/ s.tcb[u].tstat = TS_DORMANT,
           Lists(r.free_tcb, {u \in ToSet(c.dynamic_tsk) : ~Exists(r, u)}, TSK)
    PROVE  KInv(r, c) /\ r.p_schedtsk = s.p_schedtsk /\ r.p_runtsk = s.p_runtsk
           /\ r.tcb = s.tcb
<1>1. \A f \in KernelField \ {"free_tcb", "tinib"} : r[f] = s[f]
  BY DEF Agree
<1>2. /\ r.tcb = s.tcb /\ r.ready_queue = s.ready_queue /\ r.ready_primap = s.ready_primap
      /\ r.p_schedtsk = s.p_schedtsk /\ r.p_runtsk = s.p_runtsk /\ r.dspflg = s.dspflg
      /\ r.enadsp = s.enadsp /\ r.ipm = s.ipm /\ r.wobj = s.wobj /\ r.tmevtb = s.tmevtb
      /\ r.free_mtxcb = s.free_mtxcb /\ r.free_cb = s.free_cb /\ r.mtx = s.mtx
  BY <1>1 DEF KernelField
<1>3. Inv(s, {}, Ends(s)) /\ Ends(r) = Ends(s)
  BY <1>2, OperationInv DEF Ends
<1>4. Ready(r, {}) = Ready(s, {}) /\ Blocked(r, {}) = Blocked(s, {})
  BY <1>2 DEF Ready, Blocked
<1>5. Sched(r, Ready(s, {}))
  BY <1>2, <1>3, SchedKept DEF Inv, ReadyFields
<1>6. WaitOK(r, Blocked(s, {}))
  BY <1>2, <1>3 DEF Inv, WaitOK, WaitsIn, Sorted
<1>7. \A u \in TSK : TaskOK(r, u, Ends(s))
  <2> TAKE u \in TSK
  <2>1. TaskOK(s, u, Ends(s))
    BY <1>3 DEF Inv
  <2> QED BY <1>2, <2>1 DEF TaskOK, WobjExists
<1>8. Inv(r, {}, Ends(r))
  BY <1>3, <1>4, <1>5, <1>6, <1>7 DEF Inv
<1>9. FreeOK(r, c)
  <2>1. \A w : WobjExists(r, w) <=> WobjExists(s, w)
    BY <1>2 DEF WobjExists
  <2> QED BY <1>2, <2>1 DEF FreeOK, KInv
<1>10. LocksOK(r)
  BY <1>2, LockUntouched DEF KInv
<1> QED BY <1>2, <1>8, <1>9, <1>10 DEF KInv

(* A task without queued requests is made dormant again.                   *)
LEMMA make_dormant_kept ==
    ASSUME NEW s, NEW E, Inv(s, {}, E), NEW t \in TSK, s.tcb[t].tstat = TS_DORMANT,
           s.tcb[t].lastmtx = <<>>
    PROVE  LET r == make_dormant(s, t)
           IN  /\ Inv(r, {}, E) /\ Keeps(s, r) /\ r.p_schedtsk = s.p_schedtsk
               /\ TcbEdit(s, r, t, TcbField) /\ r.tcb[t].tstat = TS_DORMANT
<1> DEFINE r == make_dormant(s, t)
           X == {}
           Y == X \cup {t}
<1>1. /\ Inv(s, X, E) /\ t \notin Ready(s, X) /\ t \notin Blocked(s, X)
      /\ t \in Y /\ Y \ {t} = {}
  BY IdleFacts DEF Ready, Blocked, TS_DORMANT, TS_RUNNABLE
<1>2. s.tmevtb[t] = "none"
  BY IdleFacts, NotWaiting
<1>3. TaskOK(s, t, E)
  BY DEF Inv
<1> HIDE DEF X
<1>4. Inv(s, X \cup {t}, E)
  BY <1>1, Unsettle
<1>5. Inv(s, Y, E)
  BY <1>4 DEF Y
<1> HIDE DEF Y
<1>6. Inv(r, Y, E) /\ Passes(s, r) /\ TcbEdit(s, r, t, TcbField) /\ Dormant(s, r, t)
  BY <1>1, <1>5, make_dormant_inv
<1> HIDE DEF r
<1>7. /\ r.tmevtb = s.tmevtb /\ r.tinib = s.tinib /\ r.p_schedtsk = s.p_schedtsk
      /\ r.mtx = s.mtx
  BY <1>6, TcbEditFields DEF KernelField
<1>8. TaskOK(r, t, E)
  <2>1. WinfoOK(r.tcb[t], r.tmevtb[t])
    BY <1>2, <1>6, <1>7, IdleFacts DEF WinfoOK, TMEVT, Dormant
  <2> QED BY <1>3, <1>6, <1>7, <2>1, IdleFacts DEF TaskOK, Dormant
<1>9. ~TSTAT_RUNNABLE(r.tcb[t].tstat) /\ ~TSTAT_WAIT_WOBJ(r.tcb[t].tstat)
  BY <1>6, IdleFacts DEF Dormant
<1>10. Inv(r, Y \ {t}, E)
  BY <1>1, <1>6, <1>8, <1>9, Settle
<1>11. Keeps(s, r)
  <2>1. SameLock(s, r, t)
    BY <1>6, <1>9 DEF SameLock, BlockedOn, Dormant
  <2>2. \A u \in TSK \ {t} : r.tcb[u] = s.tcb[u]
    BY <1>6 DEF TcbEdit
  <2>3. \A u \in TSK \ {t} : SameLock(s, r, u)
    BY <2>2 DEF SameLock, BlockedOn
  <2>4. KeepsLocks(s, r)
    BY <1>6, <1>7, <2>1, <2>3 DEF KeepsLocks
  <2>5. SameCeilings(s, r)
    BY <2>4, PassesCeilings DEF KeepsLocks
  <2>6. Fit(r, t)
    BY <1>6, OperationInv, DormantFit DEF Inv
  <2>7. \A u \in TSK \ {t} : Fit(s, u) => Fit(r, u)
    BY <2>2, <2>5, SameTcbFit, FitSame
  <2> QED BY <2>4, <2>6, <2>7 DEF Keeps
<1> QED BY <1>1, <1>6, <1>7, <1>10, <1>11 DEF r, Dormant

(* A request that is queued or withdrawn.                                  *)
LEMMA actque_inv ==
    ASSUME NEW s, NEW E, Inv(s, {}, E), NEW t \in TSK, NEW v,
           v => s.tcb[t].tstat # TS_DORMANT
    PROVE  LET r == [s EXCEPT !.tcb[t].actque = v]
           IN  /\ Inv(r, {}, E) /\ Keeps(s, r) /\ r.p_schedtsk = s.p_schedtsk
               /\ r.tcb[t].tstat = s.tcb[t].tstat /\ r.tcb[t].lastmtx = s.tcb[t].lastmtx
<1> DEFINE f == "actque"
           r == [s EXCEPT !.tcb[t][f] = v]
<1>1. WellFormed(s) /\ f \in TcbField /\ f \notin {"priority", "bpriority", "lastmtx"}
  BY DEF Inv, TcbField
<1> HIDE DEF f
<1>2. TcbSet(s, r, t, f, v)
  BY <1>1, SetTcb
<1> HIDE DEF r
<1>3. TcbEdit(s, r, t, {f}) /\ r.tcb[t].actque = v
  BY <1>2 DEF TcbSet, f
<1>4. /\ \A g \in TcbField \ {"actque"} : r.tcb[t][g] = s.tcb[t][g]
      /\ r.tmevtb = s.tmevtb /\ r.tinib = s.tinib /\ r.wobj = s.wobj
  <2>1. \A g \in TcbField \ {"actque"} : r.tcb[t][g] = s.tcb[t][g]
    BY <1>3 DEF TcbEdit, f
  <2> QED BY <1>3, <2>1, TcbEditFields
<1>5. InPlace(s, r, t)
  BY <1>4 DEF InPlace, TcbField
<1>6. TaskOK(s, t, E)
  BY DEF Inv
<1>7. TaskOK(r, t, E)
  BY <1>3, <1>4, <1>6 DEF TaskOK, WinfoOK, WobjExists, Exists, TcbField
<1>8. /\ r.tcb[t].lastmtx = s.tcb[t].lastmtx /\ r.tcb[t].tstat = s.tcb[t].tstat
      /\ r.tcb[t].bpriority = s.tcb[t].bpriority /\ WaitsLess(s, r, t)
  BY <1>4 DEF TcbField, WaitsLess, BlockedOn
<1>9. Inv(r, {}, E) /\ Keeps(s, r) /\ r.p_schedtsk = s.p_schedtsk
  BY <1>3, <1>5, <1>7, <1>8, Restate
<1> QED BY <1>8, <1>9 DEF r, f

(* A queued wakeup, a datum, a permission: what the invariant is not about.*)
LEMMA plain_inv ==
    ASSUME NEW s, NEW E, Inv(s, {}, E), NEW t \in TSK,
           NEW f \in {"wupque", "wobjdata", "prelock"}, NEW v
    PROVE  LET r == [s EXCEPT !.tcb[t][f] = v]
           IN  /\ Inv(r, {}, E) /\ Keeps(s, r) /\ r.p_schedtsk = s.p_schedtsk
               /\ Ready(r, {}) = Ready(s, {}) /\ TcbEdit(s, r, t, {f})
<1> DEFINE r == [s EXCEPT !.tcb[t][f] = v]
<1>1. WellFormed(s) /\ f \in TcbField /\ f \notin {"priority", "bpriority", "lastmtx"}
      /\ {f} \cap TaskField = {} /\ "lastmtx" \notin {f}
  BY DEF Inv, TcbField, TaskField
<1>2. TcbSet(s, r, t, f, v)
  BY <1>1, SetTcb
<1> HIDE DEF r
<1>3. TcbEdit(s, r, t, {f})
  BY <1>2 DEF TcbSet
<1> QED BY <1>1, <1>3, PlainEdit DEF r

(* What the configuration gives out.                                       *)
LEMMA Configured ==
    ASSUME app \in DOMAIN CONFIG
    PROVE  LET c == CONFIG[app]
           IN  /\ IsConfig(c)
               /\ ToSet(c.dynamic_tsk) \subseteq TSK /\ ToSet(c.dynamic_mtx) \subseteq MTX
               /\ c.tskpri \subseteq TPRI
<1> DEFINE c == CONFIG[app]
<1>1. IsConfig(c)
  BY KernelAssumption
<1>2. c.dynamic_tsk \in Seq(TSK) /\ c.dynamic_mtx \in Seq(MTX) /\ c.tskpri \subseteq TPRI
  BY <1>1 DEF IsConfig
<1> QED BY <1>1, <1>2 DEF ToSet

LEMMA del_tsk_step ==
    ASSUME IInv, NEW t \in TSK, del_tsk(t)
    PROVE  StepOK
<1> DEFINE c == CONFIG[app]
           s == Cur
           r == [s EXCEPT !.tinib[t].tskatr = {"TA_NOEXS"}, !.free_tcb = Append(s.free_tcb, t)]
<1>1. /\ app \in DOMAIN CONFIG /\ KInv(s, c) /\ WellFormed(s)
      /\ ~excpt => s.p_runtsk = s.p_schedtsk
  BY StepBegins
<1>2. /\ ~excpt /\ excpt' = excpt
      /\ Exists(s, t) /\ t \in ToSet(c.dynamic_tsk) /\ s.tcb[t].tstat = TS_DORMANT
  BY CurFields, CurExists DEF del_tsk, TskCtxUnl, UnchangedContext, TSTAT_DORMANT, dynamic_tsk
<1>3. Become(r)
  BY DEF del_tsk, queue_insert_prev
<1> HIDE DEF s
<1>4. /\ WellFormed(r) /\ Agree(s, r, {"free_tcb", "tinib"})
      /\ r.free_tcb = Append(s.free_tcb, t)
      /\ \A u \in TSK : r.tinib[u].tskatr = IF u = t THEN {"TA_NOEXS"} ELSE s.tinib[u].tskatr
  <2> DEFINE z == [s.tinib EXCEPT ![t].tskatr = {"TA_NOEXS"}]
             l == Append(s.free_tcb, t)
  <2>1. HasFields(s, KernelField) /\ HasFields(s.tinib, TSK)
        /\ \A u \in TSK : HasFields(s.tinib[u], {"tskatr", "ipriority"})
                          /\ s.tinib[u].ipriority \in TPRI
    BY <1>1 DEF WellFormed
  <2>2. /\ HasFields(z, TSK)
        /\ \A u \in TSK : /\ HasFields(z[u], {"tskatr", "ipriority"})
                          /\ z[u].ipriority \in TPRI
                          /\ z[u].tskatr = IF u = t THEN {"TA_NOEXS"} ELSE s.tinib[u].tskatr
    BY <2>1 DEF HasFields
  <2>3. r = [s EXCEPT !.tinib = z, !.free_tcb = l]
    OBVIOUS
  <2> HIDE DEF z, l, r
  <2>4. r.tinib = z /\ r.free_tcb = l /\ HasFields(r, KernelField)
        /\ \A f \in KernelField \ {"free_tcb", "tinib"} : r[f] = s[f]
    BY <2>1, <2>3 DEF HasFields, KernelField
  <2>5. WellFormed(r)
    BY <1>1, <2>2, <2>4 DEF WellFormed, KernelField
  <2> QED BY <2>2, <2>4, <2>5 DEF Agree, l
<1> HIDE DEF r
<1>5. \A u \in TSK : Exists(r, u) <=> Exists(s, u) /\ u # t
  BY <1>4 DEF Exists
<1>6. Lists(r.free_tcb, {u \in ToSet(c.dynamic_tsk) : ~Exists(r, u)}, TSK)
  <2> DEFINE S == {u \in ToSet(c.dynamic_tsk) : ~Exists(s, u)}
  <2>1. Lists(s.free_tcb, S, TSK) /\ t \notin S
    BY <1>1, <1>2 DEF KInv, FreeOK
  <2>2. ToSet(c.dynamic_tsk) \subseteq TSK
    BY <1>1, Configured
  <2>3. {u \in ToSet(c.dynamic_tsk) : ~Exists(r, u)} = S \cup {t}
    BY <1>2, <1>5, <2>2
  <2> HIDE DEF S
  <2> QED BY <1>4, <2>1, <2>3, AppendLists
<1>7. \A u \in TSK : (Exists(r, u) <=> Exists(s, u)) \/ s.tcb[u].tstat = TS_DORMANT
  BY <1>2, <1>5
<1>8. KInv(r, c) /\ r.p_schedtsk = s.p_schedtsk /\ r.p_runtsk = s.p_runtsk
  BY <1>1, <1>4, <1>6, <1>7, Relabel
<1>9. Undisturbed(s, r)
  BY <1>8 DEF Undisturbed
<1> QED BY <1>1, <1>2, <1>3, <1>8, <1>9, Became DEF s

LEMMA act_tsk_step ==
    ASSUME IInv, NEW t \in TSK, act_tsk(t)
    PROVE  StepOK
<1>1. Inv(Cur, {}, Ends(Cur))
  BY StepBegins
<1>2. Exists(Cur, t) /\ UnchangedContext /\ Cur.tcb[t].tstat = tcb[t].tstat
  BY CurExists, CurFields DEF act_tsk
<1>3. CASE tcb[t].tstat = TS_DORMANT
  <2> DEFINE r == make_active(Cur, t)
  <2>1. Inv(r, {}, Ends(Cur)) /\ Keeps(Cur, r)
    BY <1>1, <1>2, <1>3, activate_inv
  <2>2. Become(dispatch_or_request(r))
    BY <1>3 DEF act_tsk, TSTAT_DORMANT
  <2> HIDE DEF r
  <2> QED BY <1>2, <2>1, <2>2, Dispatched
<1>4. CASE tcb[t].tstat # TS_DORMANT
  <2> DEFINE r == [Cur EXCEPT !.tcb[t].actque = TRUE]
  <2>1. Inv(r, {}, Ends(Cur)) /\ Keeps(Cur, r) /\ r.p_schedtsk = Cur.p_schedtsk
    BY <1>1, <1>2, <1>4, actque_inv
  <2>2. Become(r) /\ excpt' = excpt
    BY <1>4 DEF act_tsk, TSTAT_DORMANT, UnchangedContext
  <2> HIDE DEF r
  <2> QED BY <2>1, <2>2, Quiet
<1> QED BY <1>3, <1>4

LEMMA can_act_step ==
    ASSUME IInv, NEW t \in TSK, can_act(t)
    PROVE  StepOK
<1> DEFINE r == [Cur EXCEPT !.tcb[t].actque = FALSE]
<1>1. Inv(Cur, {}, Ends(Cur))
  BY StepBegins
<1>2. Inv(r, {}, Ends(Cur)) /\ Keeps(Cur, r) /\ r.p_schedtsk = Cur.p_schedtsk
  BY <1>1, actque_inv
<1>3. Become(r) /\ excpt' = excpt
  BY DEF can_act, UnchangedContext
<1> HIDE DEF r
<1> QED BY <1>2, <1>3, Quiet

(* The running task keeps for itself what it has read before the lock.     *)
LEMMA chg_pri_ini_step ==
    ASSUME IInv, NEW t \in TSK, chg_pri_ini(t)
    PROVE  StepOK
<1> DEFINE u == p_runtsk
           v == [tskid |-> t, newbpri |-> tinib[t].ipriority]
           r == [Cur EXCEPT !.tcb[u].prelock = v]
<1>1. Inv(Cur, {}, Ends(Cur))
  BY StepBegins
<1>2. u \in TSK
  BY Running DEF chg_pri_ini, TskCtxUnl
<1>3. Become(r) /\ excpt' = excpt
  BY DEF chg_pri_ini, UnchangedContext
<1> HIDE DEF u, v
<1>4. Inv(r, {}, Ends(Cur)) /\ Keeps(Cur, r) /\ r.p_schedtsk = Cur.p_schedtsk
  <2> DEFINE f == "prelock"
  <2>1. f \in {"wupque", "wobjdata", "prelock"}
    OBVIOUS
  <2> HIDE DEF f
  <2>2. LET n == [Cur EXCEPT !.tcb[u][f] = v]
        IN  Inv(n, {}, Ends(Cur)) /\ Keeps(Cur, n) /\ n.p_schedtsk = Cur.p_schedtsk
    BY <1>1, <1>2, <2>1, plain_inv
  <2> QED BY <2>2 DEF f
<1> HIDE DEF r
<1> QED BY <1>3, <1>4, Quiet

(* chg_pri, from a state whose task in p_runtsk is that of the step.       *)
LEMMA set_bpriority_step ==
    ASSUME IInv, ~excpt, NEW s, Inv(s, {}, Ends(Cur)), Keeps(Cur, s),
           s.p_schedtsk = Cur.p_schedtsk, NEW t \in TSK, NEW p \in TPRI,
           mutex_check_ceilpri(s, t, p),
           Become(set_bpriority(s, t, p)), UnchangedContext
    PROVE  StepOK
<1> DEFINE r == [s EXCEPT !.tcb[t].bpriority = p]
           n == change_priority(r, t, p, FALSE)
<1>1. /\ Inv(r, {}, Ends(Cur)) /\ KeepsLocks(s, r) /\ r.p_schedtsk = s.p_schedtsk
      /\ Inv(n, {}, Ends(Cur)) /\ KeepsLocks(s, n)
      /\ CeilingsKept(s, IF mutex_scan_ceilmtx(r, t) THEN r ELSE n, {})
  BY base_priority_inv
<1>2. Preserves(Cur, s)
  BY KeepsPreserves
<1>3. \/ Become(r) /\ mutex_scan_ceilmtx(r, t)
      \/ Become(dispatch(n)) /\ ~mutex_scan_ceilmtx(r, t)
  BY DEF set_bpriority
<1> HIDE DEF r, n
<1>4. excpt' = excpt
  BY DEF UnchangedContext
<1>5. CASE Become(r) /\ mutex_scan_ceilmtx(r, t)
  <2>1. Preserves(s, r)
    BY <1>1, <1>5, LocksPreserved
  <2>2. Preserves(Cur, r)
    BY <1>2, <2>1, PreservesTrans
  <2> QED BY <1>1, <1>4, <1>5, <2>2, PreservedQuiet
<1>6. CASE Become(dispatch(n)) /\ ~mutex_scan_ceilmtx(r, t)
  <2>1. Preserves(s, n)
    BY <1>1, <1>6, LocksPreserved
  <2>2. Preserves(Cur, n)
    BY <1>2, <2>1, PreservesTrans
  <2> QED BY <1>1, <1>6, <2>2, PreservedDispatched
<1> QED BY <1>3, <1>5, <1>6

LEMMA chg_pri_step ==
    ASSUME IInv, NEW t \in TSK, NEW p \in CONFIG[app].tskpri, chg_pri(t, p)
    PROVE  StepOK
<1>1. app \in DOMAIN CONFIG /\ Inv(Cur, {}, Ends(Cur)) /\ Keeps(Cur, Cur)
  BY StepBegins, KeepsSelf
<1>2. p \in TPRI
  BY <1>1, Configured
<1>3. ~excpt /\ Become(set_bpriority(Cur, t, p)) /\ UnchangedContext
      /\ mutex_check_ceilpri(Cur, t, p)
  BY DEF chg_pri, TskCtxUnl, MayChangePri
<1> QED BY <1>1, <1>2, <1>3, set_bpriority_step

LEMMA chg_pri_ini_locked_step ==
    ASSUME IInv, NEW t \in TSK, NEW p \in TPRI, chg_pri_ini_locked(t, p)
    PROVE  StepOK
<1> DEFINE u == p_runtsk
           r == [Cur EXCEPT !.tcb[u].prelock = NULL]
<1>1. Inv(Cur, {}, Ends(Cur))
  BY StepBegins
<1>2. u \in TSK
  BY Running DEF chg_pri_ini_locked, BeforeLock
<1>3. ~excpt /\ UnchangedContext /\ excpt' = excpt
      /\ \/ Become(set_bpriority(r, t, p)) /\ mutex_check_ceilpri(Cur, t, p)
         \/ Become(r)
  BY DEF chg_pri_ini_locked, UnchangedContext, MayChangePri
<1> HIDE DEF u
<1>4. Inv(r, {}, Ends(Cur)) /\ Keeps(Cur, r) /\ r.p_schedtsk = Cur.p_schedtsk
      /\ TcbEdit(Cur, r, u, {"prelock"})
  <2> DEFINE f == "prelock"
  <2>1. f \in {"wupque", "wobjdata", "prelock"}
    OBVIOUS
  <2> HIDE DEF f
  <2>2. LET n == [Cur EXCEPT !.tcb[u][f] = NULL]
        IN  Inv(n, {}, Ends(Cur)) /\ Keeps(Cur, n) /\ n.p_schedtsk = Cur.p_schedtsk
            /\ TcbEdit(Cur, n, u, {f})
    BY <1>1, <1>2, <2>1, plain_inv
  <2> QED BY <2>2 DEF f
<1> HIDE DEF r
<1>5. CASE Become(r)
  BY <1>3, <1>4, <1>5, Quiet
<1>6. CASE Become(set_bpriority(r, t, p)) /\ mutex_check_ceilpri(Cur, t, p)
  <2>1. /\ r.tcb[t].lastmtx = Cur.tcb[t].lastmtx /\ r.tcb[t].tstat = Cur.tcb[t].tstat
        /\ r.tcb[t].p_wobjcb = Cur.tcb[t].p_wobjcb
        /\ r.mtx = Cur.mtx /\ r.wobj = Cur.wobj
    <3>1. r.mtx = Cur.mtx /\ r.wobj = Cur.wobj
      BY <1>4, TcbEditFields
    <3>2. CASE t = u
      BY <1>4, <3>1, <3>2 DEF TcbEdit, TcbField
    <3>3. CASE t # u
      BY <1>4, <3>1, <3>3 DEF TcbEdit
    <3> QED BY <3>2, <3>3
  <2>2. mutex_check_ceilpri(r, t, p)
    BY <1>6, <2>1 DEF mutex_check_ceilpri, held_mtx, MTX_CEILING
  <2> QED BY <1>3, <1>4, <1>6, <2>2, set_bpriority_step
<1> QED BY <1>3, <1>5, <1>6

LEMMA acre_tsk_step ==
    ASSUME IInv, NEW n \in CONFIG[app].acre_tsk, "TA_ACT" \notin n.tskatr,
           acre_tsk(n.tskatr, n.ipriority)
    PROVE  StepOK
<1> DEFINE c == CONFIG[app]
           s == Cur
           t == Head(s.free_tcb)
           v == [tskatr |-> n.tskatr, ipriority |-> n.ipriority]
           z == [s.tinib EXCEPT ![t] = v]
           l == Tail(s.free_tcb)
           b == [s EXCEPT !.free_tcb = l, !.tinib = z]
           a == [b EXCEPT !.tcb[t].actque = FALSE]
           r == make_dormant(a, t)
<1>1. /\ app \in DOMAIN CONFIG /\ KInv(s, c) /\ WellFormed(s)
      /\ ~excpt => s.p_runtsk = s.p_schedtsk
  BY StepBegins
<1>2. ~excpt /\ excpt' = excpt /\ s.free_tcb # <<>>
  BY CurFields DEF acre_tsk, TskCtxUnl, UnchangedContext
<1>3. a = [s EXCEPT !.free_tcb = Tail(@),
                    !.tinib[t] = [tskatr |-> n.tskatr, ipriority |-> n.ipriority],
                    !.tcb[t].actque = FALSE]
  OBVIOUS
<1>4. Become(r)
  <2> DEFINE h == Head(free_tcb)
             d == make_dormant([Cur EXCEPT !.free_tcb = Tail(@),
                                           !.tinib[h] = [tskatr    |-> n.tskatr,
                                                         ipriority |-> n.ipriority],
                                           !.tcb[h].actque = FALSE], h)
  <2>1. Become(d)
    BY DEF acre_tsk
  <2>2. h = t
    BY CurFields
  <2>3. d = r
    BY <1>3, <2>2
  <2> HIDE DEF d, r
  <2> QED BY <2>1, <2>3
<1>5. n.ipriority \in TPRI /\ "TA_NOEXS" \notin n.tskatr
  <2> DEFINE A == SUBSET {"TA_ACT", "TA_NOACTQUE"}
  <2>1. c.acre_tsk \subseteq [tskatr : A, ipriority : TPRI]
    BY <1>1, Configured DEF IsConfig
  <2> HIDE DEF A
  <2>2. n.tskatr \in A /\ n.ipriority \in TPRI
    BY <2>1
  <2> QED BY <2>2 DEF A
<1> HIDE DEF s
<1>6. DEFINE S == {u \in ToSet(c.dynamic_tsk) : ~Exists(s, u)}
<1>7. Lists(s.free_tcb, S, TSK) /\ S \in SUBSET TSK
  BY <1>1, Configured DEF KInv, FreeOK
<1> HIDE DEF S
<1>8. Lists(l, S \ {t}, TSK) /\ t \in S
  BY <1>2, <1>7, TailLists
<1>9. t \in TSK /\ ~Exists(s, t) /\ t \in ToSet(c.dynamic_tsk)
  BY <1>7, <1>8 DEF S
<1>10. s.tcb[t].tstat = TS_DORMANT /\ s.tcb[t].lastmtx = <<>>
  BY <1>1, <1>9 DEF KInv, Inv, TaskOK, LocksOK, LockInv
<1> HIDE DEF t
<1>11. /\ HasFields(s, KernelField) /\ HasFields(s.tinib, TSK)
       /\ \A u \in TSK : HasFields(s.tinib[u], {"tskatr", "ipriority"})
                         /\ s.tinib[u].ipriority \in TPRI
  BY <1>1 DEF WellFormed
<1>12. HasFields(v, {"tskatr", "ipriority"}) /\ v.ipriority \in TPRI
       /\ "TA_NOEXS" \notin v.tskatr
  BY <1>5 DEF HasFields
<1> HIDE DEF v
<1>13. /\ HasFields(z, TSK)
       /\ \A u \in TSK : z[u] = IF u = t THEN v ELSE s.tinib[u]
  BY <1>11 DEF HasFields
<1> HIDE DEF z, l
<1>14. b.tinib = z /\ b.free_tcb = l /\ HasFields(b, KernelField)
       /\ \A f \in KernelField \ {"free_tcb", "tinib"} : b[f] = s[f]
  BY <1>11 DEF HasFields, KernelField
<1> HIDE DEF b
<1>15. WellFormed(b)
  BY <1>1, <1>11, <1>12, <1>13, <1>14 DEF WellFormed, KernelField
<1>16. Agree(s, b, {"free_tcb", "tinib"})
  BY <1>14 DEF Agree
<1>17. \A u \in TSK : Exists(b, u) <=> Exists(s, u) \/ u = t
  BY <1>9, <1>12, <1>13, <1>14 DEF Exists
<1>18. {u \in ToSet(c.dynamic_tsk) : ~Exists(b, u)} = S \ {t}
  BY <1>1, <1>17, Configured DEF S
<1>19. Lists(b.free_tcb, {u \in ToSet(c.dynamic_tsk) : ~Exists(b, u)}, TSK)
  BY <1>8, <1>14, <1>18
<1>20. \A u \in TSK : (Exists(b, u) <=> Exists(s, u)) \/ s.tcb[u].tstat = TS_DORMANT
  BY <1>10, <1>17
<1>21. KInv(b, c) /\ b.p_schedtsk = s.p_schedtsk /\ b.p_runtsk = s.p_runtsk /\ b.tcb = s.tcb
  BY <1>1, <1>15, <1>16, <1>19, <1>20, Relabel
<1>22. Inv(a, {}, Ends(b)) /\ Keeps(b, a) /\ a.p_schedtsk = b.p_schedtsk
       /\ a.tcb[t].tstat = b.tcb[t].tstat /\ a.tcb[t].lastmtx = b.tcb[t].lastmtx
  BY <1>9, <1>21, OperationInv, actque_inv
<1> HIDE DEF a
<1>23. Inv(r, {}, Ends(b)) /\ Keeps(a, r) /\ r.p_schedtsk = a.p_schedtsk
  BY <1>9, <1>10, <1>21, <1>22, make_dormant_kept
<1> HIDE DEF r
<1>24. KInv(r, c)
  BY <1>21, <1>22, <1>23, KeepsTrans, Operation
<1>25. r.p_runtsk = s.p_runtsk /\ r.p_schedtsk = s.p_schedtsk
  BY <1>21, <1>22, <1>23, KeepsFields
<1>26. Undisturbed(s, r)
  BY <1>25 DEF Undisturbed
<1> QED BY <1>1, <1>2, <1>4, <1>24, <1>25, <1>26, Became DEF s

-----------------------------------------------------------------------------
(* Task termination calls.                                                 *)

(* Termination is allowed, or requested of a runnable task.                *)
Requested(s, E, t, f, v) ==
    \/ f = "enater" /\ (v /\ s.tcb[t].raster => t \in E)
    \/ f = "raster" /\ TSTAT_RUNNABLE(s.tcb[t].tstat) /\ ~s.tcb[t].enater

LEMMA request_inv ==
    ASSUME NEW s, NEW E, Inv(s, {}, E), NEW t \in TSK, NEW v, NEW f,
           Requested(s, E, t, f, v)
    PROVE  LET r == [s EXCEPT !.tcb[t][f] = v]
           IN  Inv(r, {}, E) /\ Keeps(s, r) /\ r.p_schedtsk = s.p_schedtsk
<1> DEFINE r == [s EXCEPT !.tcb[t][f] = v]
<1>1. WellFormed(s) /\ f \in TcbField /\ f \notin {"priority", "bpriority", "lastmtx"}
  BY DEF Inv, TcbField, Requested
<1>2. TcbSet(s, r, t, f, v)
  BY <1>1, SetTcb
<1> HIDE DEF r
<1>3. TcbEdit(s, r, t, {f}) /\ r.tcb[t][f] = v
  BY <1>2 DEF TcbSet
<1>4. \A g \in TcbField \ {f} : r.tcb[t][g] = s.tcb[t][g]
  BY <1>3 DEF TcbEdit
<1>5. r.tmevtb = s.tmevtb /\ r.tinib = s.tinib /\ r.wobj = s.wobj
  BY <1>3, TcbEditFields
<1>6. /\ r.tcb[t].tstat = s.tcb[t].tstat /\ r.tcb[t].priority = s.tcb[t].priority
      /\ r.tcb[t].p_wobjcb = s.tcb[t].p_wobjcb /\ r.tcb[t].winfo = s.tcb[t].winfo
      /\ r.tcb[t].insvc = s.tcb[t].insvc /\ r.tcb[t].actque = s.tcb[t].actque
      /\ r.tcb[t].lastmtx = s.tcb[t].lastmtx /\ r.tcb[t].bpriority = s.tcb[t].bpriority
      /\ \/ f = "enater" /\ r.tcb[t].raster = s.tcb[t].raster /\ r.tcb[t].enater = v
         \/ f = "raster" /\ r.tcb[t].enater = s.tcb[t].enater
  BY <1>3, <1>4 DEF TcbField, Requested
<1>7. InPlace(s, r, t)
  BY <1>6 DEF InPlace
<1>8. TaskOK(s, t, E)
  BY DEF Inv
<1>9. TaskOK(r, t, E)
  BY <1>5, <1>6, <1>8 DEF TaskOK, WinfoOK, WobjExists, Exists, Requested
<1>10. /\ r.tcb[t].lastmtx = s.tcb[t].lastmtx
       /\ r.tcb[t].tstat = TS_DORMANT => s.tcb[t].tstat = TS_DORMANT
       /\ r.tcb[t].bpriority = s.tcb[t].bpriority /\ WaitsLess(s, r, t)
  BY <1>6 DEF WaitsLess, BlockedOn
<1>11. Inv(r, {}, E) /\ Keeps(s, r) /\ r.p_schedtsk = s.p_schedtsk
  BY <1>3, <1>7, <1>9, <1>10, Restate
<1> QED BY <1>11 DEF r

(* Dispatching is enabled, and the task to run is searched.                *)
LEMMA EnableDispatch ==
    ASSUME NEW s, NEW c, KInv(s, c), NEW t \in Ready(s, {}),
           NEW e, HasFields(e, KernelField),
           Agree(s, e, {"enadsp", "ipm", "dspflg", "p_schedtsk"}),
           e.enadsp, ~e.ipm, e.dspflg = TRUE, e.p_schedtsk = search_schedtsk(s)
    PROVE  /\ Inv(e, {}, Ends(s)) /\ FreeOK(e, c) /\ LocksOK(e)
           /\ e.tcb = s.tcb /\ e.p_runtsk = s.p_runtsk
           /\ \A u : Exists(e, u) <=> Exists(s, u)
<1>1. \A f \in KernelField \ {"enadsp", "ipm", "dspflg", "p_schedtsk"} : e[f] = s[f]
  BY DEF Agree
<1>2. /\ e.tcb = s.tcb /\ e.ready_queue = s.ready_queue /\ e.ready_primap = s.ready_primap
      /\ e.p_runtsk = s.p_runtsk /\ e.tinib = s.tinib /\ e.wobj = s.wobj
      /\ e.free_tcb = s.free_tcb /\ e.free_mtxcb = s.free_mtxcb /\ e.free_cb = s.free_cb
      /\ e.mtx = s.mtx /\ e.tmevtb = s.tmevtb
  BY <1>1 DEF KernelField
<1>3. Inv(s, {}, Ends(s)) /\ WellFormed(s)
  BY OperationInv
<1>4. WellFormed(e)
  BY <1>2, <1>3 DEF WellFormed
<1>5. Sched(s, Ready(s, {})) /\ \A u \in Ready(s, {}) : s.tcb[u].priority \in TPRI
  BY <1>3 DEF Inv, WellFormed, TcbOK, Ready
<1>6. Sched(e, Ready(s, {}))
  <2> DEFINE R == Ready(s, {})
  <2>1. Sched(s, R) /\ R # {} /\ \A u \in R : s.tcb[u].priority \in TPRI
    BY <1>5
  <2> HIDE DEF R
  <2>2. Sched(e, R)
    BY <1>2, <2>1, search_schedtsk_sched
  <2> QED BY <2>2 DEF R
<1>7. Agree(s, e, ProcessorField) /\ \A u \in TSK : TaskOK(s, u, Ends(s))
  BY <1>3 DEF Agree, ProcessorField, ReadyFields, Inv
<1>8. Inv(e, {}, Ends(s))
  BY <1>3, <1>4, <1>6, <1>7, Switch
<1>9. /\ \A u : Exists(e, u) <=> Exists(s, u)
      /\ \A w : WobjExists(e, w) <=> WobjExists(s, w)
  BY <1>2 DEF Exists, WobjExists
<1>10. FreeOK(e, c)
  BY <1>2, <1>9 DEF FreeOK, KInv
<1>11. LocksOK(e)
  BY <1>2, LockUntouched DEF KInv
<1> QED BY <1>2, <1>8, <1>9, <1>10, <1>11

(* The end of a task unlocks its mutexes.                                  *)
LEMMA TerminatePreserves ==
    ASSUME NEW s, NEW E, Inv(s, {}, E), NEW t \in TSK, Exists(s, t),
           s.tcb[t].tstat # TS_DORMANT,
           TSTAT_RUNNABLE(s.tcb[t].tstat) => s.dspflg \/ t # s.p_runtsk
    PROVE  LET r == task_terminate(s, t)
           IN  Inv(r, {}, E \ {t}) /\ Preserves(s, r)
<1> DEFINE r == task_terminate(s, t)
<1>1. /\ Inv(r, {}, E \ {t}) /\ Passes(s, r) /\ CeilingsKept(s, r, {})
      /\ LockInv(s, {}, {}) => LockInv(r, {}, {}) /\ NoNewOwner(s, r)
  BY task_terminate_inv
<1> QED BY <1>1 DEF Preserves, LocksOK, Protocol, CeilingsKept

(* The task that ends is the only one whose termination was put off.       *)
LEMMA TerminateLast ==
    ASSUME NEW s, NEW c, NEW t \in TSK, NEW E \in SUBSET {t}, Inv(s, {}, E), FreeOK(s, c),
           LocksOK(s),
           s.dspflg = TRUE, s.enadsp, ~s.ipm, Exists(s, t), s.tcb[t].tstat # TS_DORMANT
    PROVE  LET r == task_terminate(s, t)
           IN  KInv(r, c) /\ r.dspflg
<1> DEFINE r == task_terminate(s, t)
<1>1. Inv(r, {}, E \ {t}) /\ Passes(s, r) /\ LocksOK(r)
  BY TerminatePreserves DEF Preserves
<1> HIDE DEF r
<1>2. r.dspflg = TRUE /\ r.enadsp /\ ~r.ipm
  BY <1>1, PassesFields
<1>3. Ends(r) = {} /\ E \ {t} = {}
  BY <1>2 DEF Ends
<1>4. /\ \A u : Exists(r, u) <=> Exists(s, u)
      /\ \A w : WobjExists(r, w) <=> WobjExists(s, w)
  BY <1>1, PassesFields DEF Exists, WobjExists
<1>5. FreeOK(r, c)
  BY <1>1, <1>4, PassesFields DEF FreeOK
<1> QED BY <1>1, <1>2, <1>3, <1>5 DEF KInv, r

LEMMA ext_tsk_step ==
    ASSUME IInv, ext_tsk
    PROVE  StepOK
<1> DEFINE c == CONFIG[app]
           t == p_runtsk
           e == [Cur EXCEPT !.enadsp = TRUE, !.ipm = FALSE, !.dspflg = TRUE,
                            !.p_schedtsk = search_schedtsk(Cur)]
           s == IF ~enadsp \/ ipm THEN e ELSE Cur
<1>1. /\ app \in DOMAIN CONFIG /\ KInv(Cur, c) /\ WellFormed(Cur) /\ Inv(Cur, {}, Ends(Cur))
  BY StepBegins
<1>2. Become(dispatcher(task_terminate(s, t)))
  BY DEF ext_tsk
<1>3. ~excpt /\ p_runtsk # NULL /\ excpt' = excpt
  BY DEF ext_tsk, UnchangedContext
<1>4. /\ t \in Ready(Cur, {}) /\ t \in TSK /\ Cur.tcb[t].tstat # TS_DORMANT
      /\ Exists(Cur, t) /\ t = Cur.p_runtsk
  BY <1>3, Running
<1>5. KInv(task_terminate(s, t), c) /\ task_terminate(s, t).dspflg
  <2>1. CASE ~enadsp \/ ipm
    <3>1. s = e /\ HasFields(Cur, KernelField)
      BY <1>1, <2>1 DEF WellFormed
    <3> DEFINE p == search_schedtsk(Cur)
               d == Cur
    <3>2. /\ HasFields(e, KernelField) /\ e.enadsp /\ ~e.ipm /\ e.dspflg = TRUE
          /\ e.p_schedtsk = p
          /\ \A f \in KernelField \ {"enadsp", "ipm", "dspflg", "p_schedtsk"} : e[f] = d[f]
      <4>1. HasFields(d, KernelField) /\ e = [d EXCEPT !.enadsp = TRUE, !.ipm = FALSE,
                                                      !.dspflg = TRUE, !.p_schedtsk = p]
        BY <3>1
      <4> HIDE DEF p, d, e
      <4> QED BY <4>1 DEF HasFields, KernelField
    <3> HIDE DEF e
    <3>3. Agree(Cur, e, {"enadsp", "ipm", "dspflg", "p_schedtsk"})
      BY <3>2 DEF Agree
    <3>4. /\ Inv(e, {}, Ends(Cur)) /\ FreeOK(e, c) /\ e.tcb = Cur.tcb /\ LocksOK(e)
          /\ Exists(e, t) <=> Exists(Cur, t)
      BY <1>1, <1>4, <3>2, <3>3, EnableDispatch
    <3>5. Ends(Cur) \in SUBSET {t}
      BY <1>4 DEF Ends
    <3>6. KInv(task_terminate(e, t), c) /\ task_terminate(e, t).dspflg
      BY <1>4, <3>2, <3>4, <3>5, TerminateLast
    <3> QED BY <3>1, <3>6
  <2>2. CASE ~(~enadsp \/ ipm)
    <3>1. s = Cur /\ Cur.enadsp /\ ~Cur.ipm /\ FreeOK(Cur, c) /\ Cur.dspflg
      BY <1>1, <2>2, CurFields DEF KInv
    <3>2. Ends(Cur) = {}
      BY <3>1 DEF Ends
    <3> DEFINE r == task_terminate(Cur, t)
    <3>3. Inv(r, {}, Ends(Cur) \ {t}) /\ Preserves(Cur, r)
      BY <1>1, <1>4, <3>1, TerminatePreserves
    <3> HIDE DEF r
    <3>4. Ends(Cur) \ {t} = Ends(Cur)
      BY <3>2
    <3>5. KInv(r, c)
      BY <1>1, <3>3, <3>4, Preserved
    <3>6. r.dspflg
      BY <3>1, <3>3, PassesFields DEF Preserves
    <3> QED BY <3>1, <3>5, <3>6 DEF r
  <2> QED BY <2>1, <2>2
<1> HIDE DEF s
<1>6. KInv(dispatcher(task_terminate(s, t)), c)
      /\ dispatcher(task_terminate(s, t)).p_runtsk = dispatcher(task_terminate(s, t)).p_schedtsk
      /\ Undisturbed(Cur, dispatcher(task_terminate(s, t)))
  BY <1>5, dispatcher_kinv DEF Undisturbed
<1> QED BY <1>1, <1>2, <1>3, <1>6, Became

(* What CHECK_TSKCTX_UNL leaves.                                           *)
LEMMA TaskContext ==
    ASSUME IInv, NEW call, TskCtxUnl(call)
    PROVE  /\ ~excpt /\ p_runtsk # NULL
           /\ p_runtsk \in Ready(Cur, {}) /\ p_runtsk \in TSK
           /\ TSTAT_RUNNABLE(Cur.tcb[p_runtsk].tstat)
           /\ Cur.tcb[p_runtsk].tstat # TS_DORMANT
           /\ Exists(Cur, p_runtsk) /\ p_runtsk = Cur.p_runtsk
BY Running DEF TskCtxUnl

LEMMA terminate_other_step ==
    ASSUME IInv, NEW t \in TSK, t # p_runtsk, TaskExists(t),
           ~TSTAT_DORMANT(tcb[t].tstat), Become(dispatch(task_terminate(Cur, t)))
    PROVE  StepOK
<1> DEFINE r == task_terminate(Cur, t)
<1>1. Inv(Cur, {}, Ends(Cur))
  BY StepBegins
<1>2. Exists(Cur, t) /\ Cur.tcb[t].tstat # TS_DORMANT /\ t # Cur.p_runtsk
  BY CurExists, CurFields DEF TSTAT_DORMANT
<1>3. Inv(r, {}, Ends(Cur) \ {t}) /\ Preserves(Cur, r)
  BY <1>1, <1>2, TerminatePreserves
<1>4. Ends(Cur) \ {t} = Ends(Cur)
  BY <1>2 DEF Ends
<1>5. Become(dispatch(r))
  OBVIOUS
<1> HIDE DEF r
<1> QED BY <1>3, <1>4, <1>5, PreservedDispatched

LEMMA ter_tsk_step ==
    ASSUME IInv, NEW t \in TSK, ter_tsk(t)
    PROVE  StepOK
BY terminate_other_step DEF ter_tsk

LEMMA ras_ter_step ==
    ASSUME IInv, NEW t \in TSK, ras_ter(t)
    PROVE  StepOK
<1>1. Inv(Cur, {}, Ends(Cur))
  BY StepBegins
<1>2. TaskExists(t) /\ ~TSTAT_DORMANT(tcb[t].tstat) /\ t # p_runtsk /\ excpt' = excpt
  BY DEF ras_ter, UnchangedContext
<1>3. Exists(Cur, t) /\ Cur.tcb[t].tstat # TS_DORMANT /\ Cur.tcb[t] = tcb[t]
  BY <1>2, CurExists, CurFields DEF TSTAT_DORMANT
<1>4. CASE tcb[t].enater
  <2>1. Become(dispatch(task_terminate(Cur, t)))
    BY <1>4 DEF ras_ter
  <2> QED BY <1>2, <2>1, terminate_other_step
<1>5. CASE ~tcb[t].enater /\ TSTAT_RUNNABLE(tcb[t].tstat)
  <2> DEFINE r == [Cur EXCEPT !.tcb[t].raster = TRUE]
  <2>1. Become(r)
    BY <1>5 DEF ras_ter
  <2>2. Inv(r, {}, Ends(Cur)) /\ Keeps(Cur, r) /\ r.p_schedtsk = Cur.p_schedtsk
    <3> DEFINE f == "raster"
               v == TRUE
    <3>1. Requested(Cur, Ends(Cur), t, f, v)
      BY <1>3, <1>5 DEF Requested
    <3> HIDE DEF f, v
    <3>2. LET n == [Cur EXCEPT !.tcb[t][f] = v]
          IN  Inv(n, {}, Ends(Cur)) /\ Keeps(Cur, n) /\ n.p_schedtsk = Cur.p_schedtsk
      BY <1>1, <3>1, request_inv
    <3> QED BY <3>2 DEF f, v
  <2> HIDE DEF r
  <2> QED BY <1>2, <2>1, <2>2, Quiet
<1>6. CASE ~tcb[t].enater /\ ~TSTAT_RUNNABLE(tcb[t].tstat)
  <2> DEFINE request  == [Cur EXCEPT !.tcb[t].raster = TRUE]
             released == set_wercd(
                           wait_dequeue_tmevtb(wait_dequeue_wobj(request, t), t),
                           t, "E_RASTER")
             runnable(b) == [(IF b THEN released ELSE request)
                                EXCEPT !.tcb[t].tstat = TS_RUNNABLE]
             r(b) == make_runnable(runnable(b), t)
  <2>1. LET b == TSTAT_WAITING(Cur.tcb[t].tstat)
        IN  Inv(r(b), {}, Ends(Cur)) /\ Keeps(Cur, r(b))
    BY <1>1, <1>3, <1>6, raster_inv
  <2>2. LET b == TSTAT_WAITING(tcb[t].tstat)
        IN  Become(dispatch(r(b)))
    BY <1>6 DEF ras_ter
  <2>3. TSTAT_WAITING(Cur.tcb[t].tstat) = TSTAT_WAITING(tcb[t].tstat)
    BY <1>3
  <2> HIDE DEF r
  <2>4. PICK n : Inv(n, {}, Ends(Cur)) /\ Keeps(Cur, n) /\ Become(dispatch(n))
    BY <2>1, <2>2, <2>3
  <2> QED BY <2>4, Dispatched
<1> QED BY <1>4, <1>5, <1>6

LEMMA dis_ter_step ==
    ASSUME IInv, dis_ter
    PROVE  StepOK
<1> DEFINE t == p_runtsk
           r == [Cur EXCEPT !.tcb[t].enater = FALSE]
<1>1. Inv(Cur, {}, Ends(Cur))
  BY StepBegins
<1>2. t \in TSK
  BY TaskContext DEF dis_ter
<1>3. Become(r) /\ excpt' = excpt
  BY DEF dis_ter, UnchangedContext
<1> HIDE DEF t
<1>4. Inv(r, {}, Ends(Cur)) /\ Keeps(Cur, r) /\ r.p_schedtsk = Cur.p_schedtsk
  <2> DEFINE f == "enater"
             v == FALSE
  <2>1. Requested(Cur, Ends(Cur), t, f, v)
    BY DEF Requested
  <2> HIDE DEF f, v
  <2>2. LET n == [Cur EXCEPT !.tcb[t][f] = v]
        IN  Inv(n, {}, Ends(Cur)) /\ Keeps(Cur, n) /\ n.p_schedtsk = Cur.p_schedtsk
    BY <1>1, <1>2, <2>1, request_inv
  <2> QED BY <2>2 DEF f, v
<1> HIDE DEF r
<1> QED BY <1>3, <1>4, Quiet

LEMMA ena_ter_step ==
    ASSUME IInv, ena_ter
    PROVE  StepOK
<1> DEFINE t == p_runtsk
<1>1. Inv(Cur, {}, Ends(Cur)) /\ app \in DOMAIN CONFIG /\ KInv(Cur, CONFIG[app])
  BY StepBegins
<1>2. /\ t \in TSK /\ Cur.tcb[t].tstat # TS_DORMANT /\ Exists(Cur, t) /\ t = Cur.p_runtsk
      /\ ~excpt' /\ excpt' = excpt /\ Cur.tcb[t] = tcb[t] /\ Cur.dspflg = dspflg
  BY TaskContext, CurFields DEF ena_ter, UnchangedContext
<1>3. CASE tcb[t].raster /\ dspflg
  <2> DEFINE r == task_terminate(Cur, t)
  <2>1. Become(dispatcher(r))
    BY <1>3 DEF ena_ter
  <2>2. Inv(r, {}, Ends(Cur) \ {t}) /\ Preserves(Cur, r)
    BY <1>1, <1>2, <1>3, TerminatePreserves
  <2> HIDE DEF r
  <2>3. Ends(Cur) \ {t} = Ends(Cur)
    BY <1>2, <1>3 DEF Ends
  <2>4. KInv(r, CONFIG[app])
    BY <1>1, <2>2, <2>3, Preserved
  <2>5. KInv(dispatcher(r), CONFIG[app]) /\ dispatcher(r).p_runtsk = dispatcher(r).p_schedtsk
    BY <2>4, dispatcher_kinv
  <2>6. Undisturbed(Cur, dispatcher(r))
    BY <1>2, <1>3 DEF Undisturbed
  <2> QED BY <1>1, <1>2, <2>1, <2>5, <2>6, Became
<1>4. CASE ~(tcb[t].raster /\ dspflg)
  <2> DEFINE r == [Cur EXCEPT !.tcb[t].enater = TRUE]
  <2>1. Become(r)
    BY <1>4 DEF ena_ter
  <2>2. Cur.tcb[t].raster => t \in Ends(Cur)
    BY <1>2, <1>4 DEF Ends
  <2> HIDE DEF t
  <2>3. Inv(r, {}, Ends(Cur)) /\ Keeps(Cur, r) /\ r.p_schedtsk = Cur.p_schedtsk
    <3> DEFINE f == "enater"
               v == TRUE
    <3>1. Requested(Cur, Ends(Cur), t, f, v)
      BY <2>2 DEF Requested
    <3> HIDE DEF f, v
    <3>2. LET n == [Cur EXCEPT !.tcb[t][f] = v]
          IN  Inv(n, {}, Ends(Cur)) /\ Keeps(Cur, n) /\ n.p_schedtsk = Cur.p_schedtsk
      BY <1>1, <1>2, <3>1, request_inv
    <3> QED BY <3>2 DEF f, v
  <2> HIDE DEF r
  <2> QED BY <1>2, <2>1, <2>3, Quiet
<1> QED BY <1>3, <1>4

-----------------------------------------------------------------------------
(* System state calls.                                                     *)

LEMMA rot_rdq_step ==
    ASSUME IInv, NEW p \in CONFIG[app].tskpri, rot_rdq(p)
    PROVE  StepOK
<1> DEFINE r == rotate_ready_queue(Cur, p)
<1>1. app \in DOMAIN CONFIG /\ Inv(Cur, {}, Ends(Cur))
  BY StepBegins
<1>2. p \in TPRI
  BY <1>1, Configured
<1>3. Inv(r, {}, Ends(Cur)) /\ Keeps(Cur, r)
  BY <1>1, <1>2, rotate_inv
<1>4. Become(dispatch_or_request(r)) /\ UnchangedContext
  BY DEF rot_rdq
<1> HIDE DEF r
<1> QED BY <1>3, <1>4, Dispatched

(* A step that leaves the kernel's data as they are.                       *)
LEMMA Unchanged ==
    ASSUME IInv, UNCHANGED kvars, excpt => excpt'
    PROVE  StepOK
<1>1. /\ tcb' = tcb /\ tinib' = tinib /\ free_tcb' = free_tcb /\ wobj' = wobj /\ mtx' = mtx
      /\ free_mtxcb' = free_mtxcb /\ sem' = sem /\ flg' = flg /\ dtq' = dtq /\ pdq' = pdq
      /\ mpf' = mpf /\ free_cb' = free_cb /\ ready_queue' = ready_queue
      /\ ready_primap' = ready_primap /\ p_schedtsk' = p_schedtsk /\ p_runtsk' = p_runtsk
      /\ enadsp' = enadsp /\ dspflg' = dspflg /\ ipm' = ipm /\ tmevtb' = tmevtb
      /\ app' = app
  BY DEF kvars
<1>2. Cur' = Cur
  BY <1>1 DEF Cur
<1> DEFINE n == Cur'
<1>3. app \in DOMAIN CONFIG /\ KInv(Cur, CONFIG[app])
  BY StepBegins
<1>4. n = Cur
  BY <1>2
<1> HIDE DEF n
<1>5. KInv(n, CONFIG[app])
  BY <1>3, <1>4
<1>6. ~excpt' => p_runtsk' = p_schedtsk'
  BY <1>1 DEF IInv
<1>7. NoNewOwner(Cur, n)
  BY <1>4 DEF NoNewOwner
<1> QED BY <1>1, <1>3, <1>5, <1>6, <1>7 DEF StepOK, IInv, n

LEMMA lock_cpu_step ==
    ASSUME IInv, loc_cpu \/ unl_cpu
    PROVE  StepOK
BY Unchanged DEF loc_cpu, unl_cpu

Flags == {"enadsp", "ipm", "dspflg"}

(* Dispatching is disabled.                                                *)
LEMMA DisableDispatch ==
    ASSUME NEW s, NEW c, KInv(s, c), NEW t \in Ready(s, {}), t = s.p_runtsk,
           s.p_runtsk = s.p_schedtsk,
           NEW r, HasFields(r, KernelField), Agree(s, r, Flags), r.dspflg = FALSE,
           ~r.enadsp \/ r.ipm
    PROVE  KInv(r, c) /\ r.p_runtsk = r.p_schedtsk
<1>1. \A f \in KernelField \ Flags : r[f] = s[f]
  BY DEF Agree
<1>2. /\ r.tcb = s.tcb /\ r.ready_queue = s.ready_queue /\ r.ready_primap = s.ready_primap
      /\ r.p_runtsk = s.p_runtsk /\ r.tinib = s.tinib /\ r.wobj = s.wobj
      /\ r.free_tcb = s.free_tcb /\ r.free_mtxcb = s.free_mtxcb /\ r.free_cb = s.free_cb
      /\ r.mtx = s.mtx /\ r.tmevtb = s.tmevtb /\ r.p_schedtsk = s.p_schedtsk
  BY <1>1 DEF KernelField, Flags
<1>3. Inv(s, {}, Ends(s)) /\ WellFormed(s)
  BY OperationInv
<1>4. WellFormed(r)
  BY <1>2, <1>3 DEF WellFormed
<1>5. Sched(s, Ready(s, {}))
  BY <1>3 DEF Inv
<1>6. Sched(r, Ready(s, {}))
  BY <1>2, <1>5, disable_sched
<1>7. Agree(s, r, ProcessorField)
  BY <1>1 DEF Agree, ProcessorField, Flags
<1>8. Ends(r) = {t} /\ Ends(s) \subseteq {t}
  BY <1>2 DEF Ends
<1>9. \A u \in TSK : TaskOK(s, u, Ends(r))
  <2> TAKE u \in TSK
  <2>1. TaskOK(s, u, Ends(s))
    BY <1>3 DEF Inv
  <2> QED BY <1>8, <2>1 DEF TaskOK
<1>10. Inv(r, {}, Ends(r))
  BY <1>3, <1>4, <1>6, <1>7, <1>9, Switch
<1>11. /\ \A u : Exists(r, u) <=> Exists(s, u)
       /\ \A w : WobjExists(r, w) <=> WobjExists(s, w)
  BY <1>2 DEF Exists, WobjExists
<1>12. FreeOK(r, c)
  BY <1>2, <1>11 DEF FreeOK, KInv
<1>13. LocksOK(r)
  BY <1>2, LockUntouched DEF KInv
<1> QED BY <1>2, <1>10, <1>12, <1>13 DEF KInv

LEMMA dis_dsp_step ==
    ASSUME IInv, dis_dsp
    PROVE  StepOK
<1> DEFINE c == CONFIG[app]
           s == Cur
           r == [s EXCEPT !.enadsp = FALSE, !.dspflg = FALSE]
<1>1. app \in DOMAIN CONFIG /\ KInv(s, c) /\ HasFields(s, KernelField)
  BY StepBegins DEF WellFormed
<1>2. ~excpt /\ p_runtsk \in Ready(s, {}) /\ p_runtsk = s.p_runtsk
      /\ s.p_runtsk = s.p_schedtsk
  BY TaskContext, StepBegins DEF dis_dsp
<1>3. Become(r) /\ ~excpt'
  BY <1>2 DEF dis_dsp, UnchangedContext
<1> HIDE DEF s
<1>4. /\ HasFields(r, KernelField) /\ ~r.enadsp /\ r.dspflg = FALSE
      /\ \A f \in KernelField \ Flags : r[f] = s[f]
  BY <1>1 DEF HasFields, KernelField, Flags
<1> HIDE DEF r
<1>5. Agree(s, r, Flags)
  BY <1>4 DEF Agree
<1>6. KInv(r, c) /\ r.p_runtsk = r.p_schedtsk
  BY <1>1, <1>2, <1>4, <1>5, DisableDispatch
<1>7. Undisturbed(s, r)
  BY <1>4 DEF Undisturbed, KernelField, Flags
<1> QED BY <1>1, <1>3, <1>6, <1>7, Became DEF s

(* Dispatching becomes possible for a state that differs from the present  *)
(* one in enadsp or ipm.                                                   *)
LEMMA resume_step ==
    ASSUME IInv, NEW call, TskCtxUnl(call), NEW s, HasFields(s, KernelField),
           Agree(Cur, s, {"enadsp", "ipm"}), s.enadsp, ~s.ipm,
           Become(resume_dispatching(s)), ~excpt'
    PROVE  StepOK
<1> DEFINE c == CONFIG[app]
           t == s.p_runtsk
           p == search_schedtsk(s)
           r == [s EXCEPT !.dspflg = TRUE, !.p_schedtsk = p]
<1>1. app \in DOMAIN CONFIG /\ KInv(Cur, c) /\ WellFormed(Cur)
  BY StepBegins
<1>2. \A f \in KernelField \ {"enadsp", "ipm"} : s[f] = Cur[f]
  BY DEF Agree
<1>3. /\ s.tcb = Cur.tcb /\ s.ready_queue = Cur.ready_queue
      /\ s.ready_primap = Cur.ready_primap /\ s.p_runtsk = Cur.p_runtsk
  BY <1>2 DEF KernelField
<1>4. /\ t \in Ready(Cur, {}) /\ t \in TSK /\ Exists(Cur, t)
      /\ Cur.tcb[t].tstat # TS_DORMANT
  BY <1>3, TaskContext
<1>5. p = search_schedtsk(Cur)
  BY <1>3 DEF search_schedtsk, primap_search
<1>6. IF s.tcb[t].raster /\ s.tcb[t].enater
      THEN Become(dispatcher(task_terminate(r, t)))
      ELSE Become(dispatch(r))
  BY DEF resume_dispatching
<1> HIDE DEF p
<1>7. /\ HasFields(r, KernelField) /\ r.dspflg = TRUE /\ r.p_schedtsk = p
      /\ r.enadsp /\ ~r.ipm /\ r.p_runtsk = s.p_runtsk
      /\ \A f \in KernelField \ {"dspflg", "p_schedtsk"} : r[f] = s[f]
  BY DEF HasFields, KernelField
<1> HIDE DEF r
<1>8. Agree(Cur, r, {"enadsp", "ipm", "dspflg", "p_schedtsk"})
  BY <1>2, <1>7 DEF Agree
<1>9. /\ Inv(r, {}, Ends(Cur)) /\ FreeOK(r, c) /\ r.tcb = Cur.tcb
      /\ LocksOK(r)
      /\ \A u : Exists(r, u) <=> Exists(Cur, u)
  BY <1>1, <1>4, <1>5, <1>7, <1>8, EnableDispatch
<1>10. Ends(Cur) \in SUBSET {t}
  BY <1>3 DEF Ends
<1>11. CASE s.tcb[t].raster /\ s.tcb[t].enater
  <2> DEFINE n == task_terminate(r, t)
  <2>1. KInv(n, c) /\ n.dspflg
    BY <1>4, <1>7, <1>9, <1>10, TerminateLast
  <2>2. Become(dispatcher(n))
    BY <1>6, <1>11
  <2> HIDE DEF n
  <2>3. KInv(dispatcher(n), c) /\ dispatcher(n).p_runtsk = dispatcher(n).p_schedtsk
        /\ Undisturbed(Cur, dispatcher(n))
    BY <2>1, dispatcher_kinv DEF Undisturbed
  <2> QED BY <1>1, <2>2, <2>3, Became
<1>12. CASE ~(s.tcb[t].raster /\ s.tcb[t].enater)
  <2>1. \A u \in TSK : TaskOK(r, u, {})
    <3> TAKE u \in TSK
    <3>1. TaskOK(r, u, Ends(Cur))
      BY <1>9 DEF Inv
    <3> QED BY <1>3, <1>9, <1>10, <1>12, <3>1 DEF TaskOK
  <2>2. Ends(r) = {}
    BY <1>7 DEF Ends
  <2>3. Inv(r, {}, Ends(r))
    BY <1>9, <2>1, <2>2 DEF Inv
  <2>4. KInv(r, c)
    BY <1>7, <1>9, <2>3 DEF KInv
  <2>5. KInv(dispatch(r), c) /\ dispatch(r).p_runtsk = dispatch(r).p_schedtsk
        /\ Undisturbed(Cur, dispatch(r))
    BY <1>7, <2>4, dispatch_kinv DEF Undisturbed
  <2>6. Become(dispatch(r))
    BY <1>6, <1>12
  <2> QED BY <1>1, <2>5, <2>6, Became
<1> QED BY <1>11, <1>12

LEMMA ena_dsp_step ==
    ASSUME IInv, ena_dsp
    PROVE  StepOK
<1> DEFINE c == CONFIG[app]
           s == Cur
           r == [s EXCEPT !.enadsp = TRUE]
<1>1. app \in DOMAIN CONFIG /\ KInv(s, c) /\ HasFields(s, KernelField)
  BY StepBegins DEF WellFormed
<1>2. ~excpt /\ p_runtsk \in Ready(s, {}) /\ p_runtsk = s.p_runtsk
      /\ s.p_runtsk = s.p_schedtsk
  BY TaskContext, StepBegins DEF ena_dsp
<1>3. TskCtxUnl("ena_dsp") /\ (IF s.ipm THEN Become(r) ELSE Become(resume_dispatching(r)))
      /\ ~excpt'
  BY <1>2, CurFields DEF ena_dsp, UnchangedContext
<1> HIDE DEF s
<1>4. /\ HasFields(r, KernelField) /\ r.enadsp = TRUE /\ r.ipm = s.ipm /\ r.dspflg = s.dspflg
      /\ \A f \in KernelField \ {"enadsp"} : r[f] = s[f]
  BY <1>1 DEF HasFields, KernelField
<1> HIDE DEF r
<1>5. Agree(s, r, Flags) /\ Agree(s, r, {"enadsp", "ipm"})
  BY <1>4 DEF Agree, Flags
<1>6. CASE s.ipm
  <2>1. r.dspflg = FALSE /\ r.ipm
    <3>1. s.dspflg = FALSE
      BY <1>1, <1>6 DEF KInv
    <3> QED BY <1>4, <1>6, <3>1
  <2>2. KInv(r, c) /\ r.p_runtsk = r.p_schedtsk
    BY <1>1, <1>2, <1>4, <1>5, <2>1, DisableDispatch
  <2>3. Undisturbed(s, r)
    BY <1>4 DEF Undisturbed, KernelField
  <2> QED BY <1>1, <1>3, <1>6, <2>2, <2>3, Became DEF s
<1>7. CASE ~s.ipm
  BY <1>3, <1>4, <1>5, <1>7, resume_step DEF s
<1> QED BY <1>6, <1>7

LEMMA chg_ipm_step ==
    ASSUME IInv, NEW mask \in BOOLEAN, chg_ipm(mask)
    PROVE  StepOK
<1> DEFINE c == CONFIG[app]
           s == Cur
           r == [s EXCEPT !.ipm = mask]
           n == [r EXCEPT !.dspflg = FALSE]
<1>1. app \in DOMAIN CONFIG /\ KInv(s, c) /\ HasFields(s, KernelField)
  BY StepBegins DEF WellFormed
<1>2. ~excpt /\ p_runtsk \in Ready(s, {}) /\ p_runtsk = s.p_runtsk
      /\ s.p_runtsk = s.p_schedtsk
  BY TaskContext, StepBegins DEF chg_ipm
<1>3. TskCtxUnl("chg_ipm") /\ (IF ~mask /\ s.enadsp THEN Become(resume_dispatching(r))
                               ELSE Become(n))
      /\ ~excpt'
  BY <1>2, CurFields DEF chg_ipm, UnchangedContext
<1> HIDE DEF s
<1>4. /\ HasFields(r, KernelField) /\ r.ipm = mask /\ r.enadsp = s.enadsp
      /\ \A f \in KernelField \ {"ipm"} : r[f] = s[f]
  BY <1>1 DEF HasFields, KernelField
<1> HIDE DEF r
<1>5. CASE ~mask /\ s.enadsp
  <2>1. Agree(s, r, {"enadsp", "ipm"})
    BY <1>4 DEF Agree
  <2> QED BY <1>3, <1>4, <1>5, <2>1, resume_step DEF s
<1>6. CASE ~(~mask /\ s.enadsp)
  <2>1. /\ HasFields(n, KernelField) /\ n.dspflg = FALSE
        /\ \A f \in KernelField \ {"dspflg"} : n[f] = r[f]
    BY <1>4 DEF HasFields, KernelField
  <2>2. n.ipm = mask /\ n.enadsp = s.enadsp
    BY <1>4, <2>1 DEF KernelField
  <2> HIDE DEF n
  <2>3. Agree(s, n, Flags)
    BY <1>4, <2>1 DEF Agree, Flags
  <2>4. KInv(n, c) /\ n.p_runtsk = n.p_schedtsk
    BY <1>1, <1>2, <1>6, <2>1, <2>2, <2>3, DisableDispatch
  <2>5. Undisturbed(s, n)
    BY <1>4, <2>1 DEF Undisturbed, KernelField
  <2> QED BY <1>1, <1>3, <1>6, <2>4, <2>5, Became DEF s
<1> QED BY <1>5, <1>6

-----------------------------------------------------------------------------
(* Task-dependent synchronization calls.                                   *)

(* A queued request is consumed, or a datum is kept.                       *)
LEMMA PlainStep ==
    ASSUME IInv, NEW t \in TSK, NEW f \in {"wupque", "wobjdata", "prelock"}, NEW v,
           Become([Cur EXCEPT !.tcb[t][f] = v]), excpt => excpt'
    PROVE  StepOK
<1> DEFINE r == [Cur EXCEPT !.tcb[t][f] = v]
<1>1. Inv(Cur, {}, Ends(Cur))
  BY StepBegins
<1>2. Inv(r, {}, Ends(Cur)) /\ Keeps(Cur, r) /\ r.p_schedtsk = Cur.p_schedtsk
  BY <1>1, plain_inv
<1>3. Become(r)
  OBVIOUS
<1> HIDE DEF r
<1> QED BY <1>2, <1>3, Quiet

(* What CHECK_DISPATCH, and the test of raster after it, leave.            *)
LEMMA MayBlock ==
    ASSUME IInv, NEW call, Dispatchable(call), ~tcb[p_runtsk].raster
    PROVE  /\ ~excpt /\ Cur.dspflg /\ p_runtsk = Cur.p_runtsk
           /\ p_runtsk \in Ready(Cur, {}) /\ p_runtsk \in TSK
           /\ ~Cur.tcb[p_runtsk].raster
           /\ Inv(Cur, {}, Ends(Cur))
BY TaskContext, CurFields, StepBegins DEF Dispatchable

LEMMA sleep_step ==
    ASSUME IInv, NEW call, Dispatchable(call), ~tcb[p_runtsk].raster, NEW tmout,
           Become(IF tcb[p_runtsk].wupque THEN consume_wupque
                  ELSE dispatch(make_wait_tmout(Cur, TS_WAITING_SLP, tmout))),
           UnchangedContext
    PROVE  StepOK
<1> DEFINE t == p_runtsk
<1>1. /\ ~excpt /\ Cur.dspflg /\ t = Cur.p_runtsk /\ t \in Ready(Cur, {}) /\ t \in TSK
      /\ ~Cur.tcb[t].raster /\ Inv(Cur, {}, Ends(Cur))
  BY MayBlock
<1>2. CASE tcb[t].wupque
  <2> DEFINE f == "wupque"
             v == FALSE
  <2>1. f \in {"wupque", "wobjdata", "prelock"} /\ Become([Cur EXCEPT !.tcb[t][f] = v])
    BY <1>2 DEF consume_wupque
  <2> HIDE DEF f, v, t
  <2> QED BY <1>1, <2>1, PlainStep
<1>3. CASE ~tcb[t].wupque
  <2> DEFINE r == make_wait_tmout(Cur, TS_WAITING_SLP, tmout)
  <2>1. Become(dispatch(r))
    BY <1>3
  <2>2. Inv(r, {}, Ends(Cur)) /\ Keeps(Cur, r)
    BY <1>1, sleep_inv
  <2> HIDE DEF r
  <2> QED BY <2>1, <2>2, Dispatched
<1> QED BY <1>2, <1>3

LEMMA slp_tsk_step ==
    ASSUME IInv, slp_tsk
    PROVE  StepOK
<1>1. make_wait(Cur, TS_WAITING_SLP) = make_wait_tmout(Cur, TS_WAITING_SLP, "TMO_FEVR")
  BY DEF make_wait_tmout
<1>2. Dispatchable("slp_tsk") /\ ~tcb[p_runtsk].raster /\ UnchangedContext
  BY DEF slp_tsk
<1>3. Become(IF tcb[p_runtsk].wupque THEN consume_wupque
             ELSE dispatch(make_wait_tmout(Cur, TS_WAITING_SLP, "TMO_FEVR")))
  BY <1>1 DEF slp_tsk
<1> QED BY <1>2, <1>3, sleep_step

LEMMA tslp_tsk_step ==
    ASSUME IInv, NEW tmout \in TMO, tslp_tsk(tmout)
    PROVE  StepOK
<1>1. Dispatchable("tslp_tsk") /\ ~tcb[p_runtsk].raster /\ UnchangedContext
      /\ Become(IF tcb[p_runtsk].wupque THEN consume_wupque
                ELSE dispatch(make_wait_tmout(Cur, TS_WAITING_SLP, tmout)))
  BY DEF tslp_tsk
<1> QED BY <1>1, sleep_step

LEMMA dly_tsk_step ==
    ASSUME IInv, dly_tsk
    PROVE  StepOK
<1> DEFINE t == p_runtsk
           r == [make_wait(Cur, TS_WAITING_DLY) EXCEPT !.tcb[t].winfo = "tmevtb",
                                                       !.tmevtb[t] = "wait_tmout_ok"]
<1>1. /\ ~excpt /\ Cur.dspflg /\ t = Cur.p_runtsk /\ t \in Ready(Cur, {}) /\ t \in TSK
      /\ ~Cur.tcb[t].raster /\ Inv(Cur, {}, Ends(Cur))
  BY MayBlock DEF dly_tsk
<1>2. Become(dispatch(r))
  BY DEF dly_tsk
<1> HIDE DEF t
<1>3. Inv(r, {}, Ends(Cur)) /\ Keeps(Cur, r)
  BY <1>1, delay_inv
<1> HIDE DEF r
<1> QED BY <1>2, <1>3, Dispatched

LEMMA wup_tsk_step ==
    ASSUME IInv, NEW t \in TSK, wup_tsk(t)
    PROVE  StepOK
<1>1. Inv(Cur, {}, Ends(Cur)) /\ Cur.tcb[t] = tcb[t]
  BY StepBegins, CurFields
<1>2. UnchangedContext /\ excpt' = excpt
  BY DEF wup_tsk, UnchangedContext
<1>3. CASE TSTAT_WAIT_SLP(tcb[t].tstat)
  <2> DEFINE r == wait_complete(Cur, t)
  <2>1. Become(dispatch_or_request(r))
    BY <1>3 DEF wup_tsk
  <2>2. Inv(r, {}, Ends(Cur)) /\ Keeps(Cur, r)
    BY <1>1, <1>3, wakeup_inv
  <2> HIDE DEF r
  <2> QED BY <1>2, <2>1, <2>2, Dispatched
<1>4. CASE ~TSTAT_WAIT_SLP(tcb[t].tstat)
  <2> DEFINE f == "wupque"
             v == TRUE
  <2>1. f \in {"wupque", "wobjdata", "prelock"} /\ Become([Cur EXCEPT !.tcb[t][f] = v])
    BY <1>4 DEF wup_tsk
  <2> HIDE DEF f, v
  <2> QED BY <1>2, <2>1, PlainStep
<1> QED BY <1>3, <1>4

LEMMA can_wup_step ==
    ASSUME IInv, NEW t \in TSK, can_wup(t)
    PROVE  StepOK
<1> DEFINE f == "wupque"
           v == FALSE
<1>1. f \in {"wupque", "wobjdata", "prelock"} /\ Become([Cur EXCEPT !.tcb[t][f] = v])
      /\ excpt' = excpt
  BY DEF can_wup, UnchangedContext
<1> HIDE DEF f, v
<1> QED BY <1>1, PlainStep

LEMMA rel_wai_step ==
    ASSUME IInv, NEW t \in TSK, rel_wai(t)
    PROVE  StepOK
<1> DEFINE d == wait_dequeue_tmevtb(wait_dequeue_wobj(Cur, t), t)
           r == make_non_wait(set_wercd(d, t, "E_RLWAI"), t)
<1>1. Inv(Cur, {}, Ends(Cur)) /\ TSTAT_WAITING(Cur.tcb[t].tstat)
  BY StepBegins, CurFields DEF rel_wai
<1>2. UnchangedContext /\ Become(dispatch_or_request(r))
  BY DEF rel_wai
<1>3. Inv(r, {}, Ends(Cur)) /\ Keeps(Cur, r)
  BY <1>1, release_wait_inv
<1> HIDE DEF r
<1> QED BY <1>2, <1>3, Dispatched

LEMMA sus_tsk_step ==
    ASSUME IInv, NEW t \in TSK, sus_tsk(t)
    PROVE  StepOK
<1>1. Inv(Cur, {}, Ends(Cur)) /\ Cur.tcb[t] = tcb[t]
  BY StepBegins, CurFields
<1>2. /\ excpt' = excpt /\ ~Cur.tcb[t].raster /\ (Cur.dspflg \/ t # Cur.p_runtsk)
      /\ tcb[t].tstat # TS_DORMANT
  BY <1>1, CurFields DEF sus_tsk, UnchangedContext, TSTAT_DORMANT
<1>3. CASE TSTAT_RUNNABLE(tcb[t].tstat)
  <2> DEFINE r == make_non_runnable([Cur EXCEPT !.tcb[t].tstat = TS_SUSPENDED], t)
  <2>1. Become(dispatch(r))
    BY <1>3 DEF sus_tsk
  <2>2. Inv(r, {}, Ends(Cur)) /\ Keeps(Cur, r)
    BY <1>1, <1>2, <1>3, suspend_inv
  <2> HIDE DEF r
  <2> QED BY <2>1, <2>2, Dispatched
<1>4. CASE ~TSTAT_RUNNABLE(tcb[t].tstat)
  <2> DEFINE v == Cur.tcb[t].tstat \cup TS_SUSPENDED
             r == [Cur EXCEPT !.tcb[t].tstat = v]
  <2>1. Become(r) /\ ~TSTAT_SUSPENDED(tcb[t].tstat)
    BY <1>4 DEF sus_tsk
  <2>2. TSTAT_WAITING(Cur.tcb[t].tstat)
    <3>1. tcb[t].tstat \in TSTATS
      BY <1>1 DEF Inv, TaskOK
    <3> QED BY <1>1, <1>2, <1>4, <2>1, <3>1, TstatFacts, IdleFacts
  <2>3. v = Cur.tcb[t].tstat \cup TS_SUSPENDED \/ v = Cur.tcb[t].tstat \ TS_SUSPENDED
    OBVIOUS
  <2> HIDE DEF v
  <2>0. Inv(Cur, {}, Ends(Cur))
    BY <1>1
  <2>4. Inv(r, {}, Ends(Cur)) /\ Keeps(Cur, r) /\ r.p_schedtsk = Cur.p_schedtsk
    BY ONLY <2>0, <2>2, <2>3, wait_suspend_inv
  <2> HIDE DEF r
  <2> QED BY <1>2, <2>1, <2>4, Quiet
<1> QED BY <1>3, <1>4

LEMMA rsm_tsk_step ==
    ASSUME IInv, NEW t \in TSK, rsm_tsk(t)
    PROVE  StepOK
<1>1. Inv(Cur, {}, Ends(Cur)) /\ Cur.tcb[t] = tcb[t] /\ Exists(Cur, t)
  BY StepBegins, CurFields, CurExists DEF rsm_tsk
<1>2. excpt' = excpt /\ TSTAT_SUSPENDED(Cur.tcb[t].tstat)
  BY <1>1 DEF rsm_tsk, UnchangedContext
<1>3. CASE ~TSTAT_WAITING(tcb[t].tstat)
  <2> DEFINE r == make_runnable([Cur EXCEPT !.tcb[t].tstat = TS_RUNNABLE], t)
  <2>1. Become(dispatch(r))
    BY <1>3 DEF rsm_tsk
  <2>2. Inv(r, {}, Ends(Cur)) /\ Keeps(Cur, r)
    BY <1>1, <1>2, <1>3, resume_inv
  <2> HIDE DEF r
  <2> QED BY <2>1, <2>2, Dispatched
<1>4. CASE TSTAT_WAITING(tcb[t].tstat)
  <2> DEFINE v == Cur.tcb[t].tstat \ TS_SUSPENDED
             r == [Cur EXCEPT !.tcb[t].tstat = v]
  <2>1. Become(r) /\ TSTAT_WAITING(Cur.tcb[t].tstat)
    BY <1>1, <1>4 DEF rsm_tsk
  <2>2. v = Cur.tcb[t].tstat \ TS_SUSPENDED
    OBVIOUS
  <2> HIDE DEF v
  <2>3. Inv(r, {}, Ends(Cur)) /\ Keeps(Cur, r) /\ r.p_schedtsk = Cur.p_schedtsk
    BY <1>1, <2>1, <2>2, wait_suspend_inv
  <2> HIDE DEF r
  <2> QED BY <1>2, <2>1, <2>3, Quiet
<1> QED BY <1>3, <1>4

-----------------------------------------------------------------------------
(* Interrupts.                                                             *)

LEMMA int_entry_step ==
    ASSUME IInv, int_entry
    PROVE  StepOK
BY Unchanged DEF int_entry

LEMMA int_exit_step ==
    ASSUME IInv, int_exit
    PROVE  StepOK
<1>1. Inv(Cur, {}, Ends(Cur)) /\ Keeps(Cur, Cur) /\ Become(dispatch(Cur))
  BY StepBegins, KeepsSelf DEF int_exit
<1> QED BY <1>1, Dispatched

LEMMA timeout_step ==
    ASSUME IInv, NEW t \in TSK, timeout(t)
    PROVE  StepOK
<1> DEFINE s == [Cur EXCEPT !.tmevtb[t] = "none"]
           r == wait_tmout(s, t)
           n == wait_tmout_ok(s, t)
<1>1. /\ app \in DOMAIN CONFIG /\ KInv(Cur, CONFIG[app]) /\ Inv(Cur, {}, Ends(Cur))
      /\ Cur.tmevtb = tmevtb
  BY StepBegins, CurFields
<1>2. /\ excpt' /\ tmevtb[t] # "none"
      /\ IF tmevtb[t] = "wait_tmout" THEN Become(r) ELSE Become(n)
  BY DEF timeout, UnchangedContext
<1>3. TSTAT_WAITING(Cur.tcb[t].tstat) /\ tmevtb[t] \in TMEVT
  BY <1>1, <1>2 DEF Inv, TaskOK, WinfoOK
<1>4. CASE tmevtb[t] = "wait_tmout"
  <2>1. Inv(r, {}, Ends(Cur)) /\ Keeps(Cur, r)
    <3> DEFINE X == {}
    <3>1. Inv(Cur, X, Ends(Cur)) /\ t \in TSK \ X
      BY <1>1
    <3> HIDE DEF X
    <3>2. Inv(r, X, Ends(Cur)) /\ Keeps(Cur, r)
      BY <1>3, <3>1, wait_tmout_inv
    <3> QED BY <3>2 DEF X
  <2>2. Become(r)
    BY <1>2, <1>4
  <2> HIDE DEF r
  <2>3. KInv(r, CONFIG[app]) /\ Undisturbed(Cur, r) /\ NoNewOwner(Cur, r)
    BY <1>1, <2>1, Operation, KeepsPreserves, PreservesUndisturbed DEF Preserves, KInv
  <2> QED BY <1>1, <1>2, <2>2, <2>3, Became
<1>5. CASE tmevtb[t] # "wait_tmout"
  <2>1. Cur.tmevtb[t] = "wait_tmout_ok"
    BY <1>1, <1>2, <1>3, <1>5 DEF TMEVT
  <2>2. Inv(n, {}, Ends(Cur)) /\ Keeps(Cur, n)
    <3> DEFINE X == {}
    <3>1. Inv(Cur, X, Ends(Cur)) /\ t \in TSK \ X
      BY <1>1
    <3> HIDE DEF X
    <3>2. Inv(n, X, Ends(Cur)) /\ Keeps(Cur, n)
      BY <2>1, <3>1, wait_tmout_ok_inv
    <3> QED BY <3>2 DEF X
  <2>3. Become(n)
    BY <1>2, <1>5
  <2> HIDE DEF n
  <2>4. KInv(n, CONFIG[app]) /\ Undisturbed(Cur, n) /\ NoNewOwner(Cur, n)
    BY <1>1, <2>2, Operation, KeepsPreserves, PreservesUndisturbed DEF Preserves, KInv
  <2> QED BY <1>1, <1>2, <2>3, <2>4, Became
<1> QED BY <1>4, <1>5

(* A change to what the invariant is not about.                            *)
LEMMA DataInv ==
    ASSUME NEW s, NEW E, Inv(s, {}, E), NEW r, HasFields(r, KernelField),
           Agree(s, r, DataField)
    PROVE  /\ Inv(r, {}, E) /\ Keeps(s, r) /\ r.p_schedtsk = s.p_schedtsk
           /\ r.tcb = s.tcb /\ r.wobj = s.wobj /\ r.tinib = s.tinib
           /\ Ready(r, {}) = Ready(s, {})
<1> DEFINE X == {}
<1>1. Inv(s, X, E) /\ WellFormed(s)
  BY DEF Inv
<1> HIDE DEF X
<1>2. Like(s, r, X) /\ Keeps(s, r) /\ r.tcb = s.tcb /\ r.wobj = s.wobj /\ r.tinib = s.tinib
  BY <1>1, DataLike
<1>3. Inv(r, X, E) /\ r.p_schedtsk = s.p_schedtsk
  BY <1>1, <1>2, Change, LikeFields
<1>4. Ready(r, X) = Ready(s, X)
  BY <1>2 DEF Ready
<1> QED BY <1>2, <1>3, <1>4 DEF X

LEMMA DataStep ==
    ASSUME IInv, NEW r, HasFields(r, KernelField), Agree(Cur, r, DataField), Become(r),
           excpt => excpt'
    PROVE  StepOK
BY DataInv, StepBegins, Quiet

LEMMA wait_return_step ==
    ASSUME IInv, wait_return
    PROVE  StepOK
<1> DEFINE t == p_runtsk
           s == Cur
           b == [s.tcb[t] EXCEPT !.insvc = FALSE, !.winfo = "no_tmevtb",
                                 !.p_wobjcb = NULL, !.wobjdata = NULL]
           o == IF s.tcb[t].winfo = "E_OK" /\ s.tcb[t].wobjdata # NULL
                THEN [from |-> s.tcb[t].p_wobjcb, what |-> s.tcb[t].wobjdata] ELSE NULL
           a == [s EXCEPT !.tcb[t] = b]
           r == [s EXCEPT !.tcb[t] = b, !.out = o]
<1>1. Inv(s, {}, Ends(s)) /\ WellFormed(s)
  BY StepBegins
<1>2. ~excpt /\ t # NULL /\ excpt' = excpt
  BY DEF wait_return, LeavingWait, UnchangedContext
<1>3. t \in TSK /\ TSTAT_RUNNABLE(s.tcb[t].tstat)
  BY <1>2, Running
<1>4. Become(r)
  BY CurFields DEF wait_return
<1>5. TcbOK(s.tcb[t])
  BY <1>1, <1>3 DEF WellFormed
<1> HIDE DEF s, t, o
<1>6. /\ TcbOK(b) /\ ~b.insvc
      /\ \A f \in TcbField \ {"insvc", "winfo", "p_wobjcb", "wobjdata"} :
            b[f] = s.tcb[t][f]
  BY <1>5 DEF TcbOK, HasFields, TcbField
<1>7. r = [a EXCEPT !.out = o]
  OBVIOUS
<1> HIDE DEF b, r
<1>8. TcbIs(s, a, t, b)
  BY <1>1, <1>3, <1>6, SetTask
<1> HIDE DEF a
<1>9. TcbEdit(s, a, t, TcbField) /\ a.tcb[t] = b
  BY <1>8 DEF TcbIs
<1>10. a.tmevtb = s.tmevtb /\ a.tinib = s.tinib /\ a.wobj = s.wobj /\ WellFormed(a)
  BY <1>9, TcbEditFields
<1>11. /\ b.tstat = s.tcb[t].tstat /\ b.priority = s.tcb[t].priority
       /\ b.raster = s.tcb[t].raster /\ b.enater = s.tcb[t].enater
       /\ b.actque = s.tcb[t].actque
  BY <1>6 DEF TcbField
<1>12. TaskOK(s, t, Ends(s))
  BY <1>1, <1>3 DEF Inv
<1>13. s.tcb[t].tstat \in TSTATS /\ ~TSTAT_WAITING(s.tcb[t].tstat)
       /\ ~TSTAT_WAIT_WOBJ(s.tcb[t].tstat) /\ s.tcb[t].tstat \cap RECEIVING = {}
       /\ "MTX" \notin s.tcb[t].tstat
  <2>1. s.tcb[t].tstat \in TSTATS
    BY <1>12 DEF TaskOK
  <2>2. s.tcb[t].tstat = TS_RUNNABLE
    BY <1>3, <2>1, TstatFacts
  <2>3. "MTX" \notin s.tcb[t].tstat
    BY <2>2 DEF TS_RUNNABLE
  <2> QED BY <2>1, <2>2, <2>3, IdleFacts
<1>19. "DLY" \notin s.tcb[t].tstat
  BY <1>3, <1>13, TstatFacts, IdleFacts
<1>14. InPlace(s, a, t)
  BY <1>9, <1>11, <1>13 DEF InPlace
<1>15. TaskOK(a, t, Ends(s))
  <2>1. WinfoOK(s.tcb[t], s.tmevtb[t])
    BY <1>12 DEF TaskOK
  <2>4. s.tmevtb[t] = "none"
    BY <1>3, <1>13, <1>1, NotWaiting
  <2>5. a.tmevtb[t] = "none"
    BY <1>10, <2>4
  <2>6. ~TSTAT_WAITING(b.tstat) /\ "DLY" \notin b.tstat
    BY <1>11, <1>13, <1>19
  <2>7. ~b.insvc
    BY <1>6
  <2> DEFINE e == a.tmevtb[t]
  <2>8. e \in TMEVT /\ e = "none"
    BY <2>5 DEF TMEVT
  <2> HIDE DEF e
  <2>9. WinfoOK(b, e)
    BY <2>6, <2>7, <2>8 DEF WinfoOK
  <2>2. WinfoOK(b, a.tmevtb[t])
    BY <2>9 DEF e
  <2>3. Exists(a, t) <=> Exists(s, t)
    BY <1>10 DEF Exists
  <2> QED BY <1>9, <1>11, <1>12, <1>13, <2>2, <2>3 DEF TaskOK
<1>21. /\ a.tcb[t].tstat = s.tcb[t].tstat /\ a.tcb[t].lastmtx = s.tcb[t].lastmtx
       /\ a.tcb[t].bpriority = s.tcb[t].bpriority
  BY <1>6, <1>9, <1>11 DEF TcbField
<1>22. WaitsLess(s, a, t)
  BY <1>13, <1>21 DEF WaitsLess, BlockedOn
<1>16. Inv(a, {}, Ends(s)) /\ Keeps(s, a) /\ a.p_schedtsk = s.p_schedtsk
  BY <1>1, <1>3, <1>9, <1>14, <1>15, <1>21, <1>22, Restate
<1>17. HasFields(r, KernelField) /\ Agree(a, r, DataField)
  <2>1. HasFields(a, KernelField)
    BY <1>10 DEF WellFormed
  <2> QED BY <1>7, <2>1 DEF HasFields, KernelField, Agree, DataField
<1>18. Inv(r, {}, Ends(s)) /\ Keeps(a, r) /\ r.p_schedtsk = a.p_schedtsk
  BY <1>16, <1>17, DataInv
<1>20. Keeps(s, r)
  BY <1>16, <1>18, KeepsTrans
<1> QED BY <1>2, <1>4, <1>16, <1>18, <1>20, Quiet DEF s

-----------------------------------------------------------------------------
(* Waits for an object.                                                    *)

(* The state in which the running task begins a wait: the present one, but *)
(* for the datum the task holds.                                           *)
Holding(s) == s = Cur \/ \E v : s = [Cur EXCEPT !.tcb[p_runtsk].wobjdata = v]

LEMMA HoldingInv ==
    ASSUME IInv, NEW call, NEW w \in WOBJ, MayWait(call, w), NEW s, Holding(s)
    PROVE  /\ Inv(s, {}, Ends(Cur)) /\ Keeps(Cur, s)
           /\ p_runtsk \in Ready(s, {}) /\ p_runtsk = s.p_runtsk /\ s.dspflg
           /\ ~s.tcb[p_runtsk].raster /\ WobjExists(s, w)
           /\ s.tcb[p_runtsk].bpriority = Cur.tcb[p_runtsk].bpriority
<1> DEFINE t == p_runtsk
<1>1. /\ Cur.dspflg /\ t = Cur.p_runtsk /\ t \in Ready(Cur, {}) /\ t \in TSK
      /\ ~Cur.tcb[t].raster /\ Inv(Cur, {}, Ends(Cur)) /\ WobjExists(Cur, w)
  BY MayBlock, CurExists DEF MayWait
<1>2. CASE s = Cur
  BY <1>1, <1>2, KeepsSelf
<1>3. CASE s # Cur
  <2>1. PICK v : s = [Cur EXCEPT !.tcb[t].wobjdata = v]
    BY <1>3 DEF Holding
  <2> DEFINE f == "wobjdata"
             r == [Cur EXCEPT !.tcb[t][f] = v]
  <2>2. f \in {"wupque", "wobjdata", "prelock"} /\ f # "raster"
    OBVIOUS
  <2>3. s = r
    BY <2>1
  <2> HIDE DEF f, t
  <2>4. /\ Inv(r, {}, Ends(Cur)) /\ Keeps(Cur, r)
        /\ Ready(r, {}) = Ready(Cur, {}) /\ TcbEdit(Cur, r, t, {f})
    BY <1>1, <2>2, plain_inv
  <2> HIDE DEF r
  <2>5. r.tcb[t].raster = Cur.tcb[t].raster /\ r.tcb[t].bpriority = Cur.tcb[t].bpriority
    BY <2>2, <2>4 DEF TcbEdit, TcbField
  <2>6. WobjExists(r, w) /\ r.dspflg = Cur.dspflg /\ r.p_runtsk = Cur.p_runtsk
    BY <1>1, <2>4, KeepsFields DEF WobjExists
  <2> QED BY <1>1, <2>3, <2>4, <2>5, <2>6 DEF t
<1> QED BY <1>2, <1>3

(* A wait without timeout is one for ever.                                 *)
LEMMA wobj_make_wait_fevr ==
    ASSUME NEW s, NEW tstat, NEW w
    PROVE  wobj_make_wait(s, tstat, w) = wobj_make_wait_tmout(s, tstat, w, "TMO_FEVR")
BY DEF wobj_make_wait, wobj_make_wait_tmout, make_wait_tmout

LEMMA block_step ==
    ASSUME IInv, NEW call, NEW w \in WOBJ, MayWait(call, w), NEW s, Holding(s),
           LockedMutex(Cur, p_runtsk, w), NEW x \in TS_WOBJCB_MASK,
           x = "MTX" <=> w \in MTX, NEW tmout,
           Become(dispatch(wobj_make_wait_tmout(s, {x}, w, tmout)))
    PROVE  StepOK
<1> DEFINE t == p_runtsk
           r == wobj_make_wait_tmout(s, {x}, w, tmout)
<1>1. /\ Inv(s, {}, Ends(Cur)) /\ Keeps(Cur, s)
      /\ t \in Ready(s, {}) /\ t = s.p_runtsk /\ s.dspflg
      /\ ~s.tcb[t].raster /\ WobjExists(s, w)
      /\ s.tcb[t].bpriority = Cur.tcb[t].bpriority
  BY HoldingInv
<1>4. LockedMutex(s, t, w)
  <2>1. s.mtx = Cur.mtx /\ SameCeilings(Cur, s)
    BY <1>1, KeepsFields, PassesCeilings
  <2>2. LockedMutex(Cur, t, w)
    OBVIOUS
  <2> HIDE DEF t
  <2> QED BY <1>1, <2>1, <2>2 DEF LockedMutex, Permits, SameCeilings, MTX_CEILING
<1> HIDE DEF t
<1>2. Inv(r, {}, Ends(Cur)) /\ Keeps(s, r)
  BY <1>1, <1>4, wobj_make_wait_tmout_inv
<1>3. Become(dispatch(r))
  OBVIOUS
<1> HIDE DEF r
<1> QED BY <1>1, <1>2, <1>3, KeepsTrans, Dispatched

(* An object of another kind is not a mutex.                               *)
LEMMA OtherKinds ==
    ASSUME NEW w \in SEM \cup FLG \cup DTQ \cup PDQ \cup MPF
    PROVE  w \notin MTX /\ LockedMutex(Cur, p_runtsk, w)
BY Mutexes DEF LockedMutex

LEMMA receive_step ==
    ASSUME IInv, NEW call, NEW w \in WOBJ, MayWait(call, w), w \notin MTX,
           NEW x \in RECEIVING, NEW tmout,
           Become(dispatch(make_wait_receive(Cur, {x}, w, tmout)))
    PROVE  StepOK
<1> DEFINE t == p_runtsk
           r == make_wait_receive(Cur, {x}, w, tmout)
<1>1. Holding(Cur)
  BY DEF Holding
<1>2. /\ Inv(Cur, {}, Ends(Cur))
      /\ t \in Ready(Cur, {}) /\ t = Cur.p_runtsk /\ Cur.dspflg
      /\ ~Cur.tcb[t].raster /\ WobjExists(Cur, w)
  BY <1>1, HoldingInv
<1> HIDE DEF t
<1>3. Inv(r, {}, Ends(Cur)) /\ Keeps(Cur, r)
  BY <1>2, make_wait_receive_inv
<1>4. Become(dispatch(r))
  OBVIOUS
<1> HIDE DEF r
<1> QED BY <1>3, <1>4, Dispatched

-----------------------------------------------------------------------------
(* Mutex calls.                                                            *)

LEMMA lock_free_step ==
    ASSUME IInv, NEW m \in MTX, ObjectExists(m), ~excpt, p_runtsk # NULL,
           CeilingPermits(p_runtsk, m), LockFree(m), UnchangedContext
    PROVE  StepOK
<1> DEFINE t == p_runtsk
           X == {}
           c == CONFIG[app]
           s == Cur
           r == mutex_acquire(s, t, m)
<1>1. /\ Inv(s, X, Ends(s)) /\ LockInv(s, X, {}) /\ t \in TSK \ X /\ s.p_schedtsk = t
      /\ s.tcb[t].tstat # TS_DORMANT /\ s.p_runtsk = t /\ Protocol(s) /\ KInv(s, c)
  BY Running, StepBegins DEF KInv, LocksOK
<1>2. Become(r)
  BY DEF LockFree
<1>7. Permits(s, s.tcb[t].bpriority, m)
  BY CurFields DEF CeilingPermits, Permits
<1>3. WobjExists(s, m) /\ Ownerless(s, m)
  <2>1. s.mtx[m].p_loctsk = NULL
    BY CurFields DEF LockFree
  <2> QED BY <2>1, CurExists, Mutexes DEF Ownerless
<1>8. app \in DOMAIN CONFIG /\ ~excpt'
  BY StepBegins DEF UnchangedContext
<1> HIDE DEF X, t, s, c
<1>4. LockInv(s, X, {m})
  BY <1>1, <1>3, LockFreed
<1>5. /\ Inv(r, X, Ends(s)) /\ Passes(s, r) /\ r.p_schedtsk = t
      /\ LockInv(r, X, {}) /\ CeilingsKept(s, r, {})
  BY <1>1, <1>3, <1>4, <1>7, mutex_acquire_inv
<1> HIDE DEF r
<1>6. Protocol(r)
  BY <1>1, <1>5 DEF Protocol, CeilingsKept
<1>9. r.p_runtsk = r.p_schedtsk /\ Undisturbed(s, r)
  BY <1>1, <1>5, PassesFields DEF Undisturbed
<1>10. KInv(r, c)
  BY <1>1, <1>5, <1>6, FrameKept DEF KInv, LocksOK, X
<1> QED BY <1>2, <1>8, <1>9, <1>10, Became DEF s, c

LEMMA MutexObjects == MTX \subseteq WOBJ
BY TaskOpsAssumption

LEMMA wait_mtx_step ==
    ASSUME IInv, NEW m \in MTX, NEW call, Dispatchable(call), ObjectExists(m),
           ~tcb[p_runtsk].raster, CeilingPermits(p_runtsk, m), mtx[m].p_loctsk # NULL,
           NEW tmout,
           Become(dispatch(wobj_make_wait_tmout(Cur, TS_WAITING_MTX, m, tmout)))
    PROVE  StepOK
<1> DEFINE x == "MTX"
<1>1. MayWait(call, m) /\ m \in WOBJ /\ Holding(Cur) /\ LockedMutex(Cur, p_runtsk, m)
  BY MutexObjects, CurFields
     DEF MayWait, Holding, LockedMutex, CeilingPermits, Permits
<1>2. /\ x \in TS_WOBJCB_MASK /\ (x = "MTX" <=> m \in MTX)
      /\ Become(dispatch(wobj_make_wait_tmout(Cur, {x}, m, tmout)))
  BY DEF TS_WAITING_MTX, TS_WOBJCB_MASK
<1> HIDE DEF x
<1> QED BY <1>1, <1>2, block_step

LEMMA loc_mtx_step ==
    ASSUME IInv, NEW m \in MTX, loc_mtx(m)
    PROVE  StepOK
<1>1. /\ Dispatchable("loc_mtx") /\ ObjectExists(m) /\ ~tcb[p_runtsk].raster
      /\ CeilingPermits(p_runtsk, m) /\ ~excpt /\ p_runtsk # NULL /\ UnchangedContext
  BY DEF loc_mtx, Dispatchable, TskCtxUnl
<1>2. CASE LockFree(m)
  BY <1>1, <1>2, lock_free_step
<1>3. CASE ~LockFree(m)
  <2>1. mtx[m].p_loctsk # NULL
        /\ Become(dispatch(wobj_make_wait_tmout(Cur, TS_WAITING_MTX, m, "TMO_FEVR")))
    BY <1>3, wobj_make_wait_fevr DEF loc_mtx
  <2> QED BY <1>1, <2>1, wait_mtx_step
<1> QED BY <1>2, <1>3

LEMMA ploc_mtx_step ==
    ASSUME IInv, NEW m \in MTX, ploc_mtx(m)
    PROVE  StepOK
BY lock_free_step DEF ploc_mtx, TskCtxUnl

LEMMA tloc_mtx_step ==
    ASSUME IInv, NEW m \in MTX, tloc_mtx(m)
    PROVE  StepOK
<1>1. /\ Dispatchable("tloc_mtx") /\ ObjectExists(m) /\ ~tcb[p_runtsk].raster
      /\ CeilingPermits(p_runtsk, m) /\ ~excpt /\ p_runtsk # NULL /\ UnchangedContext
  BY DEF tloc_mtx, Dispatchable, TskCtxUnl
<1>2. CASE LockFree(m)
  BY <1>1, <1>2, lock_free_step
<1>3. CASE ~LockFree(m)
  <2>1. mtx[m].p_loctsk # NULL
        /\ Become(dispatch(wobj_make_wait_tmout(Cur, TS_WAITING_MTX, m, "finite")))
    BY <1>3 DEF tloc_mtx
  <2> QED BY <1>1, <2>1, wait_mtx_step
<1> QED BY <1>2, <1>3

(* The mutex that a task has locked last is one it owns.                   *)
LEMMA LastOwned ==
    ASSUME NEW s, NEW X, NEW M, LockInv(s, X, M), NEW t \in TSK, s.tcb[t].lastmtx # <<>>
    PROVE  Head(s.tcb[t].lastmtx) \in Owned(s, t, M)
<1> DEFINE q == s.tcb[t].lastmtx
           O == Owned(s, t, M)
<1>1. Lists(q, O, MTX)
  BY DEF LockInv
<1> HIDE DEF O, q
<1>2. q # <<>> => Head(q) \in O
  BY <1>1 DEF Lists, ToSet
<1> QED BY <1>2 DEF O, q

LEMMA unl_mtx_step ==
    ASSUME IInv, NEW m \in MTX, unl_mtx(m)
    PROVE  StepOK
<1> DEFINE t == p_runtsk
           X == {}
           l == Tail(tcb[t].lastmtx)
           s == Cur
           E == Ends(s)
           f == "lastmtx"
           a == [s EXCEPT !.tcb[t][f] = l]
           d == mutex_drop_priority(a, t, m)
           r == mutex_release(d, m)
<1>1. /\ Inv(s, X, E) /\ WellFormed(s) /\ t \in TSK \ X /\ LockInv(s, X, {})
  BY TaskContext, StepBegins DEF unl_mtx, KInv, LocksOK
<1>2. tcb[t].lastmtx # <<>> /\ s.tcb = tcb /\ m = Head(tcb[t].lastmtx)
  BY CurFields DEF unl_mtx
<1>3. l \in Seq(MTX)
  BY <1>1, <1>2 DEF WellFormed, TcbOK
<1>5. Become(dispatch(r))
  <2>1. a = [Cur EXCEPT !.tcb[p_runtsk].lastmtx = Tail(@)]
    BY <1>2
  <2> QED BY <2>1 DEF unl_mtx
<1>4. m = Head(s.tcb[t].lastmtx) /\ s.tcb[t].lastmtx # <<>> /\ l = Tail(s.tcb[t].lastmtx)
  BY <1>2
<1> HIDE DEF t, l, s, E, X
<1>6. /\ Inv(d, X, E) /\ Passes(s, d) /\ TcbSet(s, a, t, f, l)
      /\ KeepsLocks(a, d) /\ d.mtx = s.mtx
      /\ ToSet(l) = ToSet(s.tcb[t].lastmtx) \ {m} => CeilingsKept(s, d, {})
  BY <1>1, <1>3, mutex_unlink_inv
<1> HIDE DEF a, d
<1>7. m \in Owned(s, t, {})
  BY <1>1, <1>4, LastOwned
<1>8. CeilingsKept(s, d, {})
  <2>1. t \in TSK /\ LockInv(s, X, {})
    BY <1>1
  <2>2. /\ m \in Owned(s, t, {})
        /\ \/ l = queue_delete(s.tcb[t].lastmtx, m)
           \/ m = Head(s.tcb[t].lastmtx) /\ s.tcb[t].lastmtx # <<>>
              /\ l = Tail(s.tcb[t].lastmtx)
    BY <1>4, <1>7
  <2>3. ToSet(l) = ToSet(s.tcb[t].lastmtx) \ {m}
    BY <2>1, <2>2, UnlinkedSet
  <2> QED BY <1>6, <2>3
<1>13. LockInv(a, X, {m}) /\ WobjExists(a, m)
  <2>1. LockInv(a, X, {m})
    BY <1>1, <1>4, <1>6, <1>7, UnlinkedLocks
  <2>2. a.wobj = s.wobj
    BY <1>6, TcbEditFields DEF TcbSet
  <2> QED BY <1>7, <2>1, <2>2 DEF WobjExists, Owned
<1>14. LockInv(d, X, {m}) /\ WobjExists(d, m)
  <2>1. LockInv(d, X, {m}) /\ Passes(a, d)
    BY <1>6, <1>13, LockKept DEF KeepsLocks
  <2> QED BY <1>13, <2>1, PassesFields, Mutexes DEF WobjExists
<1>11. /\ Inv(r, X, E) /\ Passes(d, r) /\ LockInv(r, X, {}) /\ CeilingsKept(d, r, {})
       /\ \A n \in MTX \ {m} : r.mtx[n].p_loctsk = d.mtx[n].p_loctsk
  BY <1>6, <1>14, mutex_release_inv
<1> HIDE DEF r
<1>15. Passes(s, r) /\ CeilingsKept(s, r, {})
  BY <1>6, <1>8, <1>11, PassesTrans DEF CeilingsKept, SameCeilings
<1>16. NoNewOwner(s, r)
  <2>1. s.mtx[m].p_loctsk # NULL
    BY <1>1, <1>7, TaskOpsAssumption DEF Owned
  <2> QED BY <1>6, <1>11, <2>1 DEF NoNewOwner
<1>12. Inv(r, {}, Ends(Cur)) /\ Preserves(Cur, r)
  BY <1>11, <1>15, <1>16, LocksMoved DEF X, E, s
<1> QED BY <1>5, <1>12, PreservedDispatched

LEMMA ini_mtx_step ==
    ASSUME IInv, NEW m \in MTX, ini_mtx(m)
    PROVE  StepOK
<1> DEFINE t == mtx[m].p_loctsk
           X == {}
           f == "wait_queue"
           s == Cur
           E == Ends(s)
           d == init_wait_queue(s, m, f)
           v == NULL
           a == [d EXCEPT !.mtx[m].p_loctsk = v]
           l == queue_delete(a.tcb[t].lastmtx, m)
           r == mutex_drop_priority([a EXCEPT !.tcb[t].lastmtx = l], t, m)
<1>1. Inv(s, {}, E) /\ m \in WOBJ /\ f \in QUEUE
  BY StepBegins, MutexObjects DEF QUEUE
<1>2. t \in TSK \cup {NULL} /\ v \in TSK \cup {NULL}
  BY <1>1, CurFields DEF Inv, WellFormed
<1>3. Become(dispatch(IF t = NULL THEN d ELSE r))
  BY DEF ini_mtx, mutex_unlink
<1>8. LockInv(s, X, {}) /\ WobjExists(s, m) /\ s.mtx[m].p_loctsk = t
  BY <1>1, StepBegins, CurExists, CurFields DEF ini_mtx, KInv, LocksOK
<1> HIDE DEF s, f, v, E
<1>4. Inv(d, {}, E) /\ Drains(s, d, m, f) /\ d.wobj[m][f] = <<>>
  BY <1>1, init_wait_queue_inv
<1> HIDE DEF d
<1>5. Keeps(s, d)
  BY <1>4 DEF Drains
<1>6. CASE t = NULL
  BY <1>3, <1>4, <1>5, <1>6, Dispatched DEF s, E
<1>7. CASE t # NULL
  <2>1. t \in TSK \ X
    BY <1>2, <1>7
  <2>2. Become(dispatch(r))
    BY <1>3, <1>7
  <2>3. Inv(d, X, E) /\ WellFormed(d)
    BY <1>4 DEF Inv
  <2> HIDE DEF t, X
  <2>4. /\ MtxEdit(d, a) /\ a.mtx[m].p_loctsk = v /\ SameCeilings(d, a)
        /\ \A n \in MTX \ {m} : a.mtx[n].p_loctsk = d.mtx[n].p_loctsk
    BY <1>2, <2>3, SetOwner
  <2> HIDE DEF a
  <2>5. Like(d, a, X) /\ Passes(d, a) /\ WellFormed(a) /\ a.tcb = d.tcb /\ a.wobj = d.wobj
    BY <2>4, MtxEditLike DEF MtxEdit
  <2>6. Inv(a, X, E)
    BY <2>3, <2>5, Change
  <2>7. l \in Seq(MTX)
    BY <2>1, <2>5, DeleteSeq DEF WellFormed, TcbOK
  <2>10. l = queue_delete(d.tcb[t].lastmtx, m)
    BY <2>5
  <2> HIDE DEF l
  <2> DEFINE g == "lastmtx"
             b == [a EXCEPT !.tcb[t][g] = l]
             u == [d EXCEPT !.tcb[t][g] = l]
  <2>8. /\ Inv(r, X, E) /\ Passes(a, r) /\ TcbSet(a, b, t, g, l) /\ KeepsLocks(b, r)
        /\ r.mtx = a.mtx
        /\ ToSet(l) = ToSet(a.tcb[t].lastmtx) \ {m} => CeilingsKept(a, r, {})
    <3> DEFINE e == [a EXCEPT !.tcb[t].lastmtx = l]
    <3>1. b = e /\ g = "lastmtx"
      OBVIOUS
    <3>2. LET z == mutex_drop_priority(e, t, m)
          IN  /\ Inv(z, X, E) /\ Passes(a, z) /\ TcbSet(a, e, t, "lastmtx", l)
              /\ KeepsLocks(e, z) /\ z.mtx = a.mtx
              /\ ToSet(l) = ToSet(a.tcb[t].lastmtx) \ {m} => CeilingsKept(a, z, {})
      <4> HIDE DEF b, g
      <4> QED BY <2>1, <2>6, <2>7, mutex_unlink_inv
    <3>3. r = mutex_drop_priority(e, t, m)
      OBVIOUS
    <3> HIDE DEF e, b, g, r
    <3> QED BY <3>1, <3>2, <3>3
  <2> HIDE DEF r, b
  <2>11. TcbSet(d, u, t, g, l)
    <3>1. g \in TcbField /\ g \notin {"priority", "bpriority"}
      BY DEF TcbField
    <3> HIDE DEF g
    <3> QED BY <2>1, <2>3, <2>7, <3>1, SetTcb DEF g
  <2> HIDE DEF u
  <2>18. LockInv(d, X, {}) /\ m \in Owned(d, t, {}) /\ d.mtx = s.mtx
    <3>1. LockInv(d, X, {})
      BY <1>5, <1>8, KeepsFields, LockKept
    <3>2. m \in Owned(d, t, {}) /\ d.mtx = s.mtx
      BY <1>1, <1>5, <1>8, KeepsFields DEF Owned, WobjExists
    <3> QED BY <3>1, <3>2
  <2>12. LockInv(u, X, {m})
    BY <2>1, <2>10, <2>11, <2>18, UnlinkedLocks DEF g
  <2>19. CeilingsKept(s, r, {}) /\ NoNewOwner(s, r)
    <3>1. ToSet(l) = ToSet(d.tcb[t].lastmtx) \ {m}
      BY <2>1, <2>10, <2>18, UnlinkedSet
    <3>2. CeilingsKept(a, r, {})
      BY <2>5, <2>8, <3>1
    <3>3. SameCeilings(s, d) /\ \A n \in TSK : Fit(s, n) => Fit(d, n)
      BY <1>5, KeepsCeilings DEF Keeps, CeilingsKept
    <3>4. \A n \in TSK : Fit(d, n) => Fit(a, n)
      BY <2>4, <2>5, SameTcbFit, FitSame
    <3>5. CeilingsKept(s, r, {})
      BY <2>4, <3>2, <3>3, <3>4 DEF CeilingsKept, SameCeilings
    <3>6. NoNewOwner(s, r)
      BY <2>4, <2>8, <2>18, <1>7, <1>8 DEF NoNewOwner
    <3> QED BY <3>5, <3>6
  <2>13. /\ \A n \in TSK : /\ b.tcb[n].lastmtx = u.tcb[n].lastmtx
                           /\ b.tcb[n].tstat = u.tcb[n].tstat
                           /\ b.tcb[n].p_wobjcb = u.tcb[n].p_wobjcb
                           /\ b.tcb[n].tstat = d.tcb[n].tstat
                           /\ b.tcb[n].p_wobjcb = d.tcb[n].p_wobjcb
         /\ b.wobj = u.wobj /\ b.mtx = a.mtx /\ u.mtx = d.mtx
    <3>1. TcbEdit(a, b, t, {g}) /\ TcbEdit(d, u, t, {g})
      BY <2>8, <2>11 DEF TcbSet
    <3>2. b.wobj = u.wobj /\ b.mtx = a.mtx /\ u.mtx = d.mtx
      BY <2>5, <3>1, TcbEditFields
    <3>3. b.tcb[t].lastmtx = l /\ u.tcb[t].lastmtx = l
      BY <2>8, <2>11 DEF TcbSet, g
    <3>4. /\ \A n \in TSK \ {t} : b.tcb[n] = d.tcb[n] /\ u.tcb[n] = d.tcb[n]
          /\ \A h \in TcbField \ {g} : b.tcb[t][h] = d.tcb[t][h] /\ u.tcb[t][h] = d.tcb[t][h]
      BY <2>5, <3>1 DEF TcbEdit
    <3>5. b.tcb[t].tstat = d.tcb[t].tstat /\ u.tcb[t].tstat = d.tcb[t].tstat
          /\ b.tcb[t].p_wobjcb = d.tcb[t].p_wobjcb /\ u.tcb[t].p_wobjcb = d.tcb[t].p_wobjcb
      BY <3>4 DEF TcbField, g
    <3> QED BY <3>2, <3>3, <3>4, <3>5
  <2>14. LockInv(b, X, {m})
    <3>1. \A n \in TSK : SameLock(u, b, n)
      BY <2>13 DEF SameLock, BlockedOn
    <3>2. Beside(u, b, {m})
      BY <2>4, <2>13, <3>1 DEF Beside
    <3> QED BY <2>12, <3>2, BesideKept
  <2>15. LockInv(b, X, {})
    <3>1. Ownerless(b, m)
      BY <2>4, <2>13 DEF Ownerless, v
    <3>2. \A n \in TSK \ X : ~BlockedOn(d, n, m)
      BY <1>4, <2>3, EmptyUnblocked DEF f
    <3>3. \A n \in TSK \ X : ~BlockedOn(b, n, m)
      BY <2>13, <3>2 DEF BlockedOn
    <3> QED BY <2>14, <3>1, <3>3, LockSettled
  <2>16. LockInv(r, X, {})
    BY <2>8, <2>15, LockKept
  <2>17. Passes(s, r)
    BY <1>5, <2>5, <2>8, PassesTrans, KeepsFields
  <2>9. Inv(r, {}, Ends(Cur)) /\ Preserves(Cur, r)
    BY <2>8, <2>16, <2>17, <2>19, LocksMoved DEF X, E, s
  <2> QED BY <2>2, <2>9, PreservedDispatched
<1> QED BY <1>6, <1>7

-----------------------------------------------------------------------------
(* Objects come and go.                                                    *)

(* No task waits for object w: it does not exist, or its queues are empty. *)
Deserted(s, w) == \A t \in Blocked(s, {}) : s.tcb[t].p_wobjcb # w

LEMMA DesertedAbsent ==
    ASSUME NEW s, NEW E, Inv(s, {}, E), NEW w, ~WobjExists(s, w)
    PROVE  Deserted(s, w)
BY DEF Inv, Blocked, Deserted, TaskOK

LEMMA DesertedEmpty ==
    ASSUME NEW s, NEW E, Inv(s, {}, E), NEW w \in WOBJ,
           \A f \in QUEUE : s.wobj[w][f] = <<>>
    PROVE  Deserted(s, w)
<1> SUFFICES ASSUME NEW t \in Blocked(s, {}), s.tcb[t].p_wobjcb = w
             PROVE  FALSE
  BY DEF Deserted
<1> DEFINE X == {}
           f == queue_of(s.tcb[t].tstat)
           S == WaitsIn(s, Blocked(s, X), w, f)
<1>1. Inv(s, X, E) /\ t \in Blocked(s, X)
  OBVIOUS
<1> HIDE DEF X
<1>2. f \in QUEUE /\ t \in S
  BY <1>1, WaitsWhere
<1> HIDE DEF f
<1>3. Lists(s.wobj[w][f], S, TSK)
  BY <1>1, <1>2 DEF Inv, WaitOK
<1> HIDE DEF S
<1> QED BY <1>2, <1>3, ListsEmpty

LEMMA DesertedQueues ==
    ASSUME NEW s, NEW E, Inv(s, {}, E), NEW w \in WOBJ, Deserted(s, w)
    PROVE  \A f \in QUEUE : s.wobj[w][f] = <<>>
<1> TAKE f \in QUEUE
<1> DEFINE S == WaitsIn(s, Blocked(s, {}), w, f)
<1>1. Lists(s.wobj[w][f], S, TSK)
  BY DEF Inv, WaitOK
<1>2. S = {}
  BY DEF WaitsIn, Deserted
<1> HIDE DEF S
<1> QED BY <1>1, <1>2, ListsEmpty

(* Object w, which no task waits for, has a new control block.             *)
Recast(s, r, w) ==
    /\ WellFormed(r)
    /\ Agree(s, r, {"wobj", "mtx", "free_mtxcb", "free_cb"} \cup DataField)
    /\ \A v \in WOBJ \ {w} : r.wobj[v] = s.wobj[v]
    /\ \A f \in QUEUE : r.wobj[w][f] = <<>>

LEMMA RecastFields ==
    ASSUME NEW s, NEW r, NEW w, Recast(s, r, w)
    PROVE  /\ r.tcb = s.tcb /\ r.tinib = s.tinib /\ r.free_tcb = s.free_tcb
           /\ r.ready_queue = s.ready_queue /\ r.ready_primap = s.ready_primap
           /\ r.p_schedtsk = s.p_schedtsk /\ r.p_runtsk = s.p_runtsk
           /\ r.enadsp = s.enadsp /\ r.dspflg = s.dspflg /\ r.ipm = s.ipm
           /\ r.tmevtb = s.tmevtb
<1>1. \A f \in KernelField \ ({"wobj", "mtx", "free_mtxcb", "free_cb"} \cup DataField) :
         r[f] = s[f]
  BY DEF Recast, Agree
<1> QED BY <1>1 DEF KernelField, DataField

LEMMA RecastInv ==
    ASSUME NEW s, NEW E, Inv(s, {}, E), NEW w \in WOBJ, Deserted(s, w), NEW r, Recast(s, r, w)
    PROVE  Inv(r, {}, E)
<1>1. /\ r.tcb = s.tcb /\ r.tinib = s.tinib
      /\ r.ready_queue = s.ready_queue /\ r.ready_primap = s.ready_primap
      /\ r.p_schedtsk = s.p_schedtsk /\ r.p_runtsk = s.p_runtsk
      /\ r.dspflg = s.dspflg /\ r.tmevtb = s.tmevtb
  BY RecastFields
<1> DEFINE V == Blocked(s, {})
           R == Ready(s, {})
<1>2. Blocked(r, {}) = V /\ Ready(r, {}) = R
  BY <1>1 DEF Ready, Blocked
<1>3. Sched(s, R) /\ WaitOK(s, V) /\ \A t \in TSK : TaskOK(s, t, E)
  BY DEF Inv
<1>4. \A t \in V : s.tcb[t].p_wobjcb # w
  BY DEF Deserted
<1>5. \A t \in TSK : TSTAT_WAIT_WOBJ(s.tcb[t].tstat) => t \in V
  BY DEF Blocked
<1> HIDE DEF R, V
<1>6. Sched(r, R)
  BY <1>1, <1>3, SchedKept DEF ReadyFields
<1>7. \A v \in WOBJ, f \in QUEUE : Lists(r.wobj[v][f], WaitsIn(r, V, v, f), TSK)
  <2> TAKE v \in WOBJ, f \in QUEUE
  <2>1. WaitsIn(r, V, v, f) = WaitsIn(s, V, v, f)
    BY <1>1 DEF WaitsIn
  <2>2. CASE v # w
    BY <1>3, <2>1, <2>2 DEF WaitOK, Recast
  <2>3. CASE v = w
    <3>1. WaitsIn(r, V, v, f) = {} /\ r.wobj[v][f] = <<>>
      BY <1>4, <2>1, <2>3 DEF WaitsIn, Recast
    <3> QED BY <3>1, EmptyLists
  <2> QED BY <2>2, <2>3
<1>8. \A v \in WOBJ : "TA_TPRI" \in r.wobj[v].wobjatr => Sorted(r, r.wobj[v].wait_queue)
  <2> TAKE v \in WOBJ
  <2>1. CASE v # w
    BY <1>1, <1>3, <2>1 DEF WaitOK, Recast, Sorted
  <2>2. CASE v = w
    <3>1. r.wobj[v].wait_queue = <<>>
      BY <2>2 DEF Recast, QUEUE
    <3> QED BY <3>1 DEF Sorted
  <2> QED BY <2>1, <2>2
<1>9. \A t \in TSK : TaskOK(r, t, E)
  <2> TAKE t \in TSK
  <2>1. TaskOK(s, t, E)
    BY <1>3
  <2>2. Exists(r, t) <=> Exists(s, t)
    BY <1>1 DEF Exists
  <2>3. ASSUME TSTAT_WAIT_WOBJ(s.tcb[t].tstat)
        PROVE  WobjExists(r, r.tcb[t].p_wobjcb)
    <3>1. t \in V
      BY <1>5, <2>3
    <3>2. s.tcb[t].p_wobjcb # w /\ WobjExists(s, s.tcb[t].p_wobjcb)
      BY <1>4, <2>1, <2>3, <3>1 DEF TaskOK
    <3> QED BY <1>1, <3>2 DEF WobjExists, Recast
  <2> QED BY <1>1, <2>1, <2>2, <2>3 DEF TaskOK
<1>10. WaitOK(r, V)
  BY <1>7, <1>8 DEF WaitOK
<1> QED BY <1>2, <1>6, <1>9, <1>10 DEF Inv, Recast


(* ... and is not a mutex.                                                 *)
LEMMA RecastLocks ==
    ASSUME NEW s, NEW r, NEW w, Recast(s, r, w), w \notin MTX, r.mtx = s.mtx, LocksOK(s)
    PROVE  LocksOK(r)
<1>1. r.tcb = s.tcb
  BY RecastFields
<1>2. \A m \in MTX : r.wobj[m] = s.wobj[m]
  BY Mutexes DEF Recast
<1> QED BY <1>1, <1>2, LockUntouched

(* No control block is in the lists of two kinds.                          *)
KindsApart(c) ==
    /\ \A k \in OBJKIND : ToSet(c.dynamic_obj[k]) \subseteq WOBJ \ MTX
    /\ \A k, j \in OBJKIND : k # j =>
          ToSet(c.dynamic_obj[k]) \cap ToSet(c.dynamic_obj[j]) = {}
    /\ ToSet(c.dynamic_mtx) \subseteq MTX

LEMMA ConfigKinds ==
    ASSUME app \in DOMAIN CONFIG
    PROVE  KindsApart(CONFIG[app])
<1> DEFINE c == CONFIG[app]
           o == c.dynamic_obj
<1>1. IsConfig(c) /\ ToSet(c.dynamic_mtx) \subseteq MTX
  BY Configured
<1> HIDE DEF c
<1>2. /\ o["SEM"] \in Seq(SEM) /\ o["FLG"] \in Seq(FLG) /\ o["DTQ"] \in Seq(DTQ)
      /\ o["PDQ"] \in Seq(PDQ) /\ o["MPF"] \in Seq(MPF)
  BY <1>1 DEF IsConfig
<1> HIDE DEF o
<1>3. /\ ToSet(o["SEM"]) \subseteq SEM /\ ToSet(o["FLG"]) \subseteq FLG
      /\ ToSet(o["DTQ"]) \subseteq DTQ /\ ToSet(o["PDQ"]) \subseteq PDQ
      /\ ToSet(o["MPF"]) \subseteq MPF
  BY <1>2 DEF ToSet
<1>4. \A k \in OBJKIND : ToSet(o[k]) \subseteq WOBJ \ MTX
  BY <1>3, TaskOpsAssumption DEF OBJKIND
<1>5. \A k, j \in OBJKIND : k # j => ToSet(o[k]) \cap ToSet(o[j]) = {}
  BY <1>3, TaskOpsAssumption DEF OBJKIND
<1> QED BY <1>1, <1>4, <1>5 DEF KindsApart, o, c

(* Control block w leaves the list of kind k, or comes back to it.         *)
FreeChange(s, r, k, q) ==
    /\ r.free_tcb = s.free_tcb /\ r.free_mtxcb = s.free_mtxcb /\ r.tinib = s.tinib
    /\ \A j \in OBJKIND : r.free_cb[j] = IF j = k THEN q ELSE s.free_cb[j]

Others(s, r, w) == \A v \in WOBJ \ {w} : WobjExists(r, v) <=> WobjExists(s, v)

LEMMA FreeChanged ==
    ASSUME NEW c, KindsApart(c), NEW s, FreeOK(s, c), NEW k \in OBJKIND,
           NEW q, NEW r, FreeChange(s, r, k, q),
           NEW w \in ToSet(c.dynamic_obj[k]), Others(s, r, w),
           NEW S, S = {v \in ToSet(c.dynamic_obj[k]) : ~WobjExists(s, v)},
           \/ WobjExists(r, w) /\ Lists(q, S \ {w}, WOBJ)
           \/ ~WobjExists(r, w) /\ Lists(q, S \cup {w}, WOBJ)
    PROVE  FreeOK(r, c)
<1>1. w \in WOBJ /\ w \notin MTX
  BY DEF KindsApart
<1>2. \A t : Exists(r, t) <=> Exists(s, t)
  BY DEF FreeChange, Exists
<1>3. {m \in ToSet(c.dynamic_mtx) : ~WobjExists(r, m)}
         = {m \in ToSet(c.dynamic_mtx) : ~WobjExists(s, m)}
  BY <1>1, MutexObjects DEF KindsApart, Others
<1>4. \A j \in OBJKIND :
         Lists(r.free_cb[j], {v \in ToSet(c.dynamic_obj[j]) : ~WobjExists(r, v)}, WOBJ)
  <2> TAKE j \in OBJKIND
  <2>1. CASE j # k
    <3>1. w \notin ToSet(c.dynamic_obj[j])
      BY <2>1 DEF KindsApart
    <3>2. {v \in ToSet(c.dynamic_obj[j]) : ~WobjExists(r, v)}
             = {v \in ToSet(c.dynamic_obj[j]) : ~WobjExists(s, v)}
      BY <3>1 DEF KindsApart, Others
    <3> QED BY <2>1, <3>2 DEF FreeOK, FreeChange
  <2>2. CASE j = k
    <3>1. {v \in ToSet(c.dynamic_obj[j]) : ~WobjExists(r, v)}
             = IF WobjExists(r, w) THEN S \ {w} ELSE S \cup {w}
      BY <2>2 DEF KindsApart, Others
    <3> QED BY <2>2, <3>1 DEF FreeChange
  <2> QED BY <2>1, <2>2
<1> QED BY <1>2, <1>3, <1>4 DEF FreeOK, FreeChange

(* An object is created in a control block that is free.                   *)
Created(s, r, k, w, atr) ==
    /\ s.free_cb[k] # <<>> /\ w = Head(s.free_cb[k])
    /\ r = [s EXCEPT !.free_cb[k] = Tail(@), !.wobj[w] = new_wobj(atr)]

LEMMA create_kinv ==
    ASSUME app \in DOMAIN CONFIG, NEW c, c = CONFIG[app], NEW s, KInv(s, c),
           NEW k \in OBJKIND, NEW atr, "TA_NOEXS" \notin atr,
           NEW w, NEW r, Created(s, r, k, w, atr)
    PROVE  /\ KInv(r, c) /\ r.p_schedtsk = s.p_schedtsk /\ r.p_runtsk = s.p_runtsk
           /\ r.mtx = s.mtx
<1> DEFINE S == {v \in ToSet(c.dynamic_obj[k]) : ~WobjExists(s, v)}
           q == Tail(s.free_cb[k])
           l == [s.free_cb EXCEPT ![k] = q]
           b == new_wobj(atr)
           o == [s.wobj EXCEPT ![w] = b]
<1>1. KindsApart(c) /\ FreeOK(s, c) /\ Inv(s, {}, Ends(s)) /\ WellFormed(s)
  BY ConfigKinds, OperationInv DEF KInv
<1>2. Lists(s.free_cb[k], S, WOBJ)
  BY <1>1 DEF FreeOK
<1>3. s.free_cb[k] # <<>> /\ w = Head(s.free_cb[k]) /\ r = [s EXCEPT !.free_cb = l, !.wobj = o]
  BY DEF Created
<1> HIDE DEF S
<1>4. Lists(q, S \ {w}, WOBJ) /\ w \in S
  BY <1>2, <1>3, TailLists
<1>5. w \in ToSet(c.dynamic_obj[k]) /\ ~WobjExists(s, w) /\ w \in WOBJ
  BY <1>1, <1>4 DEF S, KindsApart
<1>6. /\ HasFields(s, KernelField) /\ HasFields(s.wobj, WOBJ) /\ HasFields(s.free_cb, OBJKIND)
      /\ \A v \in WOBJ : HasFields(s.wobj[v], WobjField)
  BY <1>1 DEF WellFormed
<1>7. HasFields(b, WobjField) /\ b.wobjatr = atr /\ \A f \in QUEUE : b[f] = <<>>
  BY DEF new_wobj, HasFields, WobjField, QUEUE
<1> HIDE DEF b, q
<1>8. /\ HasFields(o, WOBJ) /\ \A v \in WOBJ : o[v] = IF v = w THEN b ELSE s.wobj[v]
      /\ HasFields(l, OBJKIND)
      /\ \A j \in OBJKIND : l[j] = IF j = k THEN q ELSE s.free_cb[j]
  BY <1>6 DEF HasFields
<1> HIDE DEF l, o
<1>9. r.free_cb = l /\ r.wobj = o /\ HasFields(r, KernelField)
      /\ \A f \in KernelField \ {"free_cb", "wobj"} : r[f] = s[f]
  BY <1>3, <1>6 DEF HasFields, KernelField
<1>10. WellFormed(r)
  BY <1>1, <1>6, <1>7, <1>8, <1>9 DEF WellFormed, KernelField
<1>11. Recast(s, r, w)
  BY <1>7, <1>8, <1>9, <1>10, <1>5 DEF Recast, Agree
<1>12. Inv(r, {}, Ends(s))
  BY <1>1, <1>5, <1>11, DesertedAbsent, RecastInv
<1>13. FreeChange(s, r, k, q)
  BY <1>8, <1>9 DEF FreeChange, KernelField
<1>14. Others(s, r, w) /\ WobjExists(r, w)
  BY <1>5, <1>7, <1>8, <1>9 DEF Others, WobjExists
<1>15. FreeOK(r, c)
  BY <1>1, <1>4, <1>5, <1>13, <1>14, FreeChanged DEF S
<1>16. Ends(r) = Ends(s) /\ (r.dspflg <=> r.enadsp /\ ~r.ipm)
       /\ r.p_schedtsk = s.p_schedtsk /\ r.p_runtsk = s.p_runtsk
  BY <1>11, RecastFields DEF Ends, KInv
<1>17. LocksOK(r) /\ r.mtx = s.mtx
  <2>1. r.mtx = s.mtx /\ w \notin MTX
    BY <1>1, <1>5, <1>9 DEF KernelField, KindsApart
  <2> QED BY <1>11, <2>1, RecastLocks DEF KInv
<1> QED BY <1>12, <1>15, <1>16, <1>17 DEF KInv

(* What acre_ calls do, up to the fields the invariant is not about.       *)
LEMMA create_step ==
    ASSUME IInv, NEW k \in OBJKIND, NEW call, CanCreate(call, k),
           NEW atr, "TA_NOEXS" \notin atr,
           NEW n, HasFields(n, KernelField), Agree(create_wobj(k, atr), n, DataField),
           Become(n)
    PROVE  StepOK
<1> DEFINE c == CONFIG[app]
           s == Cur
           w == Head(s.free_cb[k])
           r == create_wobj(k, atr)
<1>1. /\ app \in DOMAIN CONFIG /\ KInv(s, c) /\ ~excpt
      /\ s.p_runtsk = s.p_schedtsk
  BY StepBegins DEF CanCreate, TskCtxUnl
<1>2. Created(s, r, k, w, atr)
  BY CurFields DEF CanCreate, Created, create_wobj
<1> HIDE DEF c, s, w, r
<1>3. /\ KInv(r, c) /\ r.p_schedtsk = s.p_schedtsk /\ r.p_runtsk = s.p_runtsk
      /\ r.mtx = s.mtx
  <2>1. c = CONFIG[app]
    BY DEF c
  <2> QED BY <1>1, <1>2, <2>1, create_kinv
<1>4. Agree(r, n, DataField)
  BY DEF r
<1>5. Inv(n, {}, Ends(r)) /\ Keeps(r, n) /\ n.p_schedtsk = r.p_schedtsk
  BY <1>3, <1>4, OperationInv, DataInv
<1>6. KInv(n, c) /\ n.p_runtsk = n.p_schedtsk
  BY <1>1, <1>3, <1>5, Operation, KeepsFields
<1>7. Undisturbed(s, n) /\ NoNewOwner(s, n)
  BY <1>3, <1>5, KeepsFields DEF Undisturbed, NoNewOwner
<1> QED BY <1>1, <1>6, <1>7, Became DEF c, s


(* An object that no task waits for is deleted.                            *)
Deleted(s, r, k, w) ==
    r = [s EXCEPT !.wobj[w].wobjatr = {"TA_NOEXS"}, !.free_cb[k] = queue_insert_prev(@, w)]

(* The control block of an object that does not exist any more.            *)
Unmade(s, o, w) ==
    /\ HasFields(o, WOBJ)
    /\ \A v \in WOBJ \ {w} : o[v] = s.wobj[v]
    /\ HasFields(o[w], WobjField) /\ o[w].wobjatr = {"TA_NOEXS"}
    /\ \A f \in QUEUE : o[w][f] = s.wobj[w][f]

LEMMA UnmadeWobj ==
    ASSUME NEW s, WellFormed(s), NEW w \in WOBJ
    PROVE  Unmade(s, [s.wobj EXCEPT ![w].wobjatr = {"TA_NOEXS"}], w)
<1> DEFINE o == [s.wobj EXCEPT ![w].wobjatr = {"TA_NOEXS"}]
<1>1. HasFields(s.wobj, WOBJ) /\ \A v \in WOBJ : HasFields(s.wobj[v], WobjField)
  BY DEF WellFormed
<1>2. o[w] = [s.wobj[w] EXCEPT !.wobjatr = {"TA_NOEXS"}]
      /\ HasFields(o, WOBJ) /\ \A v \in WOBJ \ {w} : o[v] = s.wobj[v]
  BY <1>1 DEF HasFields
<1> HIDE DEF o
<1>3. HasFields(o[w], WobjField) /\ o[w].wobjatr = {"TA_NOEXS"}
      /\ \A f \in QUEUE : o[w][f] = s.wobj[w][f]
  BY <1>1, <1>2 DEF HasFields, WobjField, QUEUE
<1> QED BY <1>2, <1>3 DEF Unmade, o

LEMMA delete_kinv ==
    ASSUME app \in DOMAIN CONFIG, NEW c, c = CONFIG[app], NEW s, KInv(s, c),
           NEW k \in OBJKIND, NEW w \in ToSet(c.dynamic_obj[k]), WobjExists(s, w),
           Deserted(s, w), NEW r, Deleted(s, r, k, w)
    PROVE  /\ KInv(r, c) /\ r.p_runtsk = s.p_runtsk /\ r.dspflg = s.dspflg
           /\ r.mtx = s.mtx
<1> DEFINE S == {v \in ToSet(c.dynamic_obj[k]) : ~WobjExists(s, v)}
           q == Append(s.free_cb[k], w)
           l == [s.free_cb EXCEPT ![k] = q]
           o == [s.wobj EXCEPT ![w].wobjatr = {"TA_NOEXS"}]
<1>1. KindsApart(c) /\ FreeOK(s, c) /\ Inv(s, {}, Ends(s)) /\ WellFormed(s)
  BY ConfigKinds, OperationInv DEF KInv
<1>2. Lists(s.free_cb[k], S, WOBJ) /\ w \notin S /\ w \in WOBJ
  BY <1>1 DEF FreeOK, KindsApart
<1>3. r = [s EXCEPT !.free_cb = l, !.wobj = o]
  BY DEF Deleted, queue_insert_prev
<1> HIDE DEF S
<1>4. Lists(q, S \cup {w}, WOBJ)
  BY <1>2, AppendLists
<1>5. HasFields(s, KernelField) /\ HasFields(s.free_cb, OBJKIND)
  BY <1>1 DEF WellFormed
<1>6. Unmade(s, o, w)
  BY <1>1, <1>2, UnmadeWobj
<1> HIDE DEF q
<1>7. /\ HasFields(l, OBJKIND)
      /\ \A j \in OBJKIND : l[j] = IF j = k THEN q ELSE s.free_cb[j]
  BY <1>5 DEF HasFields
<1> HIDE DEF l, o
<1>8. r.free_cb = l /\ r.wobj = o /\ HasFields(r, KernelField)
      /\ \A f \in KernelField \ {"free_cb", "wobj"} : r[f] = s[f]
  BY <1>3, <1>5 DEF HasFields, KernelField
<1>9. \A v \in WOBJ : HasFields(o[v], WobjField)
  BY <1>1, <1>6 DEF WellFormed, Unmade
<1>10. WellFormed(r)
  BY <1>1, <1>6, <1>7, <1>8, <1>9 DEF WellFormed, KernelField, Unmade
<1>11. \A f \in QUEUE : s.wobj[w][f] = <<>>
  BY <1>1, <1>2, DesertedQueues
<1>12. Recast(s, r, w)
  BY <1>6, <1>8, <1>10, <1>11 DEF Recast, Agree, Unmade
<1>13. Inv(r, {}, Ends(s))
  BY <1>1, <1>2, <1>12, RecastInv
<1>18. LocksOK(r) /\ r.mtx = s.mtx
  <2>1. r.mtx = s.mtx /\ w \notin MTX
    BY <1>1, <1>8 DEF KernelField, KindsApart
  <2> QED BY <1>12, <2>1, RecastLocks DEF KInv
<1>14. FreeChange(s, r, k, q)
  BY <1>7, <1>8 DEF FreeChange, KernelField
<1>15. Others(s, r, w) /\ ~WobjExists(r, w)
  BY <1>2, <1>6, <1>8 DEF Others, WobjExists, Unmade
<1>16. FreeOK(r, c)
  BY <1>1, <1>4, <1>14, <1>15, FreeChanged DEF S
<1>17. Ends(r) = Ends(s) /\ (r.dspflg <=> r.enadsp /\ ~r.ipm)
       /\ r.p_runtsk = s.p_runtsk /\ r.dspflg = s.dspflg
  BY <1>12, RecastFields DEF Ends, KInv
<1> QED BY <1>13, <1>16, <1>17, <1>18 DEF KInv

LEMMA delete_step ==
    ASSUME IInv, NEW k \in OBJKIND, NEW w \in WOBJ, NEW call, CanDelete(call, k, w),
           Become(dispatch(delete_wobj(k, w)))
    PROVE  StepOK
<1> DEFINE c == CONFIG[app]
           s == init_wait_queues(Cur, w)
           r == delete_wobj(k, w)
<1>1. /\ app \in DOMAIN CONFIG /\ KInv(Cur, c) /\ Inv(Cur, {}, Ends(Cur))
  BY StepBegins
<1>2. w \in ToSet(c.dynamic_obj[k]) /\ WobjExists(Cur, w)
  BY CurExists DEF CanDelete, dynamic_obj
<1>3. Deleted(s, r, k, w)
  BY DEF delete_wobj, Deleted
<1>4. Inv(s, {}, Ends(Cur)) /\ Keeps(Cur, s) /\ \A f \in QUEUE : s.wobj[w][f] = <<>>
  BY <1>1, init_wait_queues_inv
<1>5. Become(dispatch(r))
  OBVIOUS
<1>6. c = CONFIG[app]
  OBVIOUS
<1> HIDE DEF s, r, c
<1>7. KInv(s, c) /\ WobjExists(s, w) /\ Deserted(s, w)
  BY <1>1, <1>2, <1>4, Operation, DesertedEmpty, KeepsFields DEF WobjExists
<1>8. KInv(r, c) /\ Undisturbed(Cur, r) /\ r.dspflg = Cur.dspflg /\ r.mtx = Cur.mtx
  BY <1>1, <1>2, <1>3, <1>4, <1>6, <1>7, delete_kinv, KeepsFields DEF Undisturbed
<1>9. KInv(dispatch(r), c) /\ dispatch(r).p_runtsk = dispatch(r).p_schedtsk
      /\ Undisturbed(Cur, dispatch(r)) /\ NoNewOwner(Cur, dispatch(r))
  BY <1>8, dispatch_kinv, dispatch_undisturbed DEF NoNewOwner
<1> QED BY <1>1, <1>5, <1>6, <1>9, Became

-----------------------------------------------------------------------------
(* Mutexes come and go.                                                    *)

(* What the protocol says of a task that neither holds mutex w nor waits   *)
(* for it does not depend on w.                                            *)
LEMMA RecastFit ==
    ASSUME NEW s, NEW r, r.tcb = s.tcb, NEW w,
           \A m \in MTX \ {w} : r.mtx[m] = s.mtx[m] /\ r.wobj[m] = s.wobj[m],
           NEW t \in TSK, w \notin ToSet(s.tcb[t].lastmtx), ~BlockedOn(s, t, w), Fit(s, t)
    PROVE  Fit(r, t)
<1>1. \A m \in MTX : /\ HoldsCeiling(r, t, m) <=> HoldsCeiling(s, t, m)
                     /\ HoldsCeiling(s, t, m) => r.mtx[m].ceilpri = s.mtx[m].ceilpri
  BY DEF HoldsCeiling, MTX_CEILING
<1>2. \A m \in MTX : BlockedOn(r, t, m) =>
         /\ BlockedOn(s, t, m)
         /\ Permits(s, s.tcb[t].bpriority, m) => Permits(r, s.tcb[t].bpriority, m)
  BY DEF BlockedOn, Permits, MTX_CEILING
<1> QED BY <1>1, <1>2 DEF Fit

(* Mutex w has a new control block, no owner, and no task waits for it.    *)
LEMMA RecastMutex ==
    ASSUME NEW s, NEW r, NEW w, Recast(s, r, w), LockInv(s, {}, {w}),
           \A m \in MTX \ {w} : r.mtx[m] = s.mtx[m],
           Deserted(s, w), Ownerless(r, w)
    PROVE  LockInv(r, {}, {}) /\ (Protocol(s) => Protocol(r))
<1> DEFINE X == {}
           V == Blocked(s, X)
<1>1. LockInv(s, X, {w}) /\ \A t \in V : s.tcb[t].p_wobjcb # w
  BY DEF Deserted
<1>2. r.tcb = s.tcb
  BY RecastFields
<1>3. \A m \in MTX \ {w} : r.mtx[m] = s.mtx[m] /\ r.wobj[m] = s.wobj[m]
  BY Mutexes DEF Recast
<1> HIDE DEF X
<1>4. LockInv(r, X, {w})
  BY <1>1, <1>2, <1>3, LockSame
<1>5. \A t \in TSK \ X : ~BlockedOn(r, t, w)
  BY <1>1, <1>2 DEF BlockedOn, Blocked
<1>6. LockInv(r, X, {})
  BY <1>4, <1>5, LockSettled
<1>7. ASSUME NEW t \in TSK, Fit(s, t)
      PROVE  Fit(r, t)
  <2>1. w \notin ToSet(s.tcb[t].lastmtx)
    <3> DEFINE q == s.tcb[t].lastmtx
               S == Owned(s, t, {w})
    <3>1. Lists(q, S, MTX)
      BY <1>1 DEF LockInv
    <3>2. w \notin S
      BY DEF Owned
    <3> HIDE DEF q, S
    <3>3. q \in Seq(MTX) /\ S = {q[i] : i \in 1 .. Len(q)}
      BY <3>1 DEF Lists
    <3>4. ToSet(q) = S
      BY <3>3 DEF ToSet
    <3> QED BY <3>2, <3>4 DEF q
  <2>2. ~BlockedOn(s, t, w)
    BY DEF Deserted, BlockedOn, Blocked
  <2> QED BY <1>2, <1>3, <1>7, <2>1, <2>2, RecastFit
<1> QED BY <1>6, <1>7 DEF X, Protocol

LEMMA FreeMtxChanged ==
    ASSUME NEW c, KindsApart(c), NEW s, FreeOK(s, c), NEW q, NEW r,
           r.free_tcb = s.free_tcb, r.free_cb = s.free_cb, r.tinib = s.tinib,
           r.free_mtxcb = q, NEW w \in ToSet(c.dynamic_mtx), Others(s, r, w),
           NEW S, S = {v \in ToSet(c.dynamic_mtx) : ~WobjExists(s, v)},
           \/ WobjExists(r, w) /\ Lists(q, S \ {w}, MTX)
           \/ ~WobjExists(r, w) /\ Lists(q, S \cup {w}, MTX)
    PROVE  FreeOK(r, c)
<1>1. w \in WOBJ /\ w \in MTX
  BY MutexObjects DEF KindsApart
<1>2. \A t : Exists(r, t) <=> Exists(s, t)
  BY DEF Exists
<1>3. \A j \in OBJKIND :
         {v \in ToSet(c.dynamic_obj[j]) : ~WobjExists(r, v)}
            = {v \in ToSet(c.dynamic_obj[j]) : ~WobjExists(s, v)}
  BY <1>1 DEF KindsApart, Others
<1>4. {v \in ToSet(c.dynamic_mtx) : ~WobjExists(r, v)}
         = IF WobjExists(r, w) THEN S \ {w} ELSE S \cup {w}
  BY MutexObjects DEF KindsApart, Others
<1> QED BY <1>2, <1>3, <1>4 DEF FreeOK

LEMMA acre_mtx_step ==
    ASSUME IInv, NEW atr, "TA_NOEXS" \notin atr, NEW p \in CONFIG[app].tskpri,
           acre_mtx(atr, p)
    PROVE  StepOK
<1> DEFINE c == CONFIG[app]
           s == Cur
           w == Head(s.free_mtxcb)
           q == Tail(s.free_mtxcb)
           b == new_wobj(atr)
           o == [s.wobj EXCEPT ![w] = b]
           d == [p_loctsk |-> NULL, ceilpri |-> p]
           x == [s.mtx EXCEPT ![w] = d]
           r == [s EXCEPT !.free_mtxcb = q, !.wobj = o, !.mtx = x]
           S == {v \in ToSet(c.dynamic_mtx) : ~WobjExists(s, v)}
<1>1. /\ app \in DOMAIN CONFIG /\ KInv(s, c) /\ ~excpt
      /\ s.p_runtsk = s.p_schedtsk
  BY StepBegins DEF acre_mtx, TskCtxUnl
<1>2. KindsApart(c) /\ FreeOK(s, c) /\ Inv(s, {}, Ends(s)) /\ WellFormed(s) /\ p \in TPRI
  BY <1>1, ConfigKinds, OperationInv, Configured DEF KInv
<1>3. s.free_mtxcb # <<>> /\ Become(r)
  BY CurFields DEF acre_mtx
<1>4. c = CONFIG[app]
  OBVIOUS
<1> HIDE DEF s, c
<1>5. Lists(s.free_mtxcb, S, MTX)
  BY <1>2 DEF FreeOK
<1> HIDE DEF S
<1>6. Lists(q, S \ {w}, MTX) /\ w \in S
  BY <1>3, <1>5, TailLists
<1>7. w \in ToSet(c.dynamic_mtx) /\ ~WobjExists(s, w) /\ w \in MTX /\ w \in WOBJ
  BY <1>2, <1>6, MutexObjects DEF S, KindsApart
<1> HIDE DEF w
<1>8. /\ HasFields(s, KernelField) /\ HasFields(s.wobj, WOBJ) /\ HasFields(s.mtx, MTX)
      /\ \A v \in WOBJ : HasFields(s.wobj[v], WobjField)
      /\ \A m \in MTX : /\ HasFields(s.mtx[m], {"p_loctsk", "ceilpri"})
                        /\ s.mtx[m].p_loctsk \in TSK \cup {NULL}
                        /\ s.mtx[m].ceilpri \in TPRI
  BY <1>2 DEF WellFormed
<1>9. HasFields(b, WobjField) /\ b.wobjatr = atr /\ \A f \in QUEUE : b[f] = <<>>
  BY DEF new_wobj, HasFields, WobjField, QUEUE
<1>10. /\ HasFields(d, {"p_loctsk", "ceilpri"})
       /\ d.p_loctsk \in TSK \cup {NULL} /\ d.ceilpri \in TPRI
  BY <1>2 DEF HasFields
<1> HIDE DEF b, d, q
<1>11. /\ HasFields(o, WOBJ) /\ \A v \in WOBJ : o[v] = IF v = w THEN b ELSE s.wobj[v]
       /\ HasFields(x, MTX) /\ \A m \in MTX : x[m] = IF m = w THEN d ELSE s.mtx[m]
  BY <1>8 DEF HasFields
<1> HIDE DEF o, x
<1>12. r.free_mtxcb = q /\ r.wobj = o /\ r.mtx = x /\ HasFields(r, KernelField)
       /\ \A f \in KernelField \ {"free_mtxcb", "wobj", "mtx"} : r[f] = s[f]
  BY <1>8 DEF HasFields, KernelField
<1> HIDE DEF r
<1>13. WellFormed(r)
  BY <1>2, <1>8, <1>9, <1>10, <1>11, <1>12 DEF WellFormed, KernelField
<1>14. Recast(s, r, w)
  BY <1>7, <1>9, <1>11, <1>12, <1>13 DEF Recast, Agree
<1>15. Inv(r, {}, Ends(s)) /\ Deserted(s, w)
  BY <1>2, <1>7, <1>14, DesertedAbsent, RecastInv
<1>21. LocksOK(r)
  <2> DEFINE X == {}
  <2>1. LockInv(s, X, {}) /\ Ownerless(s, w) /\ Protocol(s)
    BY <1>1, <1>7 DEF KInv, LocksOK, Ownerless
  <2> HIDE DEF X
  <2>2. LockInv(s, X, {w})
    BY <2>1, LockFreed
  <2>3. LockInv(s, {}, {w})
    BY <2>2 DEF X
  <2>4. Ownerless(r, w)
    BY <1>7, <1>11, <1>12 DEF Ownerless, d
  <2>5. \A m \in MTX \ {w} : r.mtx[m] = s.mtx[m]
    BY <1>11, <1>12
  <2> QED BY <1>14, <1>15, <2>1, <2>3, <2>4, <2>5, RecastMutex DEF LocksOK
<1>16. Others(s, r, w) /\ WobjExists(r, w)
  BY <1>7, <1>9, <1>11, <1>12 DEF Others, WobjExists
<1>17. r.free_tcb = s.free_tcb /\ r.free_cb = s.free_cb /\ r.tinib = s.tinib
  BY <1>12 DEF KernelField
<1>18. FreeOK(r, c)
  BY <1>2, <1>6, <1>7, <1>12, <1>16, <1>17, FreeMtxChanged DEF S
<1>19. Ends(r) = Ends(s) /\ (r.dspflg <=> r.enadsp /\ ~r.ipm)
       /\ r.p_schedtsk = s.p_schedtsk /\ r.p_runtsk = s.p_runtsk
  BY <1>1, <1>14, RecastFields DEF Ends, KInv
<1>20. KInv(r, c) /\ Undisturbed(s, r)
  BY <1>15, <1>18, <1>19, <1>21 DEF KInv, Undisturbed
<1>22. ~excpt'
  BY <1>1 DEF acre_mtx, UnchangedContext
<1> QED BY <1>1, <1>3, <1>4, <1>19, <1>20, <1>22, Became DEF s


(* No task waits to receive from a mutex.                                  *)
LEMMA NoReceivers ==
    ASSUME NEW s, NEW E, Inv(s, {}, E), NEW m \in MTX
    PROVE  s.wobj[m].rwait_queue = <<>>
<1> DEFINE f == "rwait_queue"
           V == Blocked(s, {})
           S == WaitsIn(s, V, m, f)
<1>1. Lists(s.wobj[m][f], S, TSK)
  BY MutexObjects DEF Inv, WaitOK, QUEUE
<1>2. \A t \in V : TaskOK(s, t, E)
  BY DEF Inv, Blocked
<1>3. \A t \in V : queue_of(s.tcb[t].tstat) = f => s.tcb[t].p_wobjcb \notin MTX
  BY <1>2 DEF TaskOK, queue_of, RECEIVING
<1>4. S = {}
  BY <1>3 DEF WaitsIn
<1> HIDE DEF S
<1> QED BY <1>1, <1>4, ListsEmpty

LEMMA mutex_unlink_deserts ==
    ASSUME NEW s, NEW E, Inv(s, {}, E), NEW t \in TSK, NEW m \in MTX, Deserted(s, m)
    PROVE  LET r == mutex_unlink(s, t, m)
           IN  /\ Inv(r, {}, E) /\ Passes(s, r) /\ Deserted(r, m) /\ r.mtx = s.mtx
               /\ LockInv(s, {}, {}) /\ m \in Owned(s, t, {}) =>
                     LockInv(r, {}, {m}) /\ CeilingsKept(s, r, {})
<1> DEFINE X == {}
           f == "lastmtx"
           l == queue_delete(s.tcb[t].lastmtx, m)
           a == [s EXCEPT !.tcb[t][f] = l]
           r == mutex_drop_priority(a, t, m)
<1>1. mutex_unlink(s, t, m) = r
  BY DEF mutex_unlink
<1>2. WellFormed(s)
  BY DEF Inv
<1>3. l \in Seq(MTX)
  BY <1>2, DeleteSeq DEF WellFormed, TcbOK
<1>14. l = queue_delete(s.tcb[t].lastmtx, m)
  OBVIOUS
<1>4. f \in TcbField /\ f \notin {"priority", "bpriority"} /\ {f} \cap TaskField = {}
      /\ f \notin {"tstat", "p_wobjcb"}
  BY DEF TcbField, TaskField
<1>15. Inv(s, X, E) /\ t \in TSK \ X
  OBVIOUS
<1>16. LockInv(s, {}, {}) => LockInv(s, X, {})
  OBVIOUS
<1> HIDE DEF l, X
<1>20. /\ r.mtx = s.mtx
       /\ ToSet(l) = ToSet(s.tcb[t].lastmtx) \ {m} => CeilingsKept(s, r, {})
  <2> DEFINE e == [s EXCEPT !.tcb[t].lastmtx = l]
  <2>1. LET z == mutex_drop_priority(e, t, m)
        IN  /\ Inv(z, X, E) /\ Passes(s, z) /\ TcbSet(s, e, t, "lastmtx", l)
            /\ KeepsLocks(e, z) /\ z.mtx = s.mtx
            /\ ToSet(l) = ToSet(s.tcb[t].lastmtx) \ {m} => CeilingsKept(s, z, {})
    <3> HIDE DEF f, a
    <3> QED BY <1>3, <1>15, mutex_unlink_inv
  <2>2. r = mutex_drop_priority(e, t, m)
    OBVIOUS
  <2> HIDE DEF e, a, r
  <2> QED BY <2>1, <2>2
<1> HIDE DEF f
<1>5. TcbSet(s, a, t, f, l)
  BY <1>2, <1>3, <1>4, SetTcb
<1>6. TcbEdit(s, a, t, {f})
  BY <1>5 DEF TcbSet
<1> HIDE DEF a
<1>17. Like(s, a, X)
  BY <1>4, <1>6, TcbEditLike
<1>7. Inv(a, X, E) /\ Passes(s, a)
  BY <1>6, <1>15, <1>17, Change, TcbEditFields
<1>8. \A u \in TSK : a.tcb[u].tstat = s.tcb[u].tstat /\ a.tcb[u].p_wobjcb = s.tcb[u].p_wobjcb
  BY <1>4, <1>6 DEF TcbEdit, TcbField
<1>10. Inv(r, X, E) /\ KeepsLocks(a, r) /\ NewPriority(a, r, t)
  BY <1>7, <1>15, mutex_drop_priority_inv
<1> HIDE DEF r
<1>11. \A u \in TSK : r.tcb[u].tstat = a.tcb[u].tstat /\ r.tcb[u].p_wobjcb = a.tcb[u].p_wobjcb
  BY <1>10, NewPriorityState
<1>12. Deserted(r, m)
  BY <1>8, <1>11 DEF Deserted, Blocked
<1>13. Passes(s, r)
  BY <1>7, <1>10, PassesTrans DEF KeepsLocks
<1>18. LockInv(s, X, {}) /\ m \in Owned(s, t, {}) =>
          LockInv(r, X, {m}) /\ CeilingsKept(s, r, {})
  <2> HAVE LockInv(s, X, {}) /\ m \in Owned(s, t, {})
  <2>1. TcbSet(s, a, t, "lastmtx", l)
    BY <1>5 DEF f
  <2>2. LockInv(a, X, {m})
    BY <1>14, <2>1, UnlinkedLocks
  <2>3. ToSet(l) = ToSet(s.tcb[t].lastmtx) \ {m}
    BY <1>14, UnlinkedSet
  <2> QED BY <1>10, <1>20, <2>2, <2>3, LockKept
<1>19. /\ Inv(r, {}, E)
       /\ LockInv(s, {}, {}) /\ m \in Owned(s, t, {}) =>
             LockInv(r, {}, {m}) /\ CeilingsKept(s, r, {})
  BY <1>10, <1>18 DEF X
<1> QED BY <1>1, <1>12, <1>13, <1>19, <1>20

MtxDeleted(s, r, m) ==
    r = [s EXCEPT !.wobj[m].wobjatr = {"TA_NOEXS"}, !.free_mtxcb = queue_insert_prev(@, m)]

LEMMA delete_mtx_kinv ==
    ASSUME app \in DOMAIN CONFIG, NEW c, c = CONFIG[app], NEW s, Inv(s, {}, Ends(s)),
           s.dspflg <=> s.enadsp /\ ~s.ipm, FreeOK(s, c),
           NEW w \in ToSet(c.dynamic_mtx), WobjExists(s, w), LockInv(s, {}, {w}),
           Protocol(s), Deserted(s, w), NEW r, MtxDeleted(s, r, w)
    PROVE  KInv(r, c) /\ r.p_runtsk = s.p_runtsk /\ r.dspflg = s.dspflg
<1> DEFINE S == {v \in ToSet(c.dynamic_mtx) : ~WobjExists(s, v)}
           q == Append(s.free_mtxcb, w)
           o == [s.wobj EXCEPT ![w].wobjatr = {"TA_NOEXS"}]
<1>1. KindsApart(c) /\ FreeOK(s, c) /\ Inv(s, {}, Ends(s)) /\ WellFormed(s)
  BY ConfigKinds DEF Inv
<1>2. Lists(s.free_mtxcb, S, MTX) /\ w \notin S /\ w \in MTX /\ w \in WOBJ
  BY <1>1, MutexObjects DEF FreeOK, KindsApart
<1>3. r = [s EXCEPT !.free_mtxcb = q, !.wobj = o]
  BY DEF MtxDeleted, queue_insert_prev
<1> HIDE DEF S
<1>4. Lists(q, S \cup {w}, MTX)
  BY <1>2, AppendLists
<1>5. HasFields(s, KernelField)
  BY <1>1 DEF WellFormed
<1>6. Unmade(s, o, w)
  BY <1>1, <1>2, UnmadeWobj
<1> HIDE DEF q, o
<1>8. r.free_mtxcb = q /\ r.wobj = o /\ HasFields(r, KernelField)
      /\ \A f \in KernelField \ {"free_mtxcb", "wobj"} : r[f] = s[f]
  BY <1>3, <1>5 DEF HasFields, KernelField
<1>9. \A v \in WOBJ : HasFields(o[v], WobjField)
  BY <1>1, <1>6 DEF WellFormed, Unmade
<1>10. WellFormed(r)
  BY <1>1, <1>6, <1>8, <1>9 DEF WellFormed, KernelField, Unmade
<1>11. \A f \in QUEUE : s.wobj[w][f] = <<>>
  BY <1>1, <1>2, DesertedQueues
<1>12. Recast(s, r, w)
  BY <1>6, <1>8, <1>10, <1>11 DEF Recast, Agree, Unmade
<1>13. Inv(r, {}, Ends(s))
  BY <1>1, <1>2, <1>12, RecastInv
<1>14. r.free_tcb = s.free_tcb /\ r.free_cb = s.free_cb /\ r.tinib = s.tinib
  BY <1>8 DEF KernelField
<1>15. Others(s, r, w) /\ ~WobjExists(r, w)
  BY <1>2, <1>6, <1>8 DEF Others, WobjExists, Unmade
<1>16. FreeOK(r, c)
  BY <1>1, <1>4, <1>8, <1>14, <1>15, FreeMtxChanged DEF S
<1>17. Ends(r) = Ends(s) /\ (r.dspflg <=> r.enadsp /\ ~r.ipm)
       /\ r.p_runtsk = s.p_runtsk /\ r.dspflg = s.dspflg
  BY <1>12, RecastFields DEF Ends
<1>18. LocksOK(r)
  <2>1. Ownerless(r, w) /\ r.mtx = s.mtx
    BY <1>8, <1>15 DEF Ownerless, KernelField
  <2> QED BY <1>12, <2>1, RecastMutex DEF LocksOK
<1> QED BY <1>13, <1>16, <1>17, <1>18 DEF KInv

LEMMA del_mtx_step ==
    ASSUME IInv, NEW m \in MTX, del_mtx(m)
    PROVE  StepOK
<1> DEFINE c == CONFIG[app]
           t == mtx[m].p_loctsk
           f == "wait_queue"
           E == Ends(Cur)
           d == init_wait_queue(Cur, m, f)
           u == IF t = NULL THEN d ELSE mutex_unlink(d, t, m)
           r == [u EXCEPT !.wobj[m].wobjatr = {"TA_NOEXS"},
                          !.free_mtxcb = queue_insert_prev(@, m)]
<1>1. /\ app \in DOMAIN CONFIG /\ KInv(Cur, c) /\ Inv(Cur, {}, E)
      /\ m \in WOBJ /\ f \in QUEUE
  BY StepBegins, MutexObjects DEF QUEUE
<1>2. m \in ToSet(c.dynamic_mtx) /\ WobjExists(Cur, m)
  BY <1>1, CurExists DEF del_mtx, dynamic_mtx
<1>3. t \in TSK \cup {NULL}
  BY <1>1, CurFields DEF Inv, WellFormed
<1>4. Become(dispatch(r))
  BY DEF del_mtx
<1>5. MtxDeleted(u, r, m)
  BY DEF MtxDeleted
<1>6. c = CONFIG[app]
  OBVIOUS
<1> HIDE DEF E, r, c, f
<1>7. Inv(d, {}, E) /\ Keeps(Cur, d) /\ d.wobj[m][f] = <<>>
  BY <1>1, init_wait_queue_inv DEF Drains
<1>13. LockInv(Cur, {}, {}) /\ Cur.mtx[m].p_loctsk = t /\ LocksOK(Cur) /\ ~excpt'
  BY <1>1, CurFields DEF KInv, LocksOK, del_mtx, TskCtxUnl, UnchangedContext
<1> HIDE DEF d
<1>14. LockInv(d, {}, {}) /\ d.mtx[m].p_loctsk = t /\ WobjExists(d, m) /\ Protocol(d)
  <2>1. LocksOK(d)
    BY <1>7, <1>13, KeepsPreserves DEF Preserves
  <2> QED BY <1>1, <1>2, <1>7, <1>13, <2>1, KeepsFields DEF WobjExists, LocksOK
<1> HIDE DEF t
<1>8. Deserted(d, m)
  <2>1. d.wobj[m].rwait_queue = <<>> /\ d.wobj[m].wait_queue = <<>>
    BY <1>7, NoReceivers DEF f
  <2>2. \A g \in QUEUE : d.wobj[m][g] = <<>>
    BY <2>1 DEF QUEUE
  <2> QED BY <1>1, <1>7, <2>2, DesertedEmpty
<1>9. /\ Inv(u, {}, E) /\ Passes(Cur, u) /\ Deserted(u, m) /\ LockInv(u, {}, {m})
      /\ Protocol(u)
  <2>1. CASE t = NULL
    <3> DEFINE X == {}
    <3>1. LockInv(d, X, {}) /\ Ownerless(d, m)
      BY <1>14, <2>1 DEF Ownerless
    <3> HIDE DEF X
    <3>2. LockInv(d, X, {m})
      BY <3>1, LockFreed
    <3>3. LockInv(d, {}, {m})
      BY <3>2 DEF X
    <3> QED BY <1>7, <1>8, <1>14, <2>1, <3>3, KeepsFields
  <2>2. CASE t # NULL
    <3> DEFINE n == mutex_unlink(d, t, m)
    <3>1. t \in TSK /\ m \in Owned(d, t, {})
      BY <1>3, <1>14, <2>2 DEF Owned
    <3>2. /\ Inv(n, {}, E) /\ Passes(d, n) /\ Deserted(n, m) /\ LockInv(n, {}, {m})
          /\ CeilingsKept(d, n, {})
      BY <1>7, <1>8, <1>14, <3>1, mutex_unlink_deserts
    <3>3. u = n
      BY <2>2
    <3> HIDE DEF n, u
    <3>4. Passes(Cur, n)
      BY <1>7, <3>2, PassesTrans, KeepsFields
    <3>5. Protocol(n)
      BY <1>14, <3>2 DEF Protocol, CeilingsKept
    <3> QED BY <3>2, <3>3, <3>4, <3>5
  <2> QED BY <2>1, <2>2
<1> HIDE DEF u
<1>10. /\ Inv(u, {}, Ends(u)) /\ FreeOK(u, c) /\ WobjExists(u, m)
       /\ u.dspflg <=> u.enadsp /\ ~u.ipm
  <2>1. Ends(u) = E /\ FreeOK(u, c) /\ (u.dspflg <=> u.enadsp /\ ~u.ipm)
    BY <1>1, <1>9, FrameKept DEF E
  <2> QED BY <1>1, <1>2, <1>9, <2>1, PassesFields DEF WobjExists
<1>11. KInv(r, c) /\ Undisturbed(Cur, r) /\ r.dspflg = Cur.dspflg
  <2>1. KInv(r, c) /\ r.p_runtsk = u.p_runtsk /\ r.dspflg = u.dspflg
    BY <1>1, <1>2, <1>5, <1>6, <1>9, <1>10, delete_mtx_kinv
  <2>2. u.p_runtsk = Cur.p_runtsk /\ u.dspflg = Cur.dspflg
    BY <1>9, PassesFields
  <2> QED BY <2>1, <2>2 DEF Undisturbed
<1>12. KInv(dispatch(r), c) /\ dispatch(r).p_runtsk = dispatch(r).p_schedtsk
       /\ Undisturbed(Cur, dispatch(r))
  BY <1>11, dispatch_kinv, dispatch_undisturbed
<1> QED BY <1>1, <1>4, <1>6, <1>12, <1>13, Became


-----------------------------------------------------------------------------
(* Calls on the other objects.                                             *)

(* A call changes what the invariant is not about, besides what an         *)
(* operation did, and dispatches.                                          *)
LEMMA data_dispatched ==
    ASSUME IInv, NEW s, Inv(s, {}, Ends(Cur)), Keeps(Cur, s),
           NEW n, HasFields(n, KernelField), Agree(s, n, DataField),
           Become(dispatch(n))
    PROVE  StepOK
<1>1. Inv(n, {}, Ends(Cur)) /\ Keeps(s, n)
  BY DataInv
<1> QED BY <1>1, KeepsTrans, Dispatched

(* The first task of a queue is served, and its wait ends.                 *)
LEMMA handed_step ==
    ASSUME IInv, NEW w \in WOBJ, NEW f \in QUEUE, Cur.wobj[w][f] # <<>>,
           NEW t, t = Head(Cur.wobj[w][f]), NEW d, Handed(Cur, d, w, f, t),
           NEW r, r = wait_complete(d, t),
           \/ Become(dispatch(r))
           \/ Become(dispatch_or_request(r)) /\ UnchangedContext
    PROVE  StepOK
<1>1. Inv(Cur, {}, Ends(Cur))
  BY StepBegins
<1>2. Inv(r, {}, Ends(Cur)) /\ Keeps(Cur, r)
  BY <1>1, HandOverHead
<1> QED BY <1>2, Dispatched

(* The first task only leaves the queue.                                   *)
LEMMA TakenHanded ==
    ASSUME NEW s, WellFormed(s), NEW w \in WOBJ, NEW f \in QUEUE, s.wobj[w][f] # <<>>,
           NEW t \in TSK, t = Head(s.wobj[w][f])
    PROVE  Handed(s, [s EXCEPT !.wobj[w][f] = Tail(s.wobj[w][f])], w, f, t)
<1> DEFINE q == Tail(s.wobj[w][f])
           d == [s EXCEPT !.wobj[w][f] = q]
<1>1. q = Tail(s.wobj[w][f])
  OBVIOUS
<1> HIDE DEF q
<1>2. QueueSet(s, d, w, f, q)
  BY SetQueue
<1> HIDE DEF d
<1>3. QueueEdit(s, d, w, f) /\ d.wobj[w][f] = q /\ d.tcb = s.tcb
  BY <1>2 DEF QueueSet, QueueEdit, Agree, KernelField
<1>4. Removed(s, d, w, f, t)
  BY <1>1, <1>3 DEF Removed, QueueEdit
<1>5. WellFormed(d) /\ Agree(s, d, DataField \cup {"wobj", "tcb"})
  BY <1>3 DEF QueueEdit, Agree
<1> QED BY <1>3, <1>4, <1>5 DEF Handed, d, q

LEMMA create_fields ==
    ASSUME IInv, NEW k, NEW atr
    PROVE  HasFields(create_wobj(k, atr), KernelField)
<1> DEFINE s == Cur
           l == [s.free_cb EXCEPT ![k] = Tail(@)]
           o == [s.wobj EXCEPT ![Head(free_cb[k])] = new_wobj(atr)]
           r == [s EXCEPT !.free_cb = l, !.wobj = o]
<1>1. create_wobj(k, atr) = r
  BY DEF create_wobj
<1>2. HasFields(s, KernelField)
  BY StepBegins DEF WellFormed
<1> HIDE DEF l, o, s
<1>3. HasFields(r, KernelField)
  BY <1>2 DEF HasFields, KernelField
<1> QED BY <1>1, <1>3

-----------------------------------------------------------------------------
(* Semaphores.                                                             *)

LEMMA acre_sem_step ==
    ASSUME IInv, NEW atr, "TA_NOEXS" \notin atr, NEW i, NEW max, acre_sem(atr, i, max)
    PROVE  StepOK
<1> DEFINE k == "SEM"
           w == Head(free_cb["SEM"])
           v == [semcnt |-> i, isemcnt |-> i, maxsem |-> max]
           s == create_wobj(k, atr)
           n == [s EXCEPT !.sem[w] = v]
<1>1. k \in OBJKIND /\ CanCreate("acre_sem", k) /\ Become(n)
  BY DEF acre_sem, OBJKIND
<1>2. HasFields(s, KernelField)
  BY create_fields
<1> HIDE DEF v, w, s
<1>3. HasFields(n, KernelField) /\ Agree(s, n, DataField)
  BY <1>2 DEF HasFields, KernelField, Agree, DataField
<1> HIDE DEF n, k
<1> QED BY <1>1, <1>3, create_step DEF s

LEMMA del_sem_step ==
    ASSUME IInv, NEW w \in SEM, del_sem(w)
    PROVE  StepOK
<1> DEFINE k == "SEM"
<1>1. k \in OBJKIND /\ w \in WOBJ /\ CanDelete("del_sem", k, w)
      /\ Become(dispatch(delete_wobj(k, w)))
  BY TaskOpsAssumption DEF del_sem, OBJKIND
<1> HIDE DEF k
<1> QED BY <1>1, delete_step

LEMMA sem_data_step ==
    ASSUME IInv, NEW w, NEW v, Become([Cur EXCEPT !.sem[w].semcnt = v]), UnchangedContext
    PROVE  StepOK
<1> DEFINE s == Cur
           n == [s EXCEPT !.sem[w].semcnt = v]
<1>1. HasFields(s, KernelField) /\ Become(n)
  BY StepBegins DEF WellFormed
<1> HIDE DEF s
<1>2. HasFields(n, KernelField) /\ Agree(s, n, DataField)
  BY <1>1 DEF HasFields, KernelField, Agree, DataField
<1> HIDE DEF n
<1> QED BY <1>1, <1>2, DataStep DEF s, UnchangedContext

LEMMA sig_sem_step ==
    ASSUME IInv, NEW w \in SEM, sig_sem(w)
    PROVE  StepOK
<1> DEFINE f == "wait_queue"
           q == wobj[w].wait_queue
           t == Head(q)
<1>1. UnchangedContext /\ w \in WOBJ /\ f \in QUEUE /\ WellFormed(Cur)
      /\ Cur.wobj = wobj /\ Inv(Cur, {}, Ends(Cur))
  BY StepBegins, CurFields, TaskOpsAssumption DEF sig_sem, QUEUE
<1>2. CASE q = <<>>
  BY <1>1, <1>2, sem_data_step DEF sig_sem
<1>3. CASE q # <<>>
  <2> DEFINE d == [Cur EXCEPT !.wobj[w][f] = Tail(Cur.wobj[w][f])]
             r == wait_complete(d, t)
  <2>1. Become(dispatch_or_request(r))
    BY <1>1, <1>3 DEF sig_sem
  <2>2. Cur.wobj[w][f] # <<>> /\ t = Head(Cur.wobj[w][f])
    BY <1>1, <1>3
  <2>3. t \in TSK
    <3> DEFINE X == {}
    <3>1. Inv(Cur, X, Ends(Cur))
      BY <1>1
    <3> HIDE DEF X, f
    <3>2. t \in WaitsIn(Cur, Blocked(Cur, X), w, f)
      BY <1>1, <2>2, <3>1, HeadWaits
    <3> QED BY <3>2 DEF WaitsIn, Blocked
  <2> HIDE DEF f, t
  <2>4. Handed(Cur, d, w, f, t)
    BY <1>1, <2>2, <2>3, TakenHanded
  <2>5. r = wait_complete(d, t)
    OBVIOUS
  <2> HIDE DEF d, r
  <2> QED BY <1>1, <2>1, <2>2, <2>4, <2>5, handed_step
<1> QED BY <1>2, <1>3

LEMMA wait_sem_step ==
    ASSUME IInv, NEW w \in SEM, NEW call, MayWait(call, w), NEW tmout,
           Become(dispatch(wobj_make_wait_tmout(Cur, TS_WAITING_SEM, w, tmout)))
    PROVE  StepOK
<1> DEFINE x == "SEM"
<1>1. w \in WOBJ /\ Holding(Cur) /\ LockedMutex(Cur, p_runtsk, w) /\ w \notin MTX
  BY TaskOpsAssumption, OtherKinds DEF Holding
<1>2. x \in TS_WOBJCB_MASK /\ x # "MTX"
      /\ Become(dispatch(wobj_make_wait_tmout(Cur, {x}, w, tmout)))
  BY DEF TS_WAITING_SEM, TS_WOBJCB_MASK
<1> HIDE DEF x
<1> QED BY <1>1, <1>2, block_step

LEMMA wai_sem_step ==
    ASSUME IInv, NEW w \in SEM, wai_sem(w)
    PROVE  StepOK
<1>1. MayWait("wai_sem", w) /\ UnchangedContext
  BY DEF wai_sem
<1>2. CASE Acquire(w)
  BY <1>1, <1>2, sem_data_step DEF Acquire
<1>3. CASE ~Acquire(w)
  <2>1. Become(dispatch(wobj_make_wait_tmout(Cur, TS_WAITING_SEM, w, "TMO_FEVR")))
    BY <1>3, wobj_make_wait_fevr DEF wai_sem
  <2> QED BY <1>1, <2>1, wait_sem_step
<1> QED BY <1>2, <1>3

LEMMA pol_sem_step ==
    ASSUME IInv, NEW w \in SEM, pol_sem(w)
    PROVE  StepOK
BY sem_data_step DEF pol_sem, Acquire

LEMMA twai_sem_step ==
    ASSUME IInv, NEW w \in SEM, twai_sem(w)
    PROVE  StepOK
<1>1. MayWait("twai_sem", w) /\ UnchangedContext
  BY DEF twai_sem
<1>2. CASE Acquire(w)
  BY <1>1, <1>2, sem_data_step DEF Acquire
<1>3. CASE ~Acquire(w)
  <2>1. Become(dispatch(wobj_make_wait_tmout(Cur, TS_WAITING_SEM, w, "finite")))
    BY <1>3 DEF twai_sem
  <2> QED BY <1>1, <2>1, wait_sem_step
<1> QED BY <1>2, <1>3

LEMMA ini_sem_step ==
    ASSUME IInv, NEW w \in SEM, ini_sem(w)
    PROVE  StepOK
<1> DEFINE f == "wait_queue"
           s == init_wait_queue(Cur, w, f)
           v == sem[w].isemcnt
           n == [s EXCEPT !.sem[w].semcnt = v]
<1>1. Inv(Cur, {}, Ends(Cur)) /\ w \in WOBJ /\ f \in QUEUE /\ Become(dispatch(n))
  BY StepBegins, TaskOpsAssumption DEF ini_sem, QUEUE
<1> HIDE DEF f, v
<1>2. Inv(s, {}, Ends(Cur)) /\ Keeps(Cur, s)
  BY <1>1, init_wait_queue_inv DEF Drains
<1> HIDE DEF s
<1>3. HasFields(s, KernelField)
  BY <1>2 DEF Inv, WellFormed
<1>4. HasFields(n, KernelField) /\ Agree(s, n, DataField)
  BY <1>3 DEF HasFields, KernelField, Agree, DataField
<1> HIDE DEF n
<1> QED BY <1>1, <1>2, <1>4, data_dispatched

(* A change to what the invariant is not about.                            *)
DataEdit(s, r) == HasFields(r, KernelField) /\ Agree(s, r, DataField)

LEMMA DataEditTrans ==
    ASSUME NEW s, NEW r, NEW n, DataEdit(s, r), DataEdit(r, n)
    PROVE  DataEdit(s, n)
BY DEF DataEdit, Agree

LEMMA CurData == ASSUME IInv PROVE DataEdit(Cur, Cur)
<1>1. HasFields(Cur, KernelField)
  BY StepBegins DEF WellFormed
<1> QED BY <1>1 DEF DataEdit, Agree

LEMMA DataEditStep ==
    ASSUME IInv, NEW r, DataEdit(Cur, r), Become(r), UnchangedContext
    PROVE  StepOK
BY DataStep DEF DataEdit, UnchangedContext

LEMMA acre_step ==
    ASSUME IInv, NEW k \in OBJKIND, NEW call, CanCreate(call, k),
           NEW atr, "TA_NOEXS" \notin atr, NEW n, DataEdit(create_wobj(k, atr), n), Become(n)
    PROVE  StepOK
BY create_step DEF DataEdit

LEMMA CreatedData ==
    ASSUME IInv, NEW k, NEW atr, NEW s, s = create_wobj(k, atr)
    PROVE  DataEdit(s, s)
BY create_fields DEF DataEdit, Agree

-----------------------------------------------------------------------------
(* Event flags.                                                            *)

LEMMA SetFlg ==
    ASSUME NEW s, DataEdit(s, s), NEW w, NEW v
    PROVE  DataEdit(s, [s EXCEPT !.flg[w].flgptn = v])
<1> DEFINE l == [s.flg EXCEPT ![w].flgptn = v]
           r == [s EXCEPT !.flg = l]
<1>1. [s EXCEPT !.flg[w].flgptn = v] = r
  OBVIOUS
<1> HIDE DEF l
<1>2. DataEdit(s, r)
  BY DEF DataEdit, HasFields, KernelField, Agree, DataField
<1> QED BY <1>1, <1>2

LEMMA SetOut ==
    ASSUME NEW s, NEW r, DataEdit(s, r), NEW v
    PROVE  DataEdit(s, [r EXCEPT !.out = v])
<1> DEFINE n == [r EXCEPT !.out = v]
<1>1. DataEdit(r, n)
  BY DEF DataEdit, HasFields, KernelField, Agree, DataField
<1> HIDE DEF n
<1>2. DataEdit(s, n)
  BY <1>1, DataEditTrans
<1> QED BY <1>2 DEF n

LEMMA clear_if_clr_data ==
    ASSUME NEW s, DataEdit(s, s), NEW w
    PROVE  DataEdit(s, clear_if_clr(s, w))
BY SetFlg DEF clear_if_clr

LEMMA acre_flg_step ==
    ASSUME IInv, NEW atr, "TA_NOEXS" \notin atr, NEW ptn, acre_flg(atr, ptn)
    PROVE  StepOK
<1> DEFINE k == "FLG"
           w == Head(free_cb["FLG"])
           v == [flgptn |-> ptn, iflgptn |-> ptn]
           s == create_wobj(k, atr)
           n == [s EXCEPT !.flg[w] = v]
<1>0. excpt' = excpt
  BY DEF acre_flg
<1>1. CASE free_cb[k] = <<>>
  <2>1. Become(Cur)
    BY <1>1 DEF acre_flg
  <2> QED BY <1>0, <2>1, CurData, DataStep DEF DataEdit
<1>2. CASE free_cb[k] # <<>>
  <2>1. k \in OBJKIND /\ CanCreate("acre_flg", k) /\ Become(n)
    BY <1>2 DEF acre_flg, OBJKIND, CanCreate
  <2>2. DataEdit(s, s)
    BY CreatedData
  <2> HIDE DEF v, w, s
  <2>3. DataEdit(s, n)
    BY <2>2 DEF DataEdit, HasFields, KernelField, Agree, DataField
  <2> HIDE DEF n, k
  <2> QED BY <2>1, <2>3, acre_step DEF s
<1> QED BY <1>1, <1>2

LEMMA del_flg_step ==
    ASSUME IInv, NEW w \in FLG, del_flg(w)
    PROVE  StepOK
<1> DEFINE k == "FLG"
<1>1. k \in OBJKIND /\ w \in WOBJ /\ CanDelete("del_flg", k, w)
      /\ Become(dispatch(delete_wobj(k, w)))
  BY TaskOpsAssumption DEF del_flg, OBJKIND
<1> HIDE DEF k
<1> QED BY <1>1, delete_step

LEMMA clr_flg_step ==
    ASSUME IInv, NEW w \in FLG, NEW clrptn, clr_flg(w, clrptn)
    PROVE  StepOK
<1> DEFINE v == Cur.flg[w].flgptn \cap clrptn
           s == Cur
           n == [s EXCEPT !.flg[w].flgptn = v]
<1>1. Become(n) /\ UnchangedContext
  BY DEF clr_flg
<1>2. DataEdit(s, s)
  BY CurData
<1> HIDE DEF v, s
<1>3. DataEdit(s, n)
  BY <1>2, SetFlg
<1> HIDE DEF n
<1> QED BY <1>1, <1>3, DataEditStep DEF s

LEMMA Met_step ==
    ASSUME IInv, NEW w \in FLG, NEW waiptn, NEW wfmode, Met(w, waiptn, wfmode),
           UnchangedContext
    PROVE  StepOK
<1> DEFINE v == [from |-> w, what |-> [waiptn |-> flg[w].flgptn, wfmode |-> wfmode]]
           s == clear_if_clr(Cur, w)
           n == [s EXCEPT !.out = v]
<1>1. Become(n)
  BY DEF Met
<1>2. DataEdit(Cur, s)
  BY CurData, clear_if_clr_data
<1> HIDE DEF v, s
<1>3. DataEdit(Cur, n)
  BY <1>2, SetOut
<1> HIDE DEF n
<1> QED BY <1>1, <1>3, DataEditStep

(* A task that waits with data in its WINFO.                               *)
LEMMA holding_step ==
    ASSUME IInv, NEW call, NEW w \in FLG \cup DTQ \cup PDQ, MayWait(call, w), NEW v, NEW s,
           s = [Cur EXCEPT !.tcb[p_runtsk].wobjdata = v],
           NEW x \in TS_WOBJCB_MASK, x # "MTX", NEW tmout,
           Become(dispatch(wobj_make_wait_tmout(s, {x}, w, tmout)))
    PROVE  StepOK
<1>1. Holding(s) /\ w \in WOBJ /\ LockedMutex(Cur, p_runtsk, w) /\ w \notin MTX
  BY TaskOpsAssumption, OtherKinds DEF Holding
<1> QED BY <1>1, block_step

LEMMA wait_flg_step ==
    ASSUME IInv, NEW w \in FLG, NEW call, MayWait(call, w), NEW tmout, NEW v, NEW s,
           s = [Cur EXCEPT !.tcb[p_runtsk].wobjdata = v],
           Become(dispatch(wobj_make_wait_tmout(s, TS_WAITING_FLG, w, tmout)))
    PROVE  StepOK
<1> DEFINE x == "FLG"
<1>1. x \in TS_WOBJCB_MASK /\ x # "MTX"
      /\ Become(dispatch(wobj_make_wait_tmout(s, {x}, w, tmout)))
  BY DEF TS_WAITING_FLG, TS_WOBJCB_MASK
<1> HIDE DEF x
<1> QED BY <1>1, holding_step

LEMMA wai_flg_step ==
    ASSUME IInv, NEW w \in FLG, NEW waiptn, NEW wfmode, wai_flg(w, waiptn, wfmode)
    PROVE  StepOK
<1> DEFINE v == [waiptn |-> waiptn, wfmode |-> wfmode]
           s == [Cur EXCEPT !.tcb[p_runtsk].wobjdata = v]
<1>1. MayWait("wai_flg", w) /\ UnchangedContext
  BY DEF wai_flg
<1>2. CASE Met(w, waiptn, wfmode)
  BY <1>1, <1>2, Met_step
<1>3. CASE ~Met(w, waiptn, wfmode)
  <2>1. Become(dispatch(wobj_make_wait_tmout(s, TS_WAITING_FLG, w, "TMO_FEVR")))
    BY <1>3, wobj_make_wait_fevr DEF wai_flg
  <2> HIDE DEF s
  <2> QED BY <1>1, <2>1, wait_flg_step DEF s
<1> QED BY <1>2, <1>3

LEMMA pol_flg_step ==
    ASSUME IInv, NEW w \in FLG, NEW waiptn, NEW wfmode, pol_flg(w, waiptn, wfmode)
    PROVE  StepOK
BY Met_step DEF pol_flg

LEMMA twai_flg_step ==
    ASSUME IInv, NEW w \in FLG, NEW waiptn, NEW wfmode, twai_flg(w, waiptn, wfmode)
    PROVE  StepOK
<1> DEFINE v == [waiptn |-> waiptn, wfmode |-> wfmode]
           s == [Cur EXCEPT !.tcb[p_runtsk].wobjdata = v]
<1>1. MayWait("twai_flg", w) /\ UnchangedContext
  BY DEF twai_flg
<1>2. CASE Met(w, waiptn, wfmode)
  BY <1>1, <1>2, Met_step
<1>3. CASE ~Met(w, waiptn, wfmode)
  <2>1. Become(dispatch(wobj_make_wait_tmout(s, TS_WAITING_FLG, w, "finite")))
    BY <1>3 DEF twai_flg
  <2> HIDE DEF s
  <2> QED BY <1>1, <2>1, wait_flg_step DEF s
<1> QED BY <1>2, <1>3

(* What ini_ calls do, up to the fields the invariant is not about.        *)
LEMMA drained_step ==
    ASSUME IInv, NEW w \in WOBJ, NEW s,
           s = init_wait_queue(Cur, w, "wait_queue") \/ s = init_wait_queues(Cur, w),
           NEW n, DataEdit(s, s) => DataEdit(s, n), Become(dispatch(n))
    PROVE  StepOK
<1> DEFINE f == "wait_queue"
           E == Ends(Cur)
<1>1. Inv(Cur, {}, E) /\ f \in QUEUE
  BY StepBegins DEF QUEUE
<1>2. s = init_wait_queue(Cur, w, f) \/ s = init_wait_queues(Cur, w)
  OBVIOUS
<1> HIDE DEF f, E
<1>3. Inv(s, {}, E) /\ Keeps(Cur, s)
  <2>1. CASE s = init_wait_queue(Cur, w, f)
    BY <1>1, <2>1, init_wait_queue_inv DEF Drains
  <2>2. CASE s = init_wait_queues(Cur, w)
    BY <1>1, <2>2, init_wait_queues_inv
  <2> QED BY <1>2, <2>1, <2>2
<1>4. HasFields(s, KernelField)
  BY <1>3 DEF Inv, WellFormed
<1>5. DataEdit(s, n)
  BY <1>4 DEF DataEdit, Agree
<1> QED BY <1>3, <1>5, data_dispatched DEF DataEdit, E

LEMMA ini_flg_step ==
    ASSUME IInv, NEW w \in FLG, ini_flg(w)
    PROVE  StepOK
<1> DEFINE s == init_wait_queue(Cur, w, "wait_queue")
           v == flg[w].iflgptn
           n == [s EXCEPT !.flg[w].flgptn = v]
<1>1. w \in WOBJ /\ Become(dispatch(n))
  BY TaskOpsAssumption DEF ini_flg
<1> HIDE DEF s, v
<1>2. DataEdit(s, s) => DataEdit(s, n)
  BY SetFlg
<1> HIDE DEF n
<1> QED BY <1>1, <1>2, drained_step DEF s

(* A waiting task is released with the pattern that ended its wait; the    *)
(* others go on waiting.                                                   *)
LEMMA flg_release_inv ==
    ASSUME NEW s, NEW E, Inv(s, {}, E), NEW w \in WOBJ,
           NEW f, f = "wait_queue", NEW t \in WaitsIn(s, Blocked(s, {}), w, f)
    PROVE  LET r == flg_release(s, w, t)
           IN  /\ Inv(r, {}, E) /\ Keeps(s, r)
               /\ WaitsIn(r, Blocked(r, {}), w, f) = WaitsIn(s, Blocked(s, {}), w, f) \ {t}
<1> DEFINE v == s.flg[w].flgptn
           x == [s.tcb[t].wobjdata EXCEPT !.waiptn = v]
           q == queue_delete(s.wobj[w][f], t)
           a == [s EXCEPT !.wobj[w][f] = q, !.tcb[t].wobjdata = x]
           d == clear_if_clr(a, w)
           r == wait_complete(d, t)
           W(n) == WaitsIn(n, Blocked(n, {}), w, f)
<1>1. f \in QUEUE /\ t \in TSK /\ WellFormed(s)
  BY DEF QUEUE, WaitsIn, Blocked, Inv
<1>2. flg_release(s, w, t) = r
  <2> DEFINE m == [s EXCEPT !.tcb[t].wobjdata.waiptn = v, !.wobj[w].wait_queue = queue_delete(@, t)]
             T == [s.tcb EXCEPT ![t].wobjdata = x]
             O == [s.wobj EXCEPT ![w][f] = q]
  <2>1. T = [s.tcb EXCEPT ![t].wobjdata.waiptn = v]
    OBVIOUS
  <2>2. O = [s.wobj EXCEPT ![w].wait_queue = queue_delete(@, t)]
    OBVIOUS
  <2>3. m = [s EXCEPT !.tcb = T, !.wobj = O]
    BY <2>1, <2>2
  <2>4. a = [s EXCEPT !.wobj = O, !.tcb = T]
    OBVIOUS
  <2>5. [s EXCEPT !.wobj = O, !.tcb = T] = [s EXCEPT !.tcb = T, !.wobj = O]
    <3> HIDE DEF T, O
    <3>1. HasFields(s, KernelField)
      BY <1>1 DEF WellFormed
    <3> QED BY <3>1 DEF HasFields, KernelField
  <2>6. m = a
    BY <2>3, <2>4, <2>5
  <2> QED BY <2>6 DEF flg_release
<1>3. Given(s, a, w, f, q, t, x)
  BY DEF Given
<1>4. q = queue_delete(s.wobj[w][f], t)
  OBVIOUS
<1> HIDE DEF x, a, q
<1>5. Handed(s, a, w, f, t)
  BY <1>1, <1>3, <1>4, GivenHanded
<1>6. DataEdit(a, d)
  <2>1. DataEdit(a, a)
    BY <1>5 DEF Handed, WellFormed, DataEdit, Agree
  <2> QED BY <2>1, clear_if_clr_data
<1> HIDE DEF d
<1>7. Handed(s, d, w, f, t)
  BY <1>5, <1>6, HandedMore DEF DataEdit
<1>8. d.wobj[w][f] = q
  <2>1. a.wobj[w][f] = q /\ d.wobj = a.wobj
    <3>1. a.wobj[w][f] = q
      <4>1. a.wobj = [s.wobj EXCEPT ![w][f] = q]
        BY <1>1 DEF a, WellFormed, HasFields, KernelField
      <4>2. f \in DOMAIN s.wobj[w] /\ w \in DOMAIN s.wobj
        BY <1>1 DEF WellFormed, HasFields, QUEUE, WobjField
      <4> QED BY <4>1, <4>2
    <3>2. d.wobj = a.wobj
      BY <1>6 DEF DataEdit, Agree, KernelField, DataField
    <3> QED BY <3>1, <3>2
  <2> QED BY <2>1
<1>9. Inv(r, {}, E) /\ Keeps(s, r) /\ r.wobj = d.wobj
  BY <1>1, <1>7, HandOver
<1> HIDE DEF r
<1>10. Lists(q, W(r), TSK)
  BY <1>1, <1>8, <1>9 DEF Inv, WaitOK
<1>11. Lists(q, W(s) \ {t}, TSK)
  <2>1. Lists(s.wobj[w][f], W(s), TSK)
    BY <1>1 DEF Inv, WaitOK
  <2> HIDE DEF W
  <2>2. t \in W(s)
    BY DEF W
  <2> QED BY <1>4, <2>1, <2>2, DeleteLists
<1>12. W(r) = W(s) \ {t}
  <2> HIDE DEF W
  <2> QED BY <1>10, <1>11 DEF Lists
<1> QED BY <1>2, <1>9, <1>12

(* One task of the queue is looked at.                                     *)
LEMMA set_flg_turn ==
    ASSUME NEW s, NEW E, Inv(s, {}, E), NEW w \in WOBJ, NEW f, f = "wait_queue",
           NEW t \in WaitsIn(s, Blocked(s, {}), w, f),
           NEW r, r = s \/ r = flg_release(s, w, t)
    PROVE  /\ Inv(r, {}, E) /\ Keeps(s, r)
           /\ WaitsIn(s, Blocked(s, {}), w, f) \ {t} \subseteq WaitsIn(r, Blocked(r, {}), w, f)
<1>1. CASE r = s
  BY <1>1, KeepsSelf
<1>2. CASE r = flg_release(s, w, t)
  BY <1>2, flg_release_inv
<1> QED BY <1>1, <1>2

(* One turn of the loop, in state a with task n of the queue.              *)
set_flg_next(s, w, a, n) ==
    LET q == s.wobj[w].wait_queue
    IN  IF ~("TA_CLR" \in s.wobj[w].wobjatr /\ Len(a.wobj[w].wait_queue) < Len(q))
           /\ flg_met(a, w, q[n])
        THEN flg_release(a, w, q[n]) ELSE a

(* The loop is a function of the number of turns.                          *)
Turned(s, w, k) ==
    \E g : g = [n \in 0 .. k |-> IF n = 0 THEN s ELSE set_flg_next(s, w, g[n - 1], n)]

LEMMA set_flg_loop_defined ==
    ASSUME NEW s, NEW w, NEW k \in Nat
    PROVE  Turned(s, w, k)
<1> DEFINE S == {m \in Nat : ~Turned(s, w, m)}
           j == Min(S)
<1> SUFFICES ASSUME S # {} PROVE FALSE
  OBVIOUS
<1>1. j \in S /\ \A y \in S : j <= y
  BY LeastOf
<1> HIDE DEF j
<1>2. CASE j = 0
  <2>1. [n \in 0 .. 0 |-> s] = [n \in 0 .. 0 |-> IF n = 0 THEN s
               ELSE set_flg_next(s, w, [i \in 0 .. 0 |-> s][n - 1], n)]
    OBVIOUS
  <2>2. Turned(s, w, 0)
    BY <2>1 DEF Turned
  <2> QED BY <1>1, <1>2, <2>2
<1>3. CASE j # 0
  <2>0. j \in Nat \ {0} /\ j - 1 \in Nat /\ ~(j <= j - 1)
    BY <1>1, <1>3
  <2>1. Turned(s, w, j - 1)
    BY <1>1, <2>0
  <2>2. PICK g : g = [n \in 0 .. j - 1 |-> IF n = 0 THEN s ELSE set_flg_next(s, w, g[n - 1], n)]
    BY <2>1 DEF Turned
  <2> DEFINE h == [n \in 0 .. j |-> IF n = j THEN set_flg_next(s, w, g[j - 1], j) ELSE g[n]]
  <2>3. ASSUME NEW n \in 0 .. j
        PROVE  h[n] = IF n = 0 THEN s ELSE set_flg_next(s, w, h[n - 1], n)
    <3>1. CASE n = 0
      BY <2>0, <2>2, <3>1
    <3>2. CASE n = j
      <4>1. h[j - 1] = g[j - 1]
        BY <2>0
      <4> QED BY <2>0, <3>2, <4>1
    <3>3. CASE n # 0 /\ n # j
      <4>1. n \in 0 .. j - 1 /\ n - 1 \in 0 .. j /\ n - 1 # j
        BY <2>0, <3>3
      <4>2. h[n - 1] = g[n - 1] /\ h[n] = g[n]
        BY <3>3, <4>1
      <4>3. g[n] = set_flg_next(s, w, g[n - 1], n)
        BY <2>2, <3>3, <4>1
      <4> QED BY <3>3, <4>2, <4>3
    <3> QED BY <3>1, <3>2, <3>3
  <2>4. h = [n \in 0 .. j |-> IF n = 0 THEN s ELSE set_flg_next(s, w, h[n - 1], n)]
    BY <2>3
  <2> HIDE DEF h
  <2>5. Turned(s, w, j)
    BY <2>4 DEF Turned
  <2> QED BY <1>1, <2>5
<1> QED BY <1>2, <1>3

LEMMA set_flg_loop_inv ==
    ASSUME NEW s, NEW E, Inv(s, {}, E), NEW w \in WOBJ
    PROVE  LET r == set_flg_loop(s, w)
           IN  Inv(r, {}, E) /\ Keeps(s, r)
<1> DEFINE f == "wait_queue"
           q == s.wobj[w].wait_queue
           turns == Len(q)
           after[n \in 0 .. turns] ==
               IF n = 0 THEN s ELSE set_flg_next(s, w, after[n - 1], n)
           W(r) == WaitsIn(r, Blocked(r, {}), w, f)
<1>1. turns \in Nat /\ Lists(q, W(s), TSK)
  <2>1. Lists(s.wobj[w][f], W(s), TSK)
    BY DEF Inv, WaitOK, QUEUE
  <2> QED BY <2>1 DEF Lists
<1>2. after = [n \in 0 .. turns |-> IF n = 0 THEN s ELSE set_flg_next(s, w, after[n - 1], n)]
  <2>1. Turned(s, w, turns)
    BY <1>1, set_flg_loop_defined
  <2> QED BY <2>1 DEF after, Turned
<1>3. set_flg_loop(s, w) = after[turns]
  BY DEF set_flg_loop, set_flg_next
<1> HIDE DEF after
<1> DEFINE Remaining(n) == \A i \in 1 .. turns : i > n => q[i] \in W(after[n])
           Holds(n) == Inv(after[n], {}, E) /\ Keeps(s, after[n]) /\ Remaining(n)
           S == {n \in 0 .. turns : ~Holds(n)}
           k == Min(S)
<1>4. Holds(0)
  <2>1. after[0] = s
    BY <1>1, <1>2
  <2>2. \A i \in 1 .. turns : q[i] \in W(s)
    BY <1>1 DEF Lists
  <2> QED BY <2>1, <2>2, KeepsSelf
<1>5. ASSUME NEW n \in 1 .. turns, Holds(n - 1)
      PROVE  Holds(n)
  <2> DEFINE a == after[n - 1]
             t == q[n]
             r == after[n]
  <2>1. n \in 0 .. turns /\ n # 0 /\ n - 1 \in Nat
    BY <1>1
  <2>2. r = a \/ r = flg_release(a, w, t)
    <3>1. r = set_flg_next(s, w, a, n)
      BY <1>2, <2>1
    <3> HIDE DEF r, a
    <3> QED BY <3>1 DEF set_flg_next
  <2>3. Inv(a, {}, E) /\ Keeps(s, a) /\ Remaining(n - 1)
    BY <1>5
  <2>4. t \in W(a)
    BY <2>1, <2>3
  <2>5. \A i \in 1 .. turns : i > n => q[i] \in W(a) \ {t}
    <3> SUFFICES ASSUME NEW i \in 1 .. turns, i > n PROVE q[i] \in W(a) \ {t}
      OBVIOUS
    <3>1. q[i] # t
      BY <1>1 DEF Lists
    <3>2. i > n - 1
      BY <2>1
    <3> HIDE DEF W, a
    <3> QED BY <2>3, <3>1, <3>2 DEF a
  <2> HIDE DEF r, a, t, f
  <2>6. Inv(r, {}, E) /\ Keeps(a, r) /\ W(a) \ {t} \subseteq W(r)
    BY <2>2, <2>3, <2>4, set_flg_turn DEF f
  <2>7. \A i \in 1 .. turns : i > n => q[i] \in W(r)
    <3> HIDE DEF W
    <3> QED BY <2>5, <2>6
  <2>8. Keeps(s, r)
    BY <2>3, <2>6, KeepsTrans
  <2> QED BY <2>6, <2>7, <2>8 DEF r
<1> HIDE DEF Holds
<1>6. \A n \in 0 .. turns : Holds(n)
  <2> SUFFICES ASSUME S # {} PROVE FALSE
    OBVIOUS
  <2>0. S \in SUBSET Nat
    <3> HIDE DEF turns
    <3> QED BY <1>1
  <2>1. k \in S /\ \A y \in S : k <= y
    BY <2>0, LeastOf
  <2> HIDE DEF k
  <2>2. k # 0
    BY <1>4, <2>1
  <2>3. k \in 1 .. turns /\ k - 1 \in 0 .. turns /\ ~(k <= k - 1)
    BY <1>1, <2>1, <2>2
  <2>4. Holds(k - 1)
    BY <2>1, <2>3
  <2> QED BY <1>5, <2>1, <2>3, <2>4
<1>7. Holds(turns)
  BY <1>1, <1>6
<1> QED BY <1>3, <1>7 DEF Holds

LEMMA set_flg_step ==
    ASSUME IInv, NEW w \in FLG, NEW setptn, set_flg(w, setptn)
    PROVE  StepOK
<1> DEFINE v == Cur.flg[w].flgptn \cup setptn
           s == Cur
           a == [s EXCEPT !.flg[w].flgptn = v]
           r == set_flg_loop(a, w)
<1>1. w \in WOBJ /\ UnchangedContext /\ Become(dispatch_or_request(r))
  BY TaskOpsAssumption DEF set_flg
<1>2. DataEdit(s, s) /\ Inv(s, {}, Ends(s))
  BY CurData, StepBegins
<1> HIDE DEF v, s
<1>3. DataEdit(s, a)
  BY <1>2, SetFlg
<1> HIDE DEF a
<1>4. Inv(a, {}, Ends(s)) /\ Keeps(s, a)
  BY <1>2, <1>3, DataInv DEF DataEdit
<1>5. Inv(r, {}, Ends(s)) /\ Keeps(a, r)
  BY <1>1, <1>4, set_flg_loop_inv
<1> HIDE DEF r
<1> QED BY <1>1, <1>4, <1>5, KeepsTrans, Dispatched DEF s

LEMMA DataEditSelf ==
    ASSUME NEW s, NEW r, DataEdit(s, r)
    PROVE  DataEdit(r, r)
BY DEF DataEdit, Agree

(* The first task of a queue is given v, while data change.                *)
LEMMA served_inv ==
    ASSUME NEW s, NEW E, Inv(s, {}, E), NEW w \in WOBJ, NEW f \in QUEUE,
           s.wobj[w][f] # <<>>, NEW t, t = Head(s.wobj[w][f]), NEW v, NEW a,
           Given(s, a, w, f, Tail(s.wobj[w][f]), t, v),
           NEW d, DataEdit(a, a) => DataEdit(a, d), NEW r, r = wait_complete(d, t)
    PROVE  Inv(r, {}, E) /\ Keeps(s, r)
<1> DEFINE X == {}
<1>1. Inv(s, X, E)
  OBVIOUS
<1>2. t \in TSK
  <2> HIDE DEF X
  <2>1. t \in WaitsIn(s, Blocked(s, X), w, f)
    BY <1>1, HeadWaits
  <2> QED BY <2>1 DEF WaitsIn, Blocked
<1>3. Handed(s, a, w, f, t)
  BY <1>2, GivenHanded
<1>4. DataEdit(a, a)
  BY <1>3 DEF Handed, WellFormed, DataEdit, Agree
<1>5. Handed(s, d, w, f, t)
  BY <1>3, <1>4, HandedMore DEF DataEdit
<1> QED BY <1>5, HandOverHead

LEMMA edited_inv ==
    ASSUME NEW s, NEW E, Inv(s, {}, E), NEW r, DataEdit(s, s) => DataEdit(s, r)
    PROVE  Inv(r, {}, E) /\ Keeps(s, r)
<1>1. DataEdit(s, s)
  BY DEF Inv, WellFormed, DataEdit, Agree
<1> QED BY <1>1, DataInv DEF DataEdit

-----------------------------------------------------------------------------
(* Data queues.                                                            *)

LEMMA SetDtq ==
    ASSUME NEW s, DataEdit(s, s), NEW w, NEW v
    PROVE  DataEdit(s, [s EXCEPT !.dtq[w] = v])
BY DEF DataEdit, HasFields, KernelField, Agree, DataField

LEMMA enqueue_data_edit ==
    ASSUME NEW s, DataEdit(s, s), NEW w, NEW data
    PROVE  DataEdit(s, enqueue_data(s, w, data)) /\ DataEdit(s, force_enqueue_data(s, w, data))
BY SetDtq DEF enqueue_data, force_enqueue_data

LEMMA dequeue_data_edit ==
    ASSUME NEW s, DataEdit(s, s), NEW w
    PROVE  DataEdit(s, dequeue_data(s, w))
<1> DEFINE q == s.dtq[w]
           o == [from |-> w, what |-> [data |-> q.p_dtqmb[q.head + 1]]]
           v == [q EXCEPT !.count = @ - 1, !.head  = ring_next(q.head, q.dtqcnt)]
           r == [s EXCEPT !.out = o, !.dtq[w] = v]
<1>1. dequeue_data(s, w) = r
  BY DEF dequeue_data
<1> HIDE DEF q, o, v
<1>2. DataEdit(s, r)
  BY DEF DataEdit, HasFields, KernelField, Agree, DataField
<1> QED BY <1>1, <1>2

LEMMA hand_over_inv ==
    ASSUME NEW s, NEW E, Inv(s, {}, E), NEW w \in WOBJ, NEW data, receivers(s, w) # <<>>
    PROVE  LET r == hand_over(s, w, data)
           IN  Inv(r, {}, E) /\ Keeps(s, r)
<1> DEFINE f == "rwait_queue"
           t == Head(s.wobj[w][f])
           q == Tail(s.wobj[w][f])
           v == [data |-> data]
           a == [s EXCEPT !.wobj[w][f] = q, !.tcb[t].wobjdata = v]
           r == wait_complete(a, t)
<1>1. hand_over(s, w, data) = r
  BY DEF hand_over, receivers
<1>2. f \in QUEUE /\ s.wobj[w][f] # <<>> /\ t = Head(s.wobj[w][f])
  BY DEF receivers, QUEUE
<1>3. Given(s, a, w, f, Tail(s.wobj[w][f]), t, v)
  BY DEF Given
<1>4. r = wait_complete(a, t)
  OBVIOUS
<1> HIDE DEF f, t, v, a, r
<1>5. Inv(r, {}, E) /\ Keeps(s, r)
  BY <1>2, <1>3, <1>4, served_inv
<1> QED BY <1>1, <1>5

LEMMA send_data_inv ==
    ASSUME NEW s, NEW E, Inv(s, {}, E), NEW w \in WOBJ, NEW data, NEW r,
           r = send_data(s, w, data) \/ r = force_send_data(s, w, data)
    PROVE  Inv(r, {}, E) /\ Keeps(s, r)
<1>1. CASE receivers(s, w) # <<>>
  <2>1. r = hand_over(s, w, data)
    BY <1>1 DEF send_data, force_send_data
  <2> QED BY <1>1, <2>1, hand_over_inv
<1>2. CASE receivers(s, w) = <<>>
  <2>1. r = enqueue_data(s, w, data) \/ r = force_enqueue_data(s, w, data)
    BY <1>2 DEF send_data, force_send_data
  <2>2. DataEdit(s, s) => DataEdit(s, r)
    BY <2>1, enqueue_data_edit
  <2> QED BY <2>2, edited_inv
<1> QED BY <1>1, <1>2

LEMMA receive_data_inv ==
    ASSUME NEW s, NEW E, Inv(s, {}, E), NEW w \in WOBJ, can_receive_data(s, w)
    PROVE  LET r == receive_data(s, w)
           IN  Inv(r, {}, E) /\ Keeps(s, r)
<1> DEFINE f == "wait_queue"
           t == Head(s.wobj[w][f])
           q == Tail(s.wobj[w][f])
           a == [s EXCEPT !.wobj[w][f] = q, !.tcb[t].wobjdata = NULL]
           b == dequeue_data(a, w)
           x == s.tcb[t].wobjdata
           c == enqueue_data(b, w, x.data)
           o == [from |-> w, what |-> x]
           e == [a EXCEPT !.out = o]
           r == receive_data(s, w)
<1>1. CASE senders(s, w) = <<>>
  <2>1. r = dequeue_data(s, w)
    BY <1>1 DEF receive_data, can_receive_data
  <2>2. DataEdit(s, s) => DataEdit(s, r)
    BY <2>1, dequeue_data_edit
  <2> HIDE DEF r
  <2> QED BY <2>2, edited_inv DEF r
<1>2. CASE senders(s, w) # <<>>
  <2>1. f \in QUEUE /\ s.wobj[w][f] # <<>> /\ t = Head(s.wobj[w][f])
    BY <1>2 DEF senders, QUEUE
  <2>2. Given(s, a, w, f, Tail(s.wobj[w][f]), t, NULL)
    BY DEF Given
  <2>3. r = wait_complete(c, t) \/ r = wait_complete(e, t)
    BY <1>2 DEF receive_data, senders
  <2> HIDE DEF f, t, a, r, x, o
  <2>4. DataEdit(a, a) => DataEdit(a, c)
    BY dequeue_data_edit, enqueue_data_edit, DataEditSelf, DataEditTrans
  <2>5. DataEdit(a, a) => DataEdit(a, e)
    BY SetOut
  <2> HIDE DEF c, e
  <2>6. Inv(r, {}, E) /\ Keeps(s, r)
    BY <2>1, <2>2, <2>3, <2>4, <2>5, served_inv
  <2> QED BY <2>6 DEF r
<1> QED BY <1>1, <1>2

LEMMA acre_dtq_step ==
    ASSUME IInv, NEW atr, "TA_NOEXS" \notin atr, NEW cnt, acre_dtq(atr, cnt)
    PROVE  StepOK
<1> DEFINE k == "DTQ"
           w == Head(free_cb["DTQ"])
           v == new_dtqcb(cnt)
           s == create_wobj(k, atr)
           n == [s EXCEPT !.dtq[w] = v]
<1>1. k \in OBJKIND /\ CanCreate("acre_dtq", k) /\ Become(n)
  BY DEF acre_dtq, OBJKIND
<1>2. DataEdit(s, s)
  BY CreatedData
<1> HIDE DEF v, w, s
<1>3. DataEdit(s, n)
  BY <1>2, SetDtq
<1> HIDE DEF n, k
<1> QED BY <1>1, <1>3, acre_step DEF s

LEMMA del_dtq_step ==
    ASSUME IInv, NEW w \in DTQ, del_dtq(w)
    PROVE  StepOK
<1> DEFINE k == "DTQ"
<1>1. k \in OBJKIND /\ w \in WOBJ /\ CanDelete("del_dtq", k, w)
      /\ Become(dispatch(delete_wobj(k, w)))
  BY TaskOpsAssumption DEF del_dtq, OBJKIND
<1> HIDE DEF k
<1> QED BY <1>1, delete_step

LEMMA exchanged_step ==
    ASSUME IInv, NEW w \in DTQ, NEW r, NEW data,
           \/ r = send_data(Cur, w, data)
           \/ r = force_send_data(Cur, w, data)
           \/ r = receive_data(Cur, w) /\ can_receive_data(Cur, w),
           \/ Become(dispatch(r))
           \/ Become(dispatch_or_request(r)) /\ UnchangedContext
    PROVE  StepOK
<1>1. w \in WOBJ /\ Inv(Cur, {}, Ends(Cur))
  BY StepBegins, TaskOpsAssumption
<1>2. Inv(r, {}, Ends(Cur)) /\ Keeps(Cur, r)
  BY <1>1, send_data_inv, receive_data_inv
<1> QED BY <1>2, Dispatched

LEMMA send_dtq_step ==
    ASSUME IInv, NEW w \in DTQ, NEW data, NEW call, MayWait(call, w), NEW tmout,
           Become(dispatch(
                IF can_send_data(Cur, w) THEN send_data(Cur, w, data)
                ELSE wobj_make_wait_tmout(holding(data), TS_WAITING_SDTQ, w, tmout)))
    PROVE  StepOK
<1> DEFINE x == "SDTQ"
           v == [data |-> data]
           s == holding(data)
           r == send_data(Cur, w, data)
<1>1. CASE can_send_data(Cur, w)
  <2>1. Become(dispatch(r)) /\ r = send_data(Cur, w, data)
    BY <1>1
  <2> HIDE DEF r
  <2> QED BY <2>1, exchanged_step
<1>2. CASE ~can_send_data(Cur, w)
  <2>2. x \in TS_WOBJCB_MASK /\ x # "MTX"
        /\ Become(dispatch(wobj_make_wait_tmout(s, {x}, w, tmout)))
    BY <1>2 DEF TS_WAITING_SDTQ, TS_WOBJCB_MASK
  <2>3. s = [Cur EXCEPT !.tcb[p_runtsk].wobjdata = v]
    BY DEF holding
  <2> HIDE DEF x, s, v
  <2> QED BY <2>2, <2>3, holding_step
<1> QED BY <1>1, <1>2

LEMMA snd_dtq_step ==
    ASSUME IInv, NEW w \in DTQ, NEW data, snd_dtq(w, data)
    PROVE  StepOK
<1>1. MayWait("snd_dtq", w)
      /\ Become(dispatch(
            IF can_send_data(Cur, w) THEN send_data(Cur, w, data)
            ELSE wobj_make_wait_tmout(holding(data), TS_WAITING_SDTQ, w, "TMO_FEVR")))
  BY wobj_make_wait_fevr DEF snd_dtq
<1> QED BY <1>1, send_dtq_step

LEMMA tsnd_dtq_step ==
    ASSUME IInv, NEW w \in DTQ, NEW data, tsnd_dtq(w, data)
    PROVE  StepOK
BY send_dtq_step DEF tsnd_dtq

LEMMA psnd_dtq_step ==
    ASSUME IInv, NEW w \in DTQ, NEW data, psnd_dtq(w, data)
    PROVE  StepOK
<1> DEFINE r == send_data(Cur, w, data)
<1>1. Become(dispatch_or_request(r)) /\ UnchangedContext /\ r = send_data(Cur, w, data)
  BY DEF psnd_dtq
<1> HIDE DEF r
<1> QED BY <1>1, exchanged_step

LEMMA fsnd_dtq_handler_step ==
    ASSUME IInv, NEW w \in DTQ, NEW data, fsnd_dtq_handler(w, data)
    PROVE  StepOK
<1> DEFINE r == force_send_data(Cur, w, data)
<1>1. Become(dispatch_or_request(r)) /\ UnchangedContext /\ r = force_send_data(Cur, w, data)
  BY DEF fsnd_dtq_handler, dispatch_or_request
<1> HIDE DEF r
<1> QED BY <1>1, exchanged_step

LEMMA fsnd_dtq_step ==
    ASSUME IInv, NEW w \in DTQ, NEW data, fsnd_dtq(w, data)
    PROVE  StepOK
<1> DEFINE f == "prelock"
           v == [dtqid |-> w, data |-> data]
           t == p_runtsk
<1>1. f \in {"wupque", "wobjdata", "prelock"} /\ TskCtxUnl("fsnd_dtq") /\ UnchangedContext
      /\ Become([Cur EXCEPT !.tcb[t][f] = v])
  BY DEF fsnd_dtq
<1>2. t \in TSK
  BY <1>1, TaskContext
<1> HIDE DEF f, v, t
<1> QED BY <1>1, <1>2, PlainStep DEF UnchangedContext

LEMMA fsnd_dtq_locked_step ==
    ASSUME IInv, NEW w \in DTQ, NEW data, fsnd_dtq_locked(w, data)
    PROVE  StepOK
<1> DEFINE f == "prelock"
           t == p_runtsk
           E == Ends(Cur)
           s == [Cur EXCEPT !.tcb[t][f] = NULL]
           r == IF ObjectExists(w) THEN force_send_data(s, w, data) ELSE s
<1>1. /\ f \in {"wupque", "wobjdata", "prelock"} /\ UnchangedContext /\ ~excpt /\ t # NULL
      /\ Become(IF ObjectExists(w) THEN dispatch(force_send_data(s, w, data)) ELSE s)
  BY DEF fsnd_dtq_locked, BeforeLock
<1>2. t \in TSK /\ w \in WOBJ /\ Inv(Cur, {}, E)
      /\ Cur.p_runtsk = Cur.p_schedtsk
  BY <1>1, Running, TaskOpsAssumption, StepBegins
<1> HIDE DEF f, t, E
<1>3. Inv(s, {}, E) /\ Keeps(Cur, s) /\ s.p_schedtsk = Cur.p_schedtsk
  BY <1>1, <1>2, plain_inv
<1> HIDE DEF s
<1>4. Inv(r, {}, E) /\ Keeps(Cur, r)
  BY <1>2, <1>3, send_data_inv, KeepsTrans
<1>5. dispatch(s) = s
  BY <1>2, <1>3, KeepsFields DEF dispatch
<1>6. Become(dispatch(r))
  BY <1>1, <1>5
<1> HIDE DEF r
<1> QED BY <1>4, <1>6, Dispatched DEF E

LEMMA receive_dtq_step ==
    ASSUME IInv, NEW w \in DTQ, NEW call, MayWait(call, w), NEW tmout,
           Become(dispatch(
                IF can_receive_data(Cur, w) THEN receive_data(Cur, w)
                ELSE make_wait_receive(Cur, TS_WAITING_RDTQ, w, tmout)))
    PROVE  StepOK
<1> DEFINE x == "RDTQ"
           r == receive_data(Cur, w)
<1>1. CASE can_receive_data(Cur, w)
  <2>1. Become(dispatch(r)) /\ r = receive_data(Cur, w)
    BY <1>1
  <2> HIDE DEF r
  <2> QED BY <1>1, <2>1, exchanged_step
<1>2. CASE ~can_receive_data(Cur, w)
  <2>1. w \in WOBJ /\ w \notin MTX
    BY TaskOpsAssumption
  <2>2. x \in RECEIVING /\ Become(dispatch(make_wait_receive(Cur, {x}, w, tmout)))
    BY <1>2 DEF TS_WAITING_RDTQ, RECEIVING
  <2> HIDE DEF x
  <2> QED BY <2>1, <2>2, receive_step
<1> QED BY <1>1, <1>2

LEMMA rcv_dtq_step ==
    ASSUME IInv, NEW w \in DTQ, rcv_dtq(w)
    PROVE  StepOK
BY receive_dtq_step DEF rcv_dtq

LEMMA trcv_dtq_step ==
    ASSUME IInv, NEW w \in DTQ, trcv_dtq(w)
    PROVE  StepOK
BY receive_dtq_step DEF trcv_dtq

LEMMA prcv_dtq_step ==
    ASSUME IInv, NEW w \in DTQ, prcv_dtq(w)
    PROVE  StepOK
<1> DEFINE r == receive_data(Cur, w)
<1>1. Become(dispatch(r)) /\ r = receive_data(Cur, w) /\ can_receive_data(Cur, w)
  BY DEF prcv_dtq
<1> HIDE DEF r
<1> QED BY <1>1, exchanged_step

LEMMA ini_dtq_step ==
    ASSUME IInv, NEW w \in DTQ, ini_dtq(w)
    PROVE  StepOK
<1> DEFINE s == init_wait_queues(Cur, w)
           n == [s EXCEPT !.dtq[w].count = 0, !.dtq[w].head = 0, !.dtq[w].tail = 0]
<1>1. w \in WOBJ /\ Become(dispatch(n))
  BY TaskOpsAssumption DEF ini_dtq
<1> HIDE DEF s
<1>2. DataEdit(s, s) => DataEdit(s, n)
  BY DEF DataEdit, HasFields, KernelField, Agree, DataField
<1> HIDE DEF n
<1> QED BY <1>1, <1>2, drained_step DEF s

-----------------------------------------------------------------------------
(* Priority data queues.                                                   *)

LEMMA SetPdq ==
    ASSUME NEW s, DataEdit(s, s), NEW w, NEW v
    PROVE  DataEdit(s, [s EXCEPT !.pdq[w] = v])
BY DEF DataEdit, HasFields, KernelField, Agree, DataField

LEMMA enqueue_pridata_edit ==
    ASSUME NEW s, DataEdit(s, s), NEW w, NEW data, NEW datapri
    PROVE  DataEdit(s, enqueue_pridata(s, w, data, datapri))
BY SetPdq DEF enqueue_pridata

LEMMA dequeue_pridata_edit ==
    ASSUME NEW s, DataEdit(s, s), NEW w
    PROVE  DataEdit(s, dequeue_pridata(s, w))
<1> DEFINE q == s.pdq[w]
           b == block(q, q.p_head)
           o == [from |-> w, what |-> [data |-> b.data, datapri |-> b.datapri]]
           v == [q EXCEPT !.p_head     = b.p_next,
                          !.count      = @ - 1,
                          !.p_pdqmb[q.p_head + 1].p_next = q.p_freelist,
                          !.p_freelist = q.p_head]
           r == [s EXCEPT !.out = o, !.pdq[w] = v]
<1>1. dequeue_pridata(s, w) = r
  BY DEF dequeue_pridata
<1> HIDE DEF q, o, v
<1>2. DataEdit(s, r)
  BY DEF DataEdit, HasFields, KernelField, Agree, DataField
<1> QED BY <1>1, <1>2

LEMMA send_pridata_inv ==
    ASSUME NEW s, NEW E, Inv(s, {}, E), NEW w \in WOBJ, NEW data, NEW datapri
    PROVE  LET r == send_pridata(s, w, data, datapri)
           IN  Inv(r, {}, E) /\ Keeps(s, r)
<1> DEFINE f == "rwait_queue"
           t == Head(s.wobj[w][f])
           q == Tail(s.wobj[w][f])
           v == [data |-> data, datapri |-> datapri]
           a == [s EXCEPT !.wobj[w][f] = q, !.tcb[t].wobjdata = v]
           r == send_pridata(s, w, data, datapri)
<1>1. CASE pdq_receivers(s, w) = <<>>
  <2>1. r = enqueue_pridata(s, w, data, datapri)
    BY <1>1 DEF send_pridata
  <2>2. DataEdit(s, s) => DataEdit(s, r)
    BY <2>1, enqueue_pridata_edit
  <2> HIDE DEF r
  <2> QED BY <2>2, edited_inv DEF r
<1>2. CASE pdq_receivers(s, w) # <<>>
  <2>1. f \in QUEUE /\ s.wobj[w][f] # <<>> /\ t = Head(s.wobj[w][f])
    BY <1>2 DEF pdq_receivers, QUEUE
  <2>2. Given(s, a, w, f, Tail(s.wobj[w][f]), t, v)
    BY DEF Given
  <2>3. r = wait_complete(a, t)
    BY <1>2 DEF send_pridata, pdq_receivers
  <2> HIDE DEF f, t, v, a, r
  <2>4. Inv(r, {}, E) /\ Keeps(s, r)
    BY <2>1, <2>2, <2>3, served_inv
  <2> QED BY <2>4 DEF r
<1> QED BY <1>1, <1>2

LEMMA receive_pridata_inv ==
    ASSUME NEW s, NEW E, Inv(s, {}, E), NEW w \in WOBJ, can_receive_pridata(s, w)
    PROVE  LET r == receive_pridata(s, w)
           IN  Inv(r, {}, E) /\ Keeps(s, r)
<1> DEFINE f == "wait_queue"
           t == Head(s.wobj[w][f])
           q == Tail(s.wobj[w][f])
           a == [s EXCEPT !.wobj[w][f] = q, !.tcb[t].wobjdata = NULL]
           b == dequeue_pridata(a, w)
           x == s.tcb[t].wobjdata
           c == enqueue_pridata(b, w, x.data, x.datapri)
           o == [from |-> w, what |-> x]
           e == [a EXCEPT !.out = o]
           r == receive_pridata(s, w)
<1>1. CASE pdq_senders(s, w) = <<>>
  <2>1. r = dequeue_pridata(s, w)
    BY <1>1 DEF receive_pridata, can_receive_pridata
  <2>2. DataEdit(s, s) => DataEdit(s, r)
    BY <2>1, dequeue_pridata_edit
  <2> HIDE DEF r
  <2> QED BY <2>2, edited_inv DEF r
<1>2. CASE pdq_senders(s, w) # <<>>
  <2>1. f \in QUEUE /\ s.wobj[w][f] # <<>> /\ t = Head(s.wobj[w][f])
    BY <1>2 DEF pdq_senders, QUEUE
  <2>2. Given(s, a, w, f, Tail(s.wobj[w][f]), t, NULL)
    BY DEF Given
  <2>3. r = wait_complete(c, t) \/ r = wait_complete(e, t)
    BY <1>2 DEF receive_pridata, pdq_senders
  <2> HIDE DEF f, t, a, r, x, o
  <2>4. DataEdit(a, a) => DataEdit(a, c)
    BY dequeue_pridata_edit, enqueue_pridata_edit, DataEditSelf, DataEditTrans
  <2>5. DataEdit(a, a) => DataEdit(a, e)
    BY SetOut
  <2> HIDE DEF c, e
  <2>6. Inv(r, {}, E) /\ Keeps(s, r)
    BY <2>1, <2>2, <2>3, <2>4, <2>5, served_inv
  <2> QED BY <2>6 DEF r
<1> QED BY <1>1, <1>2

LEMMA acre_pdq_step ==
    ASSUME IInv, NEW atr, "TA_NOEXS" \notin atr, NEW cnt, NEW max, acre_pdq(atr, cnt, max)
    PROVE  StepOK
<1> DEFINE k == "PDQ"
           w == Head(free_cb["PDQ"])
           v == new_pdqcb(cnt, max)
           s == create_wobj(k, atr)
           n == [s EXCEPT !.pdq[w] = v]
<1>1. k \in OBJKIND /\ CanCreate("acre_pdq", k) /\ Become(n)
  BY DEF acre_pdq, OBJKIND
<1>2. DataEdit(s, s)
  BY CreatedData
<1> HIDE DEF v, w, s
<1>3. DataEdit(s, n)
  BY <1>2, SetPdq
<1> HIDE DEF n, k
<1> QED BY <1>1, <1>3, acre_step DEF s

LEMMA del_pdq_step ==
    ASSUME IInv, NEW w \in PDQ, del_pdq(w)
    PROVE  StepOK
<1> DEFINE k == "PDQ"
<1>1. k \in OBJKIND /\ w \in WOBJ /\ CanDelete("del_pdq", k, w)
      /\ Become(dispatch(delete_wobj(k, w)))
  BY TaskOpsAssumption DEF del_pdq, OBJKIND
<1> HIDE DEF k
<1> QED BY <1>1, delete_step

LEMMA exchanged_pri_step ==
    ASSUME IInv, NEW w \in PDQ, NEW r, NEW data, NEW datapri,
           \/ r = send_pridata(Cur, w, data, datapri)
           \/ r = receive_pridata(Cur, w) /\ can_receive_pridata(Cur, w),
           \/ Become(dispatch(r))
           \/ Become(dispatch_or_request(r)) /\ UnchangedContext
    PROVE  StepOK
<1>1. w \in WOBJ /\ Inv(Cur, {}, Ends(Cur))
  BY StepBegins, TaskOpsAssumption
<1>2. Inv(r, {}, Ends(Cur)) /\ Keeps(Cur, r)
  BY <1>1, send_pridata_inv, receive_pridata_inv
<1> QED BY <1>2, Dispatched

LEMMA send_pdq_step ==
    ASSUME IInv, NEW w \in PDQ, NEW data, NEW datapri, NEW call, MayWait(call, w), NEW tmout,
           Become(dispatch(
                IF can_send_pridata(Cur, w) THEN send_pridata(Cur, w, data, datapri)
                ELSE wobj_make_wait_tmout(holding_pri(data, datapri),
                                          TS_WAITING_SPDQ, w, tmout)))
    PROVE  StepOK
<1> DEFINE x == "SPDQ"
           v == [data |-> data, datapri |-> datapri]
           s == holding_pri(data, datapri)
           r == send_pridata(Cur, w, data, datapri)
<1>1. CASE can_send_pridata(Cur, w)
  <2>1. Become(dispatch(r)) /\ r = send_pridata(Cur, w, data, datapri)
    BY <1>1
  <2> HIDE DEF r
  <2> QED BY <2>1, exchanged_pri_step
<1>2. CASE ~can_send_pridata(Cur, w)
  <2>2. x \in TS_WOBJCB_MASK /\ x # "MTX"
        /\ Become(dispatch(wobj_make_wait_tmout(s, {x}, w, tmout)))
    BY <1>2 DEF TS_WAITING_SPDQ, TS_WOBJCB_MASK
  <2>3. s = [Cur EXCEPT !.tcb[p_runtsk].wobjdata = v]
    BY DEF holding_pri
  <2> HIDE DEF x, s, v
  <2> QED BY <2>2, <2>3, holding_step
<1> QED BY <1>1, <1>2

LEMMA snd_pdq_step ==
    ASSUME IInv, NEW w \in PDQ, NEW data, NEW datapri, snd_pdq(w, data, datapri)
    PROVE  StepOK
<1>1. MayWait("snd_pdq", w)
      /\ Become(dispatch(
            IF can_send_pridata(Cur, w) THEN send_pridata(Cur, w, data, datapri)
            ELSE wobj_make_wait_tmout(holding_pri(data, datapri),
                                      TS_WAITING_SPDQ, w, "TMO_FEVR")))
  BY wobj_make_wait_fevr DEF snd_pdq
<1> QED BY <1>1, send_pdq_step

LEMMA tsnd_pdq_step ==
    ASSUME IInv, NEW w \in PDQ, NEW data, NEW datapri, tsnd_pdq(w, data, datapri)
    PROVE  StepOK
BY send_pdq_step DEF tsnd_pdq

LEMMA psnd_pdq_step ==
    ASSUME IInv, NEW w \in PDQ, NEW data, NEW datapri, psnd_pdq(w, data, datapri)
    PROVE  StepOK
<1> DEFINE r == send_pridata(Cur, w, data, datapri)
<1>1. /\ Become(dispatch_or_request(r)) /\ UnchangedContext
      /\ r = send_pridata(Cur, w, data, datapri)
  BY DEF psnd_pdq
<1> HIDE DEF r
<1> QED BY <1>1, exchanged_pri_step

LEMMA receive_pdq_step ==
    ASSUME IInv, NEW w \in PDQ, NEW call, MayWait(call, w), NEW tmout,
           Become(dispatch(
                IF can_receive_pridata(Cur, w) THEN receive_pridata(Cur, w)
                ELSE make_wait_receive(Cur, TS_WAITING_RPDQ, w, tmout)))
    PROVE  StepOK
<1> DEFINE x == "RPDQ"
           r == receive_pridata(Cur, w)
<1>1. CASE can_receive_pridata(Cur, w)
  <2>1. Become(dispatch(r)) /\ r = receive_pridata(Cur, w)
    BY <1>1
  <2> HIDE DEF r
  <2> QED BY <1>1, <2>1, exchanged_pri_step
<1>2. CASE ~can_receive_pridata(Cur, w)
  <2>1. w \in WOBJ /\ w \notin MTX
    BY TaskOpsAssumption
  <2>2. x \in RECEIVING /\ Become(dispatch(make_wait_receive(Cur, {x}, w, tmout)))
    BY <1>2 DEF TS_WAITING_RPDQ, RECEIVING
  <2> HIDE DEF x
  <2> QED BY <2>1, <2>2, receive_step
<1> QED BY <1>1, <1>2

LEMMA rcv_pdq_step ==
    ASSUME IInv, NEW w \in PDQ, rcv_pdq(w)
    PROVE  StepOK
BY receive_pdq_step DEF rcv_pdq

LEMMA trcv_pdq_step ==
    ASSUME IInv, NEW w \in PDQ, trcv_pdq(w)
    PROVE  StepOK
BY receive_pdq_step DEF trcv_pdq

LEMMA prcv_pdq_step ==
    ASSUME IInv, NEW w \in PDQ, prcv_pdq(w)
    PROVE  StepOK
<1> DEFINE r == receive_pridata(Cur, w)
<1>1. Become(dispatch(r)) /\ r = receive_pridata(Cur, w) /\ can_receive_pridata(Cur, w)
  BY DEF prcv_pdq
<1> HIDE DEF r
<1> QED BY <1>1, exchanged_pri_step

LEMMA ini_pdq_step ==
    ASSUME IInv, NEW w \in PDQ, ini_pdq(w)
    PROVE  StepOK
<1> DEFINE s == init_wait_queues(Cur, w)
           v == [pdq[w] EXCEPT !.count = 0, !.p_head = NULL,
                               !.unused = 0, !.p_freelist = NULL]
           n == [s EXCEPT !.pdq[w] = v]
<1>1. w \in WOBJ /\ Become(dispatch(n))
  BY TaskOpsAssumption DEF ini_pdq
<1> HIDE DEF s, v
<1>2. DataEdit(s, s) => DataEdit(s, n)
  BY SetPdq
<1> HIDE DEF n
<1> QED BY <1>1, <1>2, drained_step DEF s

-----------------------------------------------------------------------------
(* Memory pools.                                                           *)

LEMMA SetMpf ==
    ASSUME NEW s, DataEdit(s, s), NEW w, NEW v
    PROVE  DataEdit(s, [s EXCEPT !.mpf[w] = v])
BY DEF DataEdit, HasFields, KernelField, Agree, DataField

LEMMA TakeBlock_step ==
    ASSUME IInv, NEW w \in MPF, TakeBlock(w), UnchangedContext
    PROVE  StepOK
<1> DEFINE s == Cur
           p == s.mpf[w]
           i == free_block(p)
           q == IF p.freelist # INDEX_NULL
                THEN [p EXCEPT !.freelist = p.p_mpfmb[i + 1]]
                ELSE [p EXCEPT !.unused = @ + 1]
           o == [from |-> w, what |-> [blk |-> i]]
           v == [q EXCEPT !.fblkcnt = @ - 1, !.p_mpfmb[i + 1] = INDEX_ALLOC]
           n == [s EXCEPT !.out = o, !.mpf[w] = v]
<1>1. Become(n)
  BY DEF TakeBlock, get_mpf_block
<1>2. DataEdit(s, s)
  BY CurData
<1> HIDE DEF v, o, s
<1>3. DataEdit(s, n)
  BY <1>2 DEF DataEdit, HasFields, KernelField, Agree, DataField
<1> HIDE DEF n
<1> QED BY <1>1, <1>3, DataEditStep DEF s

LEMMA acre_mpf_step ==
    ASSUME IInv, NEW atr, "TA_NOEXS" \notin atr, NEW cnt, acre_mpf(atr, cnt)
    PROVE  StepOK
<1> DEFINE k == "MPF"
           w == Head(free_cb["MPF"])
           v == new_mpfcb(cnt)
           s == create_wobj(k, atr)
           n == [s EXCEPT !.mpf[w] = v]
<1>1. k \in OBJKIND /\ CanCreate("acre_mpf", k) /\ Become(n)
  BY DEF acre_mpf, OBJKIND
<1>2. DataEdit(s, s)
  BY CreatedData
<1> HIDE DEF v, w, s
<1>3. DataEdit(s, n)
  BY <1>2, SetMpf
<1> HIDE DEF n, k
<1> QED BY <1>1, <1>3, acre_step DEF s

LEMMA del_mpf_step ==
    ASSUME IInv, NEW w \in MPF, del_mpf(w)
    PROVE  StepOK
<1> DEFINE k == "MPF"
<1>1. k \in OBJKIND /\ w \in WOBJ /\ CanDelete("del_mpf", k, w)
      /\ Become(dispatch(delete_wobj(k, w)))
  BY TaskOpsAssumption DEF del_mpf, OBJKIND
<1> HIDE DEF k
<1> QED BY <1>1, delete_step

LEMMA wait_mpf_step ==
    ASSUME IInv, NEW w \in MPF, NEW call, MayWait(call, w), NEW tmout,
           Become(dispatch(wobj_make_wait_tmout(Cur, TS_WAITING_MPF, w, tmout)))
    PROVE  StepOK
<1> DEFINE x == "MPF"
<1>1. w \in WOBJ /\ Holding(Cur) /\ LockedMutex(Cur, p_runtsk, w) /\ w \notin MTX
  BY TaskOpsAssumption, OtherKinds DEF Holding
<1>2. x \in TS_WOBJCB_MASK /\ x # "MTX"
      /\ Become(dispatch(wobj_make_wait_tmout(Cur, {x}, w, tmout)))
  BY DEF TS_WAITING_MPF, TS_WOBJCB_MASK
<1> HIDE DEF x
<1> QED BY <1>1, <1>2, block_step

LEMMA get_mpf_step ==
    ASSUME IInv, NEW w \in MPF, get_mpf(w)
    PROVE  StepOK
<1>1. MayWait("get_mpf", w) /\ UnchangedContext
  BY DEF get_mpf
<1>2. CASE TakeBlock(w)
  BY <1>1, <1>2, TakeBlock_step
<1>3. CASE ~TakeBlock(w)
  <2>1. Become(dispatch(wobj_make_wait_tmout(Cur, TS_WAITING_MPF, w, "TMO_FEVR")))
    BY <1>3, wobj_make_wait_fevr DEF get_mpf
  <2> QED BY <1>1, <2>1, wait_mpf_step
<1> QED BY <1>2, <1>3

LEMMA pget_mpf_step ==
    ASSUME IInv, NEW w \in MPF, pget_mpf(w)
    PROVE  StepOK
BY TakeBlock_step DEF pget_mpf

LEMMA tget_mpf_step ==
    ASSUME IInv, NEW w \in MPF, tget_mpf(w)
    PROVE  StepOK
<1>1. MayWait("tget_mpf", w) /\ UnchangedContext
  BY DEF tget_mpf
<1>2. CASE TakeBlock(w)
  BY <1>1, <1>2, TakeBlock_step
<1>3. CASE ~TakeBlock(w)
  <2>1. Become(dispatch(wobj_make_wait_tmout(Cur, TS_WAITING_MPF, w, "finite")))
    BY <1>3 DEF tget_mpf
  <2> QED BY <1>1, <2>1, wait_mpf_step
<1> QED BY <1>2, <1>3

LEMMA rel_mpf_step ==
    ASSUME IInv, NEW w \in MPF, NEW blk, rel_mpf(w, blk)
    PROVE  StepOK
<1> DEFINE s == Cur
           f == "wait_queue"
           q == wobj[w].wait_queue
           t == Head(q)
           v == [blk |-> blk]
           l == mpf[w].freelist
           c == s.mpf[w].fblkcnt + 1
           i == blk + 1
           a == [s EXCEPT !.wobj[w][f] = Tail(q), !.tcb[t].wobjdata = v]
           n == [s EXCEPT !.mpf[w].fblkcnt = c,
                          !.mpf[w].p_mpfmb[i] = l,
                          !.mpf[w].freelist = blk]
           r == wait_complete(a, t)
<1>1. UnchangedContext /\ Become(IF q = <<>> THEN n ELSE dispatch(r))
  BY DEF rel_mpf
<1>2. f \in QUEUE /\ w \in WOBJ /\ Inv(s, {}, Ends(s)) /\ DataEdit(s, s)
  BY StepBegins, CurData, TaskOpsAssumption DEF QUEUE
<1>3. CASE q = <<>>
  <2>1. Become(n)
    BY <1>1, <1>3
  <2> HIDE DEF s, l, c, i
  <2>2. DataEdit(s, n)
    <3> DEFINE n1 == [s EXCEPT !.mpf[w].fblkcnt = c]
               n2 == [n1 EXCEPT !.mpf[w].p_mpfmb[i] = l]
               n3 == [n2 EXCEPT !.mpf[w].freelist = blk]
    <3>1. n = n3
      OBVIOUS
    <3>2. DataEdit(s, n1)
      BY <1>2 DEF DataEdit, HasFields, KernelField, Agree, DataField
    <3> HIDE DEF n1
    <3>3. DataEdit(s, n2)
      BY <3>2 DEF DataEdit, HasFields, KernelField, Agree, DataField
    <3> HIDE DEF n2
    <3>4. DataEdit(s, n3)
      BY <3>3 DEF DataEdit, HasFields, KernelField, Agree, DataField
    <3> QED BY <3>1, <3>4
  <2> HIDE DEF n
  <2> QED BY <1>1, <2>1, <2>2, DataEditStep DEF s
<1>4. CASE q # <<>>
  <2>1. Become(dispatch(r))
    BY <1>1, <1>4
  <2>2. s.wobj[w][f] # <<>> /\ t = Head(s.wobj[w][f]) /\ r = wait_complete(a, t)
    BY <1>4, CurFields
  <2>3. Given(s, a, w, f, Tail(s.wobj[w][f]), t, v)
    BY CurFields DEF Given
  <2> HIDE DEF s, f, t, a, v, r
  <2>4. Inv(r, {}, Ends(s)) /\ Keeps(s, r)
    BY <1>2, <2>2, <2>3, served_inv
  <2> QED BY <2>1, <2>4, Dispatched DEF s
<1> QED BY <1>3, <1>4

LEMMA ini_mpf_step ==
    ASSUME IInv, NEW w \in MPF, ini_mpf(w)
    PROVE  StepOK
<1> DEFINE s == init_wait_queue(Cur, w, "wait_queue")
           v == mpf[w].blkcnt
           n == [s EXCEPT !.mpf[w].fblkcnt  = v, !.mpf[w].unused   = 0,
                          !.mpf[w].freelist = INDEX_NULL]
<1>1. w \in WOBJ /\ Become(dispatch(n))
  BY TaskOpsAssumption DEF ini_mpf
<1> HIDE DEF s, v
<1>2. DataEdit(s, s) => DataEdit(s, n)
  BY DEF DataEdit, HasFields, KernelField, Agree, DataField
<1> HIDE DEF n
<1> QED BY <1>1, <1>2, drained_step DEF s

-----------------------------------------------------------------------------
(* The start of the kernel.                                                *)

(* Before any task is initialized.                                         *)
Zero(z, c) ==
    /\ HasFields(z, KernelField)
    /\ HasFields(z.tcb, TSK) /\ \A t \in TSK : z.tcb[t] = zero_tcb
    /\ HasFields(z.tinib, TSK)
    /\ \A t \in TSK : z.tinib[t] = IF t \in ToSet(c.torder_table)
                                   THEN c.tinib_table[t] ELSE unused_tinib
    /\ HasFields(z.wobj, WOBJ)
    /\ \A w \in WOBJ : z.wobj[w] = new_wobj(IF w \in DOMAIN c.wobj_inib
                                            THEN c.wobj_inib[w] ELSE {"TA_NOEXS"})
    /\ HasFields(z.mtx, MTX)
    /\ \A m \in MTX : z.mtx[m] = [p_loctsk |-> NULL,
                                  ceilpri  |-> IF m \in DOMAIN c.ceilpri_inib
                                               THEN c.ceilpri_inib[m] ELSE 0]
    /\ HasFields(z.ready_queue, TPRI) /\ \A p \in TPRI : z.ready_queue[p] = <<>>
    /\ HasFields(z.tmevtb, TSK) /\ \A t \in TSK : z.tmevtb[t] = "none"
    /\ z.free_tcb = c.dynamic_tsk /\ z.free_mtxcb = c.dynamic_mtx
    /\ z.free_cb = c.dynamic_obj
    /\ z.ready_primap = {} /\ z.p_schedtsk = NULL
    /\ z.enadsp = TRUE /\ z.ipm = FALSE /\ z.dspflg = TRUE

LEMMA ZeroState ==
    ASSUME NEW c, c = CONFIG[app]
    PROVE  Zero(zero_state, c)
<1> DEFINE z == zero_state
<1>1. HasFields(z, KernelField)
  BY DEF zero_state, HasFields, KernelField
<1>2. z.tcb = [t \in TSK |-> zero_tcb] /\ z.tmevtb = [t \in TSK |-> "none"]
      /\ z.ready_queue = [p \in TPRI |-> <<>>]
  BY DEF zero_state
<1>3. z.tinib = [t \in TSK |-> IF t \in ToSet(c.torder_table)
                               THEN c.tinib_table[t] ELSE unused_tinib]
  BY DEF zero_state, torder_table, tinib_table
<1>4. z.wobj = [w \in WOBJ |-> new_wobj(IF w \in DOMAIN c.wobj_inib
                                        THEN c.wobj_inib[w] ELSE {"TA_NOEXS"})]
  BY DEF zero_state, wobj_inib
<1>5. z.mtx = [m \in MTX |-> [p_loctsk |-> NULL,
                              ceilpri  |-> IF m \in DOMAIN c.ceilpri_inib
                                           THEN c.ceilpri_inib[m] ELSE 0]]
  BY DEF zero_state, ceilpri_inib
<1>6. /\ z.free_tcb = c.dynamic_tsk /\ z.free_mtxcb = c.dynamic_mtx
      /\ z.free_cb = c.dynamic_obj
      /\ z.ready_primap = {} /\ z.p_schedtsk = NULL
      /\ z.enadsp = TRUE /\ z.ipm = FALSE /\ z.dspflg = TRUE
  BY DEF zero_state, dynamic_tsk, dynamic_mtx, dynamic_obj
<1> HIDE DEF z
<1>7. HasFields(z.tcb, TSK) /\ \A t \in TSK : z.tcb[t] = zero_tcb
  BY <1>2 DEF HasFields
<1>8. HasFields(z.tmevtb, TSK) /\ HasFields(z.ready_queue, TPRI)
      /\ (\A t \in TSK : z.tmevtb[t] = "none") /\ \A p \in TPRI : z.ready_queue[p] = <<>>
  BY <1>2 DEF HasFields
<1>9. HasFields(z.tinib, TSK) /\ \A t \in TSK : z.tinib[t] = IF t \in ToSet(c.torder_table)
                                   THEN c.tinib_table[t] ELSE unused_tinib
  BY <1>3 DEF HasFields
<1>10. HasFields(z.wobj, WOBJ)
       /\ \A w \in WOBJ : z.wobj[w] = new_wobj(IF w \in DOMAIN c.wobj_inib
                                            THEN c.wobj_inib[w] ELSE {"TA_NOEXS"})
  BY <1>4 DEF HasFields
<1>11. HasFields(z.mtx, MTX)
       /\ \A m \in MTX : z.mtx[m] = [p_loctsk |-> NULL,
                                  ceilpri  |-> IF m \in DOMAIN c.ceilpri_inib
                                               THEN c.ceilpri_inib[m] ELSE 0]
  BY <1>5 DEF HasFields
<1>12. Zero(z, c)
  BY <1>1, <1>6, <1>7, <1>8, <1>9, <1>10, <1>11 DEF Zero
<1> QED BY <1>12 DEF z

LEMMA ZeroWellFormed ==
    ASSUME NEW c, IsConfig(c), NEW z, Zero(z, c)
    PROVE  WellFormed(z)
<1>1. 0 \in TPRI
  BY TaskOpsAssumption DEF TPRI
<1>2. TcbOK(zero_tcb)
  BY <1>1 DEF TcbOK, zero_tcb, HasFields, TcbField
<1>3. \A t \in TSK : TcbOK(z.tcb[t])
  BY <1>2 DEF Zero
<1>4. \A t \in TSK : /\ HasFields(z.tinib[t], {"tskatr", "ipriority"})
                     /\ z.tinib[t].ipriority \in TPRI
  <2> SUFFICES ASSUME NEW t \in TSK
               PROVE  HasFields(z.tinib[t], {"tskatr", "ipriority"})
                      /\ z.tinib[t].ipriority \in TPRI
    OBVIOUS
  <2>1. CASE t \in ToSet(c.torder_table)
    <3>1. z.tinib[t] = c.tinib_table[t]
      BY <2>1 DEF Zero
    <3>2. c.tinib_table[t] \in [tskatr : SUBSET {"TA_ACT", "TA_NOACTQUE"}, ipriority : TPRI]
      BY <2>1 DEF IsConfig
    <3> QED BY <3>1, <3>2 DEF HasFields
  <2>2. CASE t \notin ToSet(c.torder_table)
    <3>1. z.tinib[t] = unused_tinib
      BY <2>2 DEF Zero
    <3> QED BY <1>1, <3>1 DEF unused_tinib, HasFields
  <2> QED BY <2>1, <2>2
<1>5. \A w \in WOBJ : HasFields(z.wobj[w], WobjField)
  <2>1. \A a : HasFields(new_wobj(a), WobjField)
    BY DEF new_wobj, HasFields, WobjField
  <2> QED BY <2>1 DEF Zero
<1>6. \A m \in MTX : /\ HasFields(z.mtx[m], {"p_loctsk", "ceilpri"})
                     /\ z.mtx[m].p_loctsk \in TSK \cup {NULL}
                     /\ z.mtx[m].ceilpri \in TPRI
  <2> SUFFICES ASSUME NEW m \in MTX
               PROVE  /\ HasFields(z.mtx[m], {"p_loctsk", "ceilpri"})
                      /\ z.mtx[m].p_loctsk \in TSK \cup {NULL}
                      /\ z.mtx[m].ceilpri \in TPRI
    OBVIOUS
  <2> DEFINE p == IF m \in DOMAIN c.ceilpri_inib THEN c.ceilpri_inib[m] ELSE 0
  <2>1. z.mtx[m] = [p_loctsk |-> NULL, ceilpri |-> p]
    BY DEF Zero
  <2>2. p \in TPRI
    <3>1. c.ceilpri_inib \in [MTX \cap DOMAIN c.wobj_inib -> TPRI]
      BY DEF IsConfig
    <3> QED BY <1>1, <3>1
  <2> HIDE DEF p
  <2> QED BY <2>1, <2>2 DEF HasFields
<1>7. HasFields(z.free_cb, OBJKIND)
  <2>1. z.free_cb = c.dynamic_obj
    BY DEF Zero
  <2>2. c.dynamic_obj \in [SEM : Seq(SEM), FLG : Seq(FLG), DTQ : Seq(DTQ),
                          PDQ : Seq(PDQ), MPF : Seq(MPF)]
    BY DEF IsConfig
  <2> DEFINE o == c.dynamic_obj
  <2> HIDE DEF o
  <2>3. HasFields(o, OBJKIND)
    BY <2>2 DEF HasFields, OBJKIND, o
  <2> QED BY <2>1, <2>3 DEF o
<1>8. /\ HasFields(z, KernelField) /\ HasFields(z.tcb, TSK) /\ HasFields(z.tinib, TSK)
      /\ HasFields(z.wobj, WOBJ) /\ HasFields(z.mtx, MTX)
      /\ HasFields(z.ready_queue, TPRI) /\ HasFields(z.tmevtb, TSK)
  BY DEF Zero
<1> QED BY <1>3, <1>4, <1>5, <1>6, <1>7, <1>8 DEF WellFormed

LEMMA ZeroInv ==
    ASSUME NEW c, IsConfig(c), NEW z, Zero(z, c)
    PROVE  Inv(z, {}, {})
<1> DEFINE X == {}
<1>0. X = {}
  OBVIOUS
<1> HIDE DEF X
<1>1. WellFormed(z)
  BY ZeroWellFormed
<1>2. \A t \in TSK : z.tcb[t].tstat = TS_DORMANT /\ ~z.tcb[t].insvc
                     /\ ~z.tcb[t].raster /\ ~z.tcb[t].actque
                     /\ z.tmevtb[t] = "none"
  BY DEF Zero, zero_tcb
<1>3. Ready(z, X) = {} /\ Blocked(z, X) = {}
  BY <1>2, IdleFacts DEF Ready, Blocked
<1>4. Sched(z, {})
  <2>1. \A p \in TPRI : Lists(z.ready_queue[p], OfPriority(z, {}, p), TSK)
    BY EmptyLists DEF Zero, OfPriority
  <2>2. z.ready_primap = {p \in TPRI : z.ready_queue[p] # <<>>}
    BY DEF Zero
  <2>3. Scheduled(z, {})
    BY DEF Zero, Scheduled
  <2> QED BY <2>1, <2>2, <2>3 DEF Sched, QueuesOK
<1>5. WaitOK(z, {})
  <2>0. \A a : new_wobj(a).wait_queue = <<>> /\ new_wobj(a).rwait_queue = <<>>
    BY DEF new_wobj
  <2>1. \A w \in WOBJ : z.wobj[w].wait_queue = <<>> /\ z.wobj[w].rwait_queue = <<>>
    BY <2>0 DEF Zero
  <2>2. \A w \in WOBJ, f \in QUEUE : Lists(z.wobj[w][f], WaitsIn(z, {}, w, f), TSK)
    BY <2>1, EmptyLists DEF QUEUE, WaitsIn
  <2>3. \A w \in WOBJ : Sorted(z, z.wobj[w].wait_queue)
    BY <2>1 DEF Sorted
  <2> QED BY <2>2, <2>3 DEF WaitOK
<1>6. \A t \in TSK : TaskOK(z, t, {})
  <2> SUFFICES ASSUME NEW t \in TSK PROVE TaskOK(z, t, {})
    OBVIOUS
  <2> DEFINE b == z.tcb[t].tstat
  <2>1. b = TS_DORMANT
    BY <1>2
  <2>2. /\ b \in TSTATS /\ ~TSTAT_WAITING(b) /\ ~TSTAT_WAIT_WOBJ(b)
        /\ b \cap RECEIVING = {} /\ "DLY" \notin b
    <3> HIDE DEF b
    <3> QED BY <2>1, IdleFacts
  <2>3. WinfoOK(z.tcb[t], z.tmevtb[t])
    BY <1>2, <2>2 DEF WinfoOK, TMEVT
  <2> QED BY <1>2, <2>1, <2>2, <2>3 DEF TaskOK
<1>7. Inv(z, X, {})
  BY <1>1, <1>3, <1>4, <1>5, <1>6 DEF Inv
<1> QED BY <1>0, <1>7

LEMMA ZeroLocks ==
    ASSUME NEW c, NEW z, Zero(z, c)
    PROVE  LocksOK(z)
<1> DEFINE X == {}
           M == {}
<1>0. X = {} /\ M = {}
  OBVIOUS
<1> HIDE DEF X, M
<1>1. \A t \in TSK : /\ z.tcb[t].tstat = TS_DORMANT /\ z.tcb[t].lastmtx = <<>>
                     /\ z.tcb[t].priority = 0 /\ z.tcb[t].bpriority = 0
  BY DEF Zero, zero_tcb
<1>2. \A m \in MTX : z.mtx[m].p_loctsk \notin TSK
  <2>1. \A p : [p_loctsk |-> NULL, ceilpri |-> p].p_loctsk = NULL
    OBVIOUS
  <2>2. \A m \in MTX : \E p : z.mtx[m] = [p_loctsk |-> NULL, ceilpri |-> p]
    BY DEF Zero
  <2>3. \A m \in MTX : z.mtx[m].p_loctsk = NULL
    BY <2>1, <2>2
  <2> QED BY <2>3, TaskOpsAssumption
<1>3. \A t \in TSK : Owned(z, t, M) = {}
  BY <1>2 DEF Owned
<1>4. \A t \in TSK : Lists(z.tcb[t].lastmtx, Owned(z, t, M), MTX)
  BY <1>1, <1>3, EmptyLists
<1>5. \A t \in TSK : \A m : ~BlockedOn(z, t, m)
  BY <1>1, IdleFacts DEF BlockedOn
<1>6. LockInv(z, X, M)
  BY <1>1, <1>4, <1>5 DEF LockInv
<1>7. \A t \in TSK, m \in MTX : ~HoldsCeiling(z, t, m)
  <2>1. \A m : m \notin ToSet(<<>>)
    BY DEF ToSet
  <2> QED BY <1>1, <2>1 DEF HoldsCeiling
<1>8. "MTX" \notin TS_DORMANT
  BY DEF TS_DORMANT
<1>9. Protocol(z)
  BY <1>1, <1>5, <1>7, <1>8 DEF Protocol, Fit
<1> QED BY <1>0, <1>6, <1>9 DEF LocksOK

LEMMA ListsAll ==
    ASSUME NEW T, NEW q \in Seq(T), IsInjective(q)
    PROVE  Lists(q, ToSet(q), T)
BY DEF Lists, ToSet, IsInjective

(* The control blocks of the ids that acre_ calls give out are all free.   *)
LEMMA ZeroFree ==
    ASSUME app \in DOMAIN CONFIG, NEW c, c = CONFIG[app], NEW z, Zero(z, c)
    PROVE  FreeOK(z, c)
<1>1. IsConfig(c) /\ ToSet(c.dynamic_mtx) \subseteq MTX
  BY Configured
<1>2. KindsApart(c)
  BY ConfigKinds
<1>3. /\ z.free_tcb = c.dynamic_tsk /\ z.free_mtxcb = c.dynamic_mtx
      /\ z.free_cb = c.dynamic_obj
  BY DEF Zero
<1>4. Lists(z.free_tcb, {t \in ToSet(c.dynamic_tsk) : ~Exists(z, t)}, TSK)
  <2>1. c.dynamic_tsk \in Seq(TSK) /\ IsInjective(c.dynamic_tsk)
        /\ ToSet(c.torder_table) \cap ToSet(c.dynamic_tsk) = {}
    BY <1>1 DEF IsConfig
  <2>2. ToSet(c.dynamic_tsk) \subseteq TSK
    BY Configured
  <2>3. \A t \in ToSet(c.dynamic_tsk) : z.tinib[t] = unused_tinib
    BY <2>1, <2>2 DEF Zero
  <2>4. \A t \in ToSet(c.dynamic_tsk) : ~Exists(z, t)
    BY <2>3 DEF Exists, unused_tinib
  <2>5. {t \in ToSet(c.dynamic_tsk) : ~Exists(z, t)} = ToSet(c.dynamic_tsk)
    BY <2>4
  <2> QED BY <1>3, <2>1, <2>5, ListsAll
<1>5. ASSUME NEW D, D \cap DOMAIN c.wobj_inib = {}, D \subseteq WOBJ
      PROVE  {w \in D : ~WobjExists(z, w)} = D
  <2>1. \A a : new_wobj(a).wobjatr = a
    BY DEF new_wobj
  <2>2. \A w \in D : z.wobj[w].wobjatr = {"TA_NOEXS"}
    BY <1>5, <2>1 DEF Zero
  <2>3. \A w \in D : ~WobjExists(z, w)
    BY <2>2 DEF WobjExists
  <2> QED BY <2>3
<1>6. DOMAIN c.wobj_inib \subseteq WOBJ
          \ (ToSet(c.dynamic_mtx) \cup UNION {ToSet(c.dynamic_obj[k]) : k \in OBJKIND})
  BY <1>1 DEF IsConfig
<1>7. Lists(z.free_mtxcb, {m \in ToSet(c.dynamic_mtx) : ~WobjExists(z, m)}, MTX)
  <2> DEFINE D == ToSet(c.dynamic_mtx)
  <2>1. c.dynamic_mtx \in Seq(MTX) /\ IsInjective(c.dynamic_mtx)
    BY <1>1 DEF IsConfig
  <2>2. D \cap DOMAIN c.wobj_inib = {} /\ D \subseteq WOBJ
    BY <1>1, <1>6, TaskOpsAssumption
  <2>3. {m \in D : ~WobjExists(z, m)} = D
    <3> HIDE DEF D
    <3> QED BY <1>5, <2>2
  <2>4. Lists(c.dynamic_mtx, D, MTX)
    BY <2>1, ListsAll
  <2> QED BY <1>3, <2>3, <2>4
<1>8. ASSUME NEW k \in OBJKIND
      PROVE  Lists(z.free_cb[k], {w \in ToSet(c.dynamic_obj[k]) : ~WobjExists(z, w)}, WOBJ)
  <2> DEFINE q == c.dynamic_obj[k]
             D == ToSet(q)
  <2>1. D \subseteq WOBJ
    BY <1>2 DEF KindsApart
  <2>2. D \cap DOMAIN c.wobj_inib = {}
    BY <1>6
  <2>3. IsInjective(q)
    BY <1>1 DEF IsConfig
  <2>4. q \in Seq(WOBJ)
    <3> DEFINE o == c.dynamic_obj
    <3>1. c.dynamic_obj \in [SEM : Seq(SEM), FLG : Seq(FLG), DTQ : Seq(DTQ),
                             PDQ : Seq(PDQ), MPF : Seq(MPF)]
      BY <1>1 DEF IsConfig
    <3> HIDE DEF o
    <3>2. /\ o["SEM"] \in Seq(SEM) /\ o["FLG"] \in Seq(FLG) /\ o["DTQ"] \in Seq(DTQ)
          /\ o["PDQ"] \in Seq(PDQ) /\ o["MPF"] \in Seq(MPF)
      BY <3>1 DEF o
    <3>3. /\ SEM \subseteq WOBJ /\ FLG \subseteq WOBJ /\ DTQ \subseteq WOBJ
          /\ PDQ \subseteq WOBJ /\ MPF \subseteq WOBJ
      BY TaskOpsAssumption
    <3>4. \E K : K \subseteq WOBJ /\ o[k] \in Seq(K)
      BY <3>2, <3>3 DEF OBJKIND
    <3> QED BY <3>4 DEF o
  <2> HIDE DEF q
  <2>5. {w \in D : ~WobjExists(z, w)} = D
    <3> HIDE DEF D
    <3> QED BY <1>5, <2>1, <2>2
  <2>6. Lists(q, D, WOBJ)
    BY <2>3, <2>4, ListsAll
  <2>7. z.free_cb[k] = q
    BY <1>3 DEF q
  <2> QED BY <2>5, <2>6, <2>7 DEF q
<1> QED BY <1>4, <1>7, <1>8 DEF FreeOK

(* A static task is initialized.                                           *)
InitTask(s, t) ==
    LET d == make_dormant(s, t)
    IN  IF "TA_ACT" \in s.tinib[t].tskatr THEN make_active(d, t) ELSE d

LEMMA InitTask_inv ==
    ASSUME NEW s, NEW E, Inv(s, {}, E), NEW t \in TSK, s.tcb[t].tstat = TS_DORMANT,
           s.tcb[t].lastmtx = <<>>, Exists(s, t)
    PROVE  LET r == InitTask(s, t)
           IN  /\ Inv(r, {}, E) /\ Keeps(s, r)
               /\ \A u \in TSK \ {t} : r.tcb[u] = s.tcb[u]
<1> DEFINE d == make_dormant(s, t)
           r == make_active(d, t)
<1>1. Inv(d, {}, E) /\ Keeps(s, d) /\ TcbEdit(s, d, t, TcbField) /\ d.tcb[t].tstat = TS_DORMANT
  BY make_dormant_kept
<1>2. \A u \in TSK \ {t} : d.tcb[u] = s.tcb[u]
  BY <1>1 DEF TcbEdit
<1> HIDE DEF d
<1>3. Exists(d, t)
  BY <1>1, KeepsFields DEF Exists
<1>4. Inv(r, {}, E) /\ Keeps(d, r)
  BY <1>1, <1>3, activate_inv
<1>5. \A u \in TSK \ {t} : r.tcb[u] = d.tcb[u]
  <2> DEFINE f == "tstat"
             e == [d EXCEPT !.tcb[t][f] = TS_RUNNABLE]
  <2>1. f \in TcbField /\ f \notin {"priority", "bpriority", "lastmtx"} /\ WellFormed(d)
    BY <1>1 DEF TcbField, Inv
  <2>2. r = make_runnable(e, t)
    BY DEF make_active
  <2> HIDE DEF f, r
  <2>3. TcbSet(d, e, t, f, TS_RUNNABLE)
    BY <2>1, SetTcb
  <2> HIDE DEF e
  <2>4. WellFormed(e) /\ \A u \in TSK \ {t} : e.tcb[u] = d.tcb[u]
    BY <2>3 DEF TcbSet, TcbEdit
  <2>5. r.tcb = e.tcb
    <3>1. Agree(e, r, ReadyFields)
      BY <2>2, <2>4, make_runnable_effect
    <3> QED BY <3>1 DEF Agree, KernelField, ReadyFields
  <2> QED BY <2>4, <2>5
<1> HIDE DEF r
<1>6. Inv(r, {}, E) /\ Keeps(s, r) /\ \A u \in TSK \ {t} : r.tcb[u] = s.tcb[u]
  BY <1>1, <1>2, <1>4, <1>5, KeepsTrans
<1> QED BY <1>1, <1>2, <1>6 DEF InitTask, d, r

(* The loop over the tasks is a function of the number of turns.           *)
Begun(s, q, k) ==
    \E g : g = [n \in 0 .. k |-> IF n = 0 THEN s ELSE InitTask(g[n - 1], q[n])]

LEMMA initialize_task_defined ==
    ASSUME NEW s, NEW q, NEW k \in Nat
    PROVE  Begun(s, q, k)
<1> DEFINE S == {m \in Nat : ~Begun(s, q, m)}
           j == Min(S)
<1> SUFFICES ASSUME S # {} PROVE FALSE
  OBVIOUS
<1>1. j \in S /\ \A y \in S : j <= y
  BY LeastOf
<1> HIDE DEF j
<1>2. CASE j = 0
  <2>1. [n \in 0 .. 0 |-> s] = [n \in 0 .. 0 |-> IF n = 0 THEN s
               ELSE InitTask([i \in 0 .. 0 |-> s][n - 1], q[n])]
    OBVIOUS
  <2>2. Begun(s, q, 0)
    BY <2>1 DEF Begun
  <2> QED BY <1>1, <1>2, <2>2
<1>3. CASE j # 0
  <2>0. j \in Nat \ {0} /\ j - 1 \in Nat /\ ~(j <= j - 1)
    BY <1>1, <1>3
  <2>1. Begun(s, q, j - 1)
    BY <1>1, <2>0
  <2>2. PICK g : g = [n \in 0 .. j - 1 |-> IF n = 0 THEN s ELSE InitTask(g[n - 1], q[n])]
    BY <2>1 DEF Begun
  <2> DEFINE h == [n \in 0 .. j |-> IF n = j THEN InitTask(g[j - 1], q[j]) ELSE g[n]]
  <2>3. ASSUME NEW n \in 0 .. j
        PROVE  h[n] = IF n = 0 THEN s ELSE InitTask(h[n - 1], q[n])
    <3>1. CASE n = 0
      BY <2>0, <2>2, <3>1
    <3>2. CASE n = j
      <4>1. h[j - 1] = g[j - 1]
        BY <2>0
      <4> QED BY <2>0, <3>2, <4>1
    <3>3. CASE n # 0 /\ n # j
      <4>1. n \in 0 .. j - 1 /\ n - 1 \in 0 .. j /\ n - 1 # j
        BY <2>0, <3>3
      <4>2. h[n - 1] = g[n - 1] /\ h[n] = g[n]
        BY <3>3, <4>1
      <4>3. g[n] = InitTask(g[n - 1], q[n])
        BY <2>2, <3>3, <4>1
      <4> QED BY <3>3, <4>2, <4>3
    <3> QED BY <3>1, <3>2, <3>3
  <2>4. h = [n \in 0 .. j |-> IF n = 0 THEN s ELSE InitTask(h[n - 1], q[n])]
    BY <2>3
  <2> HIDE DEF h
  <2>5. Begun(s, q, j)
    BY <2>4 DEF Begun
  <2> QED BY <1>1, <2>5
<1> QED BY <1>2, <1>3

Fresh(s, t) == s.tcb[t].tstat = TS_DORMANT /\ s.tcb[t].lastmtx = <<>>

LEMMA initialize_task_kinv ==
    ASSUME app \in DOMAIN CONFIG
    PROVE  KInv(initialize_task, CONFIG[app])
<1> DEFINE c == CONFIG[app]
           q == c.torder_table
           s == zero_state
           turns == Len(q)
           after[n \in 0 .. turns] == IF n = 0 THEN s ELSE InitTask(after[n - 1], q[n])
<1>1. Zero(s, c) /\ IsConfig(c)
  BY ZeroState, Configured
<1>2. Inv(s, {}, {}) /\ FreeOK(s, c) /\ LocksOK(s)
  BY <1>1, ZeroInv, ZeroFree, ZeroLocks
<1>3. q \in Seq(TSK) /\ turns \in Nat /\ \A i, j \in 1 .. turns : q[i] = q[j] => i = j
  <2>1. c.torder_table \in Seq(TSK) /\ IsInjective(c.torder_table)
    BY <1>1 DEF IsConfig
  <2> HIDE DEF c
  <2> QED BY <2>1 DEF IsInjective
<1>4. after = [n \in 0 .. turns |-> IF n = 0 THEN s ELSE InitTask(after[n - 1], q[n])]
  <2>1. Begun(s, q, turns)
    BY <1>3, initialize_task_defined
  <2> QED BY <2>1 DEF after, Begun
<1>5. initialize_task = after[turns]
  BY DEF initialize_task, InitTask, torder_table
<1>6. \A i \in 1 .. turns : q[i] \in TSK /\ Exists(s, q[i]) /\ Fresh(s, q[i])
  <2> SUFFICES ASSUME NEW i \in 1 .. turns
               PROVE  q[i] \in TSK /\ Exists(s, q[i]) /\ Fresh(s, q[i])
    OBVIOUS
  <2> DEFINE t == q[i]
  <2> HIDE DEF c, s
  <2>1. t \in TSK /\ t \in ToSet(c.torder_table)
    BY <1>3 DEF ToSet
  <2>2. s.tinib[t] = c.tinib_table[t] /\ s.tcb[t] = zero_tcb
    BY <1>1, <2>1 DEF Zero
  <2>3. c.tinib_table[t] \in [tskatr : SUBSET {"TA_ACT", "TA_NOACTQUE"}, ipriority : TPRI]
    BY <1>1, <2>1 DEF IsConfig
  <2>4. Exists(s, t)
    BY <2>2, <2>3 DEF Exists
  <2>5. Fresh(s, t)
    BY <2>2 DEF Fresh, zero_tcb
  <2> QED BY <2>1, <2>4, <2>5
<1> HIDE DEF after, s
<1> DEFINE Remaining(n) == \A i \in 1 .. turns : i > n => Fresh(after[n], q[i])
           Holds(n) == Inv(after[n], {}, {}) /\ Keeps(s, after[n]) /\ Remaining(n)
           S == {n \in 0 .. turns : ~Holds(n)}
           k == Min(S)
<1>7. Holds(0)
  <2>1. after[0] = s
    BY <1>3, <1>4
  <2> QED BY <1>2, <1>6, <2>1, KeepsSelf
<1>8. ASSUME NEW n \in 1 .. turns, Holds(n - 1)
      PROVE  Holds(n)
  <2> DEFINE a == after[n - 1]
             t == q[n]
             r == after[n]
             E == {}
  <2>1. n \in 0 .. turns /\ n # 0 /\ n - 1 \in Nat
    BY <1>3
  <2>2. r = InitTask(a, t)
    BY <1>4, <2>1
  <2>3. Inv(a, {}, E) /\ Keeps(s, a) /\ Remaining(n - 1)
    BY <1>8
  <2>4. t \in TSK /\ Fresh(a, t)
    BY <1>6, <2>1, <2>3
  <2>5. Exists(a, t)
    <3>1. Exists(s, t)
      BY <1>6
    <3> QED BY <2>3, <3>1, KeepsFields DEF Exists
  <2>6. \A i \in 1 .. turns : i > n => q[i] \in TSK \ {t} /\ Fresh(a, q[i])
    <3> SUFFICES ASSUME NEW i \in 1 .. turns, i > n
                 PROVE  q[i] \in TSK \ {t} /\ Fresh(a, q[i])
      OBVIOUS
    <3>1. q[i] # t
      BY <1>3
    <3>2. i > n - 1
      BY <2>1
    <3> QED BY <1>6, <2>3, <3>1, <3>2
  <2> HIDE DEF r, a, t, E
  <2>7. Inv(r, {}, E) /\ Keeps(a, r) /\ \A u \in TSK \ {t} : r.tcb[u] = a.tcb[u]
    BY <2>2, <2>3, <2>4, <2>5, InitTask_inv DEF Fresh
  <2>8. \A i \in 1 .. turns : i > n => Fresh(r, q[i])
    BY <2>6, <2>7 DEF Fresh
  <2>9. Keeps(s, r)
    BY <2>3, <2>7, KeepsTrans
  <2> QED BY <2>7, <2>8, <2>9 DEF r, E
<1> HIDE DEF Holds
<1>9. \A n \in 0 .. turns : Holds(n)
  <2> SUFFICES ASSUME S # {} PROVE FALSE
    OBVIOUS
  <2>0. S \in SUBSET Nat
    <3> HIDE DEF turns
    <3> QED BY <1>3
  <2>1. k \in S /\ \A y \in S : k <= y
    BY <2>0, LeastOf
  <2> HIDE DEF k
  <2>2. k # 0
    BY <1>7, <2>1
  <2>3. k \in 1 .. turns /\ k - 1 \in 0 .. turns /\ ~(k <= k - 1)
    BY <1>3, <2>1, <2>2
  <2>4. Holds(k - 1)
    BY <2>1, <2>3
  <2> QED BY <1>8, <2>1, <2>3, <2>4
<1>10. Inv(after[turns], {}, {}) /\ Keeps(s, after[turns])
  BY <1>3, <1>9 DEF Holds
<1>11. KInv(s, c) /\ Ends(s) = {}
  <2>1. s.dspflg = TRUE /\ s.enadsp = TRUE /\ s.ipm = FALSE
    BY <1>1 DEF Zero
  <2>2. Ends(s) = {}
    BY <2>1 DEF Ends
  <2> QED BY <1>2, <2>1, <2>2 DEF KInv
<1>12. KInv(after[turns], c)
  BY <1>10, <1>11, Operation
<1> QED BY <1>5, <1>12

LEMMA InitIInv == Init => IInv
<1> SUFFICES ASSUME Init PROVE IInv
  OBVIOUS
<1> DEFINE c == CONFIG[app]
           s == sta_ker
           n == Cur
           E == Ends(s)
<1>1. app \in DOMAIN CONFIG
  BY DEF Init
<1>2. KInv(s, c) /\ s.p_runtsk = s.p_schedtsk
  BY <1>1, initialize_task_kinv, dispatcher_kinv DEF sta_ker
<1>3. HasFields(n, KernelField)
  BY DEF Cur, HasFields, KernelField
<1>4. Agree(s, n, {"out"})
  BY CurFields DEF Init, Agree, KernelField
<1> HIDE DEF c, n, s, E
<1>5. Agree(s, n, DataField)
  BY <1>4 DEF Agree, DataField
<1>6. Inv(s, {}, E)
  BY <1>2, OperationInv DEF E
<1>7. Inv(n, {}, E) /\ Keeps(s, n)
  BY <1>3, <1>5, <1>6, DataInv
<1>8. KInv(n, c)
  BY <1>2, <1>7, Operation DEF E
<1>9. p_runtsk = p_schedtsk
  BY <1>2, <1>4, CurFields DEF Agree, KernelField, n
<1> QED BY <1>1, <1>8, <1>9 DEF IInv, c, n

-----------------------------------------------------------------------------
(* The invariant.                                                          *)

(* No application creates a task with TA_ACT.  acre_tsk activates such a   *)
(* task and neither searches nor dispatches, so that what follows would    *)
(* not hold.                                                               *)
NoActiveCreation ==
    \A a \in DOMAIN CONFIG : \A n \in CONFIG[a].acre_tsk : "TA_ACT" \notin n.tskatr

LEMMA TaskManageStep ==
    ASSUME NoActiveCreation, IInv, TaskManageNext
    PROVE  StepOK
<1>1. app \in DOMAIN CONFIG
  BY DEF IInv
<1>2. \A c \in CONFIG[app].acre_tsk : acre_tsk(c.tskatr, c.ipriority) => StepOK
  BY <1>1, acre_tsk_step DEF NoActiveCreation
<1> QED
  BY <1>2, del_tsk_step, act_tsk_step, can_act_step, chg_pri_step,
     chg_pri_ini_locked_step, chg_pri_ini_step DEF TaskManageNext

LEMMA TaskTermStep ==
    ASSUME IInv, TaskTermNext
    PROVE  StepOK
BY ext_tsk_step, dis_ter_step, ena_ter_step, ras_ter_step, ter_tsk_step DEF TaskTermNext

LEMMA TaskSyncStep ==
    ASSUME IInv, TaskSyncNext
    PROVE  StepOK
BY slp_tsk_step, dly_tsk_step, tslp_tsk_step, wup_tsk_step, can_wup_step,
   rel_wai_step, sus_tsk_step, rsm_tsk_step DEF TaskSyncNext

LEMMA MutexStep ==
    ASSUME IInv, MutexNext
    PROVE  StepOK
<1>1. \A atr \in {{}, {"TA_TPRI"}, {"TA_TPRI", "TA_CEILING"}} : "TA_NOEXS" \notin atr
  OBVIOUS
<1> QED
  BY <1>1, acre_mtx_step, del_mtx_step, loc_mtx_step, ploc_mtx_step, tloc_mtx_step,
     unl_mtx_step, ini_mtx_step DEF MutexNext

LEMMA SysManageStep ==
    ASSUME IInv, SysManageNext
    PROVE  StepOK
BY lock_cpu_step, dis_dsp_step, ena_dsp_step, rot_rdq_step, chg_ipm_step
   DEF SysManageNext

LEMMA OrderExists == \A atr \in ORDER : "TA_NOEXS" \notin atr
BY DEF ORDER

LEMMA SemaphoreStep ==
    ASSUME IInv, SemaphoreNext
    PROVE  StepOK
BY OrderExists, acre_sem_step, del_sem_step, sig_sem_step, wai_sem_step, pol_sem_step,
   twai_sem_step, ini_sem_step DEF SemaphoreNext

LEMMA EventFlagStep ==
    ASSUME IInv, EventFlagNext
    PROVE  StepOK
<1>1. \A atr \in SUBSET {"TA_TPRI", "TA_WMUL", "TA_CLR"} : "TA_NOEXS" \notin atr
  OBVIOUS
<1> QED
  BY <1>1, acre_flg_step, del_flg_step, ini_flg_step, set_flg_step, clr_flg_step,
     wai_flg_step, pol_flg_step, twai_flg_step DEF EventFlagNext

LEMMA DataQueueStep ==
    ASSUME IInv, DataQueueNext
    PROVE  StepOK
BY OrderExists, acre_dtq_step, del_dtq_step, ini_dtq_step, rcv_dtq_step, prcv_dtq_step,
   trcv_dtq_step, snd_dtq_step, psnd_dtq_step, tsnd_dtq_step, fsnd_dtq_step,
   fsnd_dtq_locked_step, fsnd_dtq_handler_step DEF DataQueueNext

LEMMA PriDataQueueStep ==
    ASSUME IInv, PriDataQueueNext
    PROVE  StepOK
BY OrderExists, acre_pdq_step, del_pdq_step, ini_pdq_step, rcv_pdq_step, prcv_pdq_step,
   trcv_pdq_step, snd_pdq_step, psnd_pdq_step, tsnd_pdq_step DEF PriDataQueueNext

LEMMA MemPoolStep ==
    ASSUME IInv, MemPoolNext
    PROVE  StepOK
BY OrderExists, acre_mpf_step, del_mpf_step, ini_mpf_step, get_mpf_step, pget_mpf_step,
   tget_mpf_step, rel_mpf_step DEF MemPoolNext

LEMMA InterruptStep ==
    ASSUME IInv, InterruptNext
    PROVE  StepOK
BY int_entry_step, int_exit_step, wait_return_step, timeout_step DEF InterruptNext

LEMMA StepKept ==
    ASSUME NoActiveCreation, IInv, [Next]_vars
    PROVE  StepOK
<1>1. CASE Next
  BY <1>1, TaskManageStep, TaskTermStep, TaskSyncStep, MutexStep, SysManageStep,
     SemaphoreStep, EventFlagStep, DataQueueStep, PriDataQueueStep, MemPoolStep,
     InterruptStep DEF Next
<1>2. CASE UNCHANGED vars
  BY <1>2, Unchanged DEF vars
<1> QED BY <1>1, <1>2

(* The kernel's data structures fit together in every reachable state, for *)
(* every application that creates no task with TA_ACT.                     *)
THEOREM Consistent ==
    ASSUME NoActiveCreation
    PROVE  Spec => []IInv
<1>1. IInv /\ [Next]_vars => IInv'
  BY StepKept DEF StepOK
<1> QED BY <1>1, InitIInv, PTL DEF Spec

-----------------------------------------------------------------------------
(* What the invariant says of the kernel's variables.                      *)

LEMMA ListsEach ==
    ASSUME NEW q, NEW S, NEW T, Lists(q, S, T)
    PROVE  NoDuplicates(q) /\ ToSet(q) = S
<1>1. q \in Seq(T) /\ DOMAIN q = 1 .. Len(q)
  BY DEF Lists
<1>2. NoDuplicates(q)
  BY <1>1 DEF Lists, NoDuplicates
<1>3. ToSet(q) = S
  BY <1>1 DEF Lists, ToSet
<1> QED BY <1>2, <1>3

LEMMA ReadyQueues ==
    ASSUME IInv
    PROVE  ReadyQueueOK
<1> DEFINE s == Cur
           R == Ready(s, {})
<1>1. QueuesOK(s, R)
  BY DEF IInv, KInv, Inv, Sched
<1>2. s.ready_queue = ready_queue /\ s.ready_primap = ready_primap /\ s.tcb = tcb
  BY CurFields
<1> HIDE DEF s
<1>3. ASSUME NEW p \in TPRI
      PROVE  /\ NoDuplicates(ready_queue[p])
             /\ ToSet(ready_queue[p]) = {t \in TSK : Runnable(t) /\ tcb[t].priority = p}
  <2>1. Lists(ready_queue[p], OfPriority(s, R, p), TSK)
    BY <1>1, <1>2 DEF QueuesOK
  <2>2. OfPriority(s, R, p) = {t \in TSK : Runnable(t) /\ tcb[t].priority = p}
    BY <1>2 DEF OfPriority, Ready, Runnable
  <2> QED BY <2>1, <2>2, ListsEach
<1>4. ready_primap = {p \in TPRI : ready_queue[p] # <<>>}
  BY <1>1, <1>2 DEF QueuesOK
<1> QED BY <1>3, <1>4 DEF ReadyQueueOK

LEMMA Chosen ==
    ASSUME IInv
    PROVE  SchedtskOK /\ DispatchFlagOK
<1> DEFINE s == Cur
           R == Ready(s, {})
<1>1. /\ R \in SUBSET TSK /\ QueuesOK(s, R) /\ Scheduled(s, R)
      /\ WellFormed(s) /\ (s.dspflg <=> s.enadsp /\ ~s.ipm)
  BY DEF IInv, KInv, Inv, Sched
<1>2. /\ s.ready_primap = ready_primap /\ s.tcb = tcb /\ s.p_schedtsk = p_schedtsk
      /\ s.p_runtsk = p_runtsk /\ s.dspflg = dspflg /\ s.enadsp = enadsp /\ s.ipm = ipm
      /\ s.ready_queue = ready_queue
  BY CurFields
<1>3. \A t \in R : s.tcb[t].priority \in TPRI /\ TSTAT_RUNNABLE(s.tcb[t].tstat)
  BY <1>1 DEF WellFormed, TcbOK, Ready
<1> HIDE DEF s, R
<1>4. R = {} => ready_primap = {}
  <2>1. ASSUME R = {}, NEW p \in TPRI PROVE ready_queue[p] = <<>>
    <3>1. Lists(ready_queue[p], OfPriority(s, R, p), TSK)
      BY <1>1, <1>2 DEF QueuesOK
    <3>2. OfPriority(s, R, p) = {}
      BY <2>1 DEF OfPriority
    <3> QED BY <3>1, <3>2, ListsEmpty
  <2> QED BY <2>1, <1>1, <1>2 DEF QueuesOK
<1>5. R # {} => IsFirst(s, R, search_schedtsk(s)) /\ ready_primap # {}
  BY <1>1, <1>2, <1>3, SearchFirst
<1>6. SchedtskOK
  <2>1. CASE ~dspflg
    BY <1>1, <1>2, <2>1 DEF Scheduled, SchedtskOK
  <2>2. CASE dspflg /\ R = {}
    BY <1>1, <1>2, <1>4, <2>2 DEF Scheduled, SchedtskOK
  <2>3. CASE dspflg /\ R # {}
    <3>1. IsFirst(s, R, p_schedtsk)
      BY <1>1, <1>2, <2>3 DEF Scheduled
    <3>2. p_schedtsk = search_schedtsk(s)
      BY <1>1, <1>3, <1>5, <2>3, <3>1, FirstUnique
    <3> QED BY <1>5, <2>3, <3>2 DEF SchedtskOK, s
  <2> QED BY <2>1, <2>2, <2>3
<1>7. DispatchFlagOK
  <2>1. ~dspflg => p_runtsk \in R
    BY <1>1, <1>2 DEF Scheduled
  <2>2. ~dspflg => p_runtsk # NULL /\ Runnable(p_runtsk)
    BY <1>1, <1>2, <1>3, <2>1, TaskOpsAssumption DEF Runnable
  <2> QED BY <1>1, <1>2, <2>2 DEF DispatchFlagOK
<1> QED BY <1>6, <1>7

LEMMA WaitQueues ==
    ASSUME IInv
    PROVE  WaitQueueOK
<1> DEFINE s == Cur
           V == Blocked(s, {})
<1>1. WaitOK(s, V)
  BY DEF IInv, KInv, Inv
<1>2. s.wobj = wobj /\ s.tcb = tcb
  BY CurFields
<1> HIDE DEF s
<1> SUFFICES ASSUME NEW w \in WOBJ
    PROVE  LET q == wobj[w].wait_queue
               r == wobj[w].rwait_queue
               receiving(t) == tcb[t].tstat \cap {"RDTQ", "RPDQ"} # {}
           IN  /\ NoDuplicates(q) /\ NoDuplicates(r)
               /\ ToSet(q) = {t \in TSK : WaitsOn(t, w) /\ ~receiving(t)}
               /\ ToSet(r) = {t \in TSK : WaitsOn(t, w) /\ receiving(t)}
               /\ "TA_TPRI" \in wobj[w].wobjatr =>
                     \A i, j \in DOMAIN q : i < j =>
                        tcb[q[i]].priority <= tcb[q[j]].priority
  BY DEF WaitQueueOK
<1> DEFINE q == wobj[w].wait_queue
           r == wobj[w].rwait_queue
           receiving(t) == tcb[t].tstat \cap {"RDTQ", "RPDQ"} # {}
           f == "wait_queue"
           g == "rwait_queue"
<1>3. f # g /\ \A t : queue_of(tcb[t].tstat) = IF receiving(t) THEN g ELSE f
  BY DEF queue_of
<1>4. Lists(q, WaitsIn(s, V, w, f), TSK) /\ Lists(r, WaitsIn(s, V, w, g), TSK)
  BY <1>1, <1>2 DEF WaitOK, QUEUE
<1>5. \A t : t \in V <=> t \in TSK /\ TSTAT_WAIT_WOBJ(tcb[t].tstat)
  BY <1>2 DEF Blocked
<1> HIDE DEF V, f, g
<1>6. WaitsIn(s, V, w, f) = {t \in TSK : WaitsOn(t, w) /\ ~receiving(t)}
  BY <1>2, <1>3, <1>5 DEF WaitsIn, WaitsOn
<1>7. WaitsIn(s, V, w, g) = {t \in TSK : WaitsOn(t, w) /\ receiving(t)}
  BY <1>2, <1>3, <1>5 DEF WaitsIn, WaitsOn
<1>8. NoDuplicates(q) /\ ToSet(q) = {t \in TSK : WaitsOn(t, w) /\ ~receiving(t)}
  <2>1. NoDuplicates(q) /\ ToSet(q) = WaitsIn(s, V, w, f)
    BY <1>4, ListsEach
  <2> QED BY <2>1, <1>6
<1>9. NoDuplicates(r) /\ ToSet(r) = {t \in TSK : WaitsOn(t, w) /\ receiving(t)}
  <2>1. NoDuplicates(r) /\ ToSet(r) = WaitsIn(s, V, w, g)
    BY <1>4, ListsEach
  <2> QED BY <2>1, <1>7
<1>10. "TA_TPRI" \in wobj[w].wobjatr =>
          \A i, j \in DOMAIN q : i < j => tcb[q[i]].priority <= tcb[q[j]].priority
  <2>1. DOMAIN q = 1 .. Len(q)
    BY <1>4 DEF Lists
  <2>2. "TA_TPRI" \in wobj[w].wobjatr => Sorted(s, q)
    BY <1>1, <1>2 DEF WaitOK
  <2> QED BY <1>2, <2>1, <2>2 DEF Sorted
<1> QED BY <1>8, <1>9, <1>10

LEMMA TaskStates ==
    ASSUME IInv
    PROVE  WaitInfoOK /\ TerminationRequestOK
<1> DEFINE s == Cur
<1>1. \A t \in TSK : TaskOK(s, t, Ends(s))
  BY DEF IInv, KInv, Inv
<1>2. s.tcb = tcb /\ s.tmevtb = tmevtb /\ s.dspflg = dspflg /\ s.p_runtsk = p_runtsk
  BY CurFields
<1>3. \A t \in TSK : WinfoOK(tcb[t], tmevtb[t])
  BY <1>1, <1>2 DEF TaskOK
<1>4. WaitInfoOK
  BY <1>3 DEF WaitInfoOK, WinfoOK, Waiting
<1>5. TerminationRequestOK
  BY <1>1, <1>2 DEF TerminationRequestOK, TaskOK, Ends, Runnable
<1> QED BY <1>4, <1>5

(* A mutex that is free or does not exist has an empty wait queue.         *)
LEMMA FreeMutexQueues ==
    ASSUME NEW s, NEW E, Inv(s, {}, E), LockInv(s, {}, {}), NEW m \in MTX,
           s.mtx[m].p_loctsk = NULL \/ ~WobjExists(s, m)
    PROVE  s.wobj[m].wait_queue = <<>>
<1>1. m \in WOBJ
  BY Mutexes
<1>2. Deserted(s, m)
  <2>1. CASE s.mtx[m].p_loctsk = NULL
    BY <2>1 DEF LockInv, Deserted, Blocked, BlockedOn
  <2>2. CASE ~WobjExists(s, m)
    BY <2>2, DesertedAbsent
  <2> QED BY <2>1, <2>2
<1>3. \A f \in QUEUE : s.wobj[m][f] = <<>>
  BY <1>1, <1>2, DesertedQueues
<1> QED BY <1>3 DEF QUEUE

LEMMA HeldMutexes ==
    ASSUME IInv
    PROVE  MutexOK
<1> DEFINE s == Cur
           E == Ends(s)
           T(t) == {m \in MTX : ObjectExists(m) /\ mtx[m].p_loctsk = t}
<1>1. Inv(s, {}, E) /\ LockInv(s, {}, {})
  BY DEF IInv, KInv, LocksOK
<1>2. s.tcb = tcb /\ s.mtx = mtx /\ s.wobj = wobj
  BY CurFields
<1>3. \A m \in MTX : WobjExists(s, m) <=> ObjectExists(m)
  BY CurExists, Mutexes
<1>4. \A t : held_mtx(s, t) = ToSet(s.tcb[t].lastmtx)
  BY DEF held_mtx
<1> HIDE DEF s, E
<1>5. ASSUME NEW t \in TSK
      PROVE  /\ NoDuplicates(tcb[t].lastmtx) /\ ToSet(tcb[t].lastmtx) = T(t)
             /\ TSTAT_DORMANT(tcb[t].tstat) => tcb[t].lastmtx = <<>>
  <2>1. Lists(tcb[t].lastmtx, Owned(s, t, {}), MTX)
    BY <1>1, <1>2 DEF LockInv
  <2>2. Owned(s, t, {}) = T(t)
    BY <1>2, <1>3 DEF Owned
  <2>3. TSTAT_DORMANT(tcb[t].tstat) => tcb[t].lastmtx = <<>>
    BY <1>1, <1>2 DEF LockInv, TSTAT_DORMANT
  <2> QED BY <2>1, <2>2, <2>3, ListsEach
<1>6. ASSUME NEW m \in MTX, mtx[m].p_loctsk = NULL \/ ~ObjectExists(m)
      PROVE  wobj[m].wait_queue = <<>>
  BY <1>1, <1>2, <1>3, <1>6, FreeMutexQueues
<1>7. \A t : held_mtx(Cur, t) = ToSet(tcb[t].lastmtx)
  BY <1>2, <1>4 DEF s
<1> QED BY <1>5, <1>6, <1>7 DEF MutexOK

(* The current priority is the least of the levels the task must run at,   *)
(* and its base priority is within the ceilings of its mutexes.            *)
LEMMA CeilingLevels ==
    ASSUME NEW s, WellFormed(s), NEW t \in TSK, Fit(s, t)
    PROVE  /\ s.tcb[t].priority = mutex_calc_priority(s, t)
           /\ mutex_check_ceilpri(s, t, s.tcb[t].bpriority)
<1> DEFINE b == s.tcb[t]
           p == mutex_calc_priority(s, t)
<1>1. LevelRange(s, t)
  BY LevelsRange
<1>2. held_mtx(s, t) = ToSet(b.lastmtx) /\ ToSet(b.lastmtx) \subseteq MTX
  BY <1>1 DEF held_mtx, ToSet, LevelRange
<1>3. b.priority = p
  <2>1. /\ p <= b.bpriority /\ p \in Nat
        /\ \A m \in MTX : HoldsCeiling(s, t, m) => p <= s.mtx[m].ceilpri
        /\ p = b.bpriority \/ \E m \in MTX : HoldsCeiling(s, t, m) /\ s.mtx[m].ceilpri = p
    BY CalcLeast
  <2> HIDE DEF p
  <2>2. p <= b.priority
    BY <2>1 DEF Fit
  <2>3. b.priority <= p
    BY <2>1 DEF Fit
  <2> QED BY <1>1, <2>1, <2>2, <2>3 DEF LevelRange
<1>4. \A m \in held_mtx(s, t) : MTX_CEILING(s, m) => b.bpriority >= s.mtx[m].ceilpri
  <2> SUFFICES ASSUME NEW m \in held_mtx(s, t), MTX_CEILING(s, m)
               PROVE  b.bpriority >= s.mtx[m].ceilpri
    OBVIOUS
  <2>1. m \in MTX /\ HoldsCeiling(s, t, m)
    BY <1>2 DEF HoldsCeiling
  <2>2. s.mtx[m].ceilpri <= b.bpriority
    BY <2>1 DEF Fit
  <2>3. s.mtx[m].ceilpri \in Nat /\ b.bpriority \in Nat
    BY <1>1, <2>1 DEF LevelRange
  <2> QED BY <2>2, <2>3
<1>5. TSTAT_WAIT_MTX(b.tstat) => Permits(s, b.bpriority, b.p_wobjcb)
  <2> HAVE TSTAT_WAIT_MTX(b.tstat)
  <2>1. "MTX" \in b.tstat
    BY DEF TSTAT_WAIT_MTX, TS_WAITING_MTX
  <2>2. TSTAT_WAIT_WOBJ(b.tstat)
    BY <2>1 DEF TSTAT_WAIT_WOBJ, TS_WOBJ_MASK, TS_WOBJCB_MASK
  <2>3. b.p_wobjcb \in MTX /\ BlockedOn(s, t, b.p_wobjcb)
    BY <2>1, <2>2 DEF Fit, BlockedOn
  <2> QED BY <2>3 DEF Fit
<1> QED BY <1>3, <1>4, <1>5 DEF mutex_check_ceilpri, Permits

LEMMA Ceilings ==
    ASSUME IInv
    PROVE  CeilingOK
<1>1. WellFormed(Cur) /\ \A t \in TSK : Fit(Cur, t)
  BY DEF IInv, KInv, Inv, Sched, LocksOK, Protocol
<1>2. \A t \in TSK : /\ Cur.tcb[t].priority = mutex_calc_priority(Cur, t)
                     /\ mutex_check_ceilpri(Cur, t, Cur.tcb[t].bpriority)
  BY <1>1, CeilingLevels
<1> QED BY <1>2, CurFields DEF CeilingOK

LEMMA FreeLists ==
    ASSUME IInv
    PROVE  FreeListsOK
<1> DEFINE s == Cur
           c == CONFIG[app]
<1>1. /\ FreeOK(s, c) /\ LockInv(s, {}, {})
      /\ \A t \in TSK : TaskOK(s, t, Ends(s))
  BY DEF IInv, KInv, Inv, LocksOK
<1>2. /\ s.tcb = tcb /\ s.mtx = mtx /\ s.tmevtb = tmevtb
      /\ s.free_tcb = free_tcb /\ s.free_mtxcb = free_mtxcb
  BY CurFields
<1>3. /\ \A t : Exists(s, t) <=> TaskExists(t)
      /\ \A m \in MTX : WobjExists(s, m) <=> ObjectExists(m)
  BY CurExists, Mutexes
<1>4. ToSet(dynamic_mtx) \subseteq MTX /\ c.dynamic_tsk = dynamic_tsk
      /\ c.dynamic_mtx = dynamic_mtx
  BY Configured DEF IInv, dynamic_tsk, dynamic_mtx
<1> HIDE DEF s, c
<1>5. NoDuplicates(free_tcb)
      /\ ToSet(free_tcb) = {t \in ToSet(dynamic_tsk) : ~TaskExists(t)}
  <2>1. Lists(free_tcb, {t \in ToSet(dynamic_tsk) : ~Exists(s, t)}, TSK)
    BY <1>1, <1>2, <1>4 DEF FreeOK
  <2>2. {t \in ToSet(dynamic_tsk) : ~Exists(s, t)}
          = {t \in ToSet(dynamic_tsk) : ~TaskExists(t)}
    BY <1>3
  <2> QED BY <2>1, <2>2, ListsEach
<1>6. NoDuplicates(free_mtxcb)
      /\ ToSet(free_mtxcb) = {m \in ToSet(dynamic_mtx) : ~ObjectExists(m)}
  <2>1. Lists(free_mtxcb, {m \in ToSet(dynamic_mtx) : ~WobjExists(s, m)}, MTX)
    BY <1>1, <1>2, <1>4 DEF FreeOK
  <2>2. {m \in ToSet(dynamic_mtx) : ~WobjExists(s, m)}
          = {m \in ToSet(dynamic_mtx) : ~ObjectExists(m)}
    BY <1>3, <1>4
  <2> QED BY <2>1, <2>2, ListsEach
<1>7. ASSUME NEW t \in TSK, ~TaskExists(t)
      PROVE  /\ TSTAT_DORMANT(tcb[t].tstat)
             /\ ~tcb[t].actque
             /\ tmevtb[t] = "none"
             /\ \A m \in MTX : ObjectExists(m) => mtx[m].p_loctsk # t
  <2>1. tcb[t].tstat = TS_DORMANT /\ ~tcb[t].actque /\ WinfoOK(tcb[t], tmevtb[t])
    BY <1>1, <1>2, <1>3, <1>7 DEF TaskOK
  <2>2. tmevtb[t] = "none"
    BY <2>1, IdleFacts DEF WinfoOK
  <2>3. Owned(s, t, {}) = {}
    <3>1. Lists(<<>>, Owned(s, t, {}), MTX)
      BY <1>1, <1>2, <2>1 DEF LockInv
    <3> QED BY <3>1, ListsEmpty
  <2>4. \A m \in MTX : ObjectExists(m) => mtx[m].p_loctsk # t
    BY <1>2, <1>3, <2>3 DEF Owned
  <2> QED BY <2>1, <2>2, <2>4 DEF TSTAT_DORMANT
<1> QED BY <1>5, <1>6, <1>7 DEF FreeListsOK

LEMMA ObjectFreeLists ==
    ASSUME IInv
    PROVE  ObjectFreeListsOK
<1> DEFINE s == Cur
           c == CONFIG[app]
<1>1. FreeOK(s, c) /\ \A t \in TSK : TaskOK(s, t, Ends(s))
  BY DEF IInv, KInv, Inv
<1>2. s.tcb = tcb /\ s.free_cb = free_cb /\ c.dynamic_obj = dynamic_obj
  BY CurFields DEF dynamic_obj
<1>3. KindsApart(c)
  BY ConfigKinds DEF IInv
<1>4. \A w \in WOBJ : WobjExists(s, w) <=> ObjectExists(w)
  BY CurExists
<1> HIDE DEF s, c
<1>5. ASSUME NEW k \in OBJKIND
      PROVE  /\ NoDuplicates(free_cb[k])
             /\ ToSet(free_cb[k]) = {w \in ToSet(dynamic_obj[k]) : ~ObjectExists(w)}
  <2> DEFINE D == ToSet(dynamic_obj[k])
  <2>1. Lists(free_cb[k], {w \in D : ~WobjExists(s, w)}, WOBJ)
    BY <1>1, <1>2 DEF FreeOK
  <2>2. D \subseteq WOBJ
    BY <1>2, <1>3 DEF KindsApart
  <2> HIDE DEF D
  <2>3. {w \in D : ~WobjExists(s, w)} = {w \in D : ~ObjectExists(w)}
    BY <1>4, <2>2
  <2>4. NoDuplicates(free_cb[k]) /\ ToSet(free_cb[k]) = {w \in D : ~ObjectExists(w)}
    BY <2>1, <2>3, ListsEach
  <2> QED BY <2>4 DEF D
<1>6. \A t \in TSK : TSTAT_WAIT_WOBJ(tcb[t].tstat) => ObjectExists(tcb[t].p_wobjcb)
  BY <1>1, <1>2, <1>4 DEF TaskOK, WobjExists
<1> QED BY <1>5, <1>6 DEF ObjectFreeListsOK

(* The ready queues, the task that should run and the task that runs agree *)
(* with the states of the tasks (SchedulerOK), whatever the tasks, objects *)
(* and calls of the application.                                           *)
THEOREM SchedulerCorrect ==
    ASSUME NoActiveCreation
    PROVE  Spec => []SchedulerOK
<1>1. IInv => SchedulerOK
  BY ReadyQueues, Chosen DEF SchedulerOK, RunsSchedtsk, IInv
<1> QED BY <1>1, Consistent, PTL

(* While dispatching is disabled no step takes the processor from the task *)
(* that runs (NoSwitchWhileDisabled): no call, no timeout and no interrupt *)
(* that ends another task's wait.                                          *)
THEOREM RunningTaskUndisturbed ==
    ASSUME NoActiveCreation
    PROVE  Spec => NoSwitchWhileDisabled
<1>1. IInv /\ [Next]_vars => [~dspflg /\ ~dspflg' => p_runtsk' = p_runtsk]_vars
  BY StepKept DEF StepOK
<1> QED BY <1>1, Consistent, PTL DEF Spec, NoSwitchWhileDisabled

(* Every wait queue holds exactly the tasks that wait in it, each once and *)
(* in the order its attribute asks for (WaitQueueOK).                      *)
THEOREM WaitQueuesCorrect ==
    ASSUME NoActiveCreation
    PROVE  Spec => []WaitQueueOK
BY WaitQueues, Consistent, PTL

(* The time event and the wait information of a task fit its state         *)
(* (WaitInfoOK): no time event outlives its wait.                          *)
THEOREM WaitInfoCorrect ==
    ASSUME NoActiveCreation
    PROVE  Spec => []WaitInfoOK
BY TaskStates, Consistent, PTL

(* A task that is requested to terminate can run, and once it allows its   *)
(* termination only a disabled dispatch delays it (TerminationRequestOK).  *)
THEOREM TerminationRequestsServed ==
    ASSUME NoActiveCreation
    PROVE  Spec => []TerminationRequestOK
BY TaskStates, Consistent, PTL

(* The list of mutexes of a task and the owners of the mutexes agree, and  *)
(* a mutex that is free or does not exist has no waiters (MutexOK): no     *)
(* release, deletion or initialization of a mutex and no end of a task     *)
(* loses a wakeup.                                                         *)
THEOREM MutexesCorrect ==
    ASSUME NoActiveCreation
    PROVE  Spec => []MutexOK
BY HeldMutexes, Consistent, PTL

(* A task runs at the higher of its base priority and the ceilings of the  *)
(* mutexes it holds, and its base priority is above none of them, nor      *)
(* above the ceiling of the mutex it waits for (CeilingOK): whatever       *)
(* locks, unlocks, deletes or initializes mutexes, ends a task or changes  *)
(* a priority.                                                             *)
THEOREM CeilingsCorrect ==
    ASSUME NoActiveCreation
    PROVE  Spec => []CeilingOK
BY Ceilings, Consistent, PTL

(* A task that locks a free mutex is still the task that should run        *)
(* (LockerStaysScheduled): its priority only rises, and no other call      *)
(* gives a free mutex an owner.                                            *)
THEOREM LockerScheduled ==
    ASSUME NoActiveCreation
    PROVE  Spec => LockerStaysScheduled
<1> DEFINE A == \A m \in MTX : mtx[m].p_loctsk = NULL /\ mtx'[m].p_loctsk # NULL =>
                               p_schedtsk' = p_runtsk'
<1>1. IInv /\ [Next]_vars => A
  <2> SUFFICES ASSUME IInv, [Next]_vars PROVE A
    OBVIOUS
  <2>1. StepOK
    BY StepKept
  <2>2. CASE ~excpt'
    BY <2>1, <2>2 DEF StepOK, IInv
  <2>3. CASE excpt'
    <3>1. NoNewOwner(Cur, Cur')
      BY <2>1, <2>3 DEF StepOK
    <3>2. Cur.mtx = mtx /\ Cur'.mtx = mtx'
      BY DEF Cur
    <3> QED BY <3>1, <3>2 DEF NoNewOwner
  <2> QED BY <2>2, <2>3
<1> QED BY <1>1, Consistent, PTL DEF Spec, LockerStaysScheduled

(* The lists of free control blocks hold each block of a task or mutex     *)
(* that does not exist once, and nothing refers to such a task             *)
(* (FreeListsOK): no id is given out twice or lost.                        *)
THEOREM FreeListsCorrect ==
    ASSUME NoActiveCreation
    PROVE  Spec => []FreeListsOK
BY FreeLists, Consistent, PTL

(* The same for the control blocks of the other objects, and a task waits  *)
(* only for an object that exists (ObjectFreeListsOK): a deletion releases *)
(* every task that waits.                                                  *)
THEOREM ObjectFreeListsCorrect ==
    ASSUME NoActiveCreation
    PROVE  Spec => []ObjectFreeListsOK
BY ObjectFreeLists, Consistent, PTL

=============================================================================
