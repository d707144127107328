---------------------------- MODULE MutexProofs -----------------------------
(***************************************************************************)
(* The mutexes of the kernel implement the lock service, and hand over as  *)
(* they should, for every application that creates no active task.         *)
(*                                                                         *)
(* Most operations leave the mutexes and their wait queues alone, whatever *)
(* state they begin in (Still).  What the others do to who owns a mutex    *)
(* and who waits for it has one of a few forms (Taken, Joined, Left,       *)
(* PassedOn, Wiped), each with a lemma that such a step is one of the lock *)
(* service and hands over as it should; then comes one lemma per call, the *)
(* steps of the kernel, its start, and the theorems.                       *)
(***************************************************************************)
EXTENDS KernelProofs

Framed(s) == HasFields(s, KernelField) /\ HasFields(s.wobj, WOBJ)

(* From s to r no mutex, and no wait queue of one, changes.                *)
Still(s, r) ==
    Framed(s) => /\ Framed(r)
                 /\ r.mtx = s.mtx
                 /\ \A m \in MTX : r.wobj[m] = s.wobj[m]

LEMMA StillSelf == ASSUME NEW s PROVE Still(s, s)
BY DEF Still

LEMMA StillTrans ==
    ASSUME NEW s, NEW r, NEW n, Still(s, r), Still(r, n)
    PROVE  Still(s, n)
BY DEF Still

(* A state that differs in neither mutexes nor objects.                    *)
LEMMA StillBeside ==
    ASSUME NEW s, NEW r, HasFields(s, KernelField) => HasFields(r, KernelField),
           HasFields(s, KernelField) => r.mtx = s.mtx /\ r.wobj = s.wobj
    PROVE  Still(s, r)
BY DEF Still, Framed

(* An object that is no mutex changes.                                     *)
LEMMA StillObject ==
    ASSUME NEW s, NEW w, w \notin MTX, NEW v
    PROVE  Still(s, [s EXCEPT !.wobj[w] = v])
BY Mutexes DEF Still, Framed, HasFields, KernelField

LEMMA StillQueue ==
    ASSUME NEW s, NEW w, w \notin MTX, NEW f, NEW q
    PROVE  Still(s, [s EXCEPT !.wobj[w][f] = q])
BY Mutexes DEF Still, Framed, HasFields, KernelField

LEMMA make_runnable_still ==
    ASSUME NEW s, NEW t
    PROVE  Still(s, make_runnable(s, t))
BY DEF make_runnable, Still, Framed, HasFields, KernelField

LEMMA make_non_runnable_still ==
    ASSUME NEW s, NEW t
    PROVE  Still(s, make_non_runnable(s, t))
BY ZenonT(60) DEF make_non_runnable, Still, Framed, HasFields, KernelField

LEMMA make_dormant_still ==
    ASSUME NEW s, NEW t
    PROVE  Still(s, make_dormant(s, t))
BY DEF make_dormant, Still, Framed, HasFields, KernelField

LEMMA set_tstat_still ==
    ASSUME NEW s, NEW t, NEW tstat
    PROVE  Still(s, [s EXCEPT !.tcb[t].tstat = tstat])
BY DEF Still, Framed, HasFields, KernelField

LEMMA make_active_still ==
    ASSUME NEW s, NEW t
    PROVE  Still(s, make_active(s, t))
BY set_tstat_still, make_runnable_still, StillTrans DEF make_active

LEMMA rotate_ready_queue_still ==
    ASSUME NEW s, NEW pri
    PROVE  Still(s, rotate_ready_queue(s, pri))
BY DEF rotate_ready_queue, Still, Framed, HasFields, KernelField

LEMMA make_wait_still ==
    ASSUME NEW s, NEW tstat
    PROVE  Still(s, make_wait(s, tstat))
<1> DEFINE t == s.p_runtsk
           a == [s EXCEPT !.tcb[t].tstat = tstat]
           b == make_non_runnable(a, t)
<1>1. Still(s, b)
  BY set_tstat_still, make_non_runnable_still, StillTrans
<1>2. make_wait(s, tstat) = [b EXCEPT !.tcb[t].winfo = "no_tmevtb", !.tcb[t].insvc = TRUE]
  BY DEF make_wait
<1> HIDE DEF b, t
<1>3. Still(b, make_wait(s, tstat))
  BY <1>2 DEF Still, Framed, HasFields, KernelField
<1> QED BY <1>1, <1>3, StillTrans

LEMMA make_wait_tmout_still ==
    ASSUME NEW s, NEW tstat, NEW tmout
    PROVE  Still(s, make_wait_tmout(s, tstat, tmout))
<1> DEFINE t == s.p_runtsk
           b == make_wait(s, tstat)
<1>1. Still(s, b)
  BY make_wait_still
<1>2. make_wait_tmout(s, tstat, tmout) =
         IF tmout = "TMO_FEVR" THEN b
         ELSE [b EXCEPT !.tcb[t].winfo = "tmevtb", !.tmevtb[t] = "wait_tmout"]
  BY DEF make_wait_tmout
<1> HIDE DEF b, t
<1>3. Still(b, make_wait_tmout(s, tstat, tmout))
  BY ZenonT(60), <1>2 DEF Still, Framed, HasFields, KernelField
<1> QED BY <1>1, <1>3, StillTrans

LEMMA make_non_wait_still ==
    ASSUME NEW s, NEW t
    PROVE  Still(s, make_non_wait(s, t))
BY set_tstat_still, make_runnable_still, StillTrans DEF make_non_wait

LEMMA wait_dequeue_tmevtb_still ==
    ASSUME NEW s, NEW t
    PROVE  Still(s, wait_dequeue_tmevtb(s, t))
BY DEF wait_dequeue_tmevtb, Still, Framed, HasFields, KernelField

LEMMA set_wercd_still ==
    ASSUME NEW s, NEW t, NEW e
    PROVE  Still(s, set_wercd(s, t, e))
BY DEF set_wercd, Still, Framed, HasFields, KernelField

LEMMA end_wait_still ==
    ASSUME NEW s, NEW t, NEW e
    PROVE  Still(s, make_non_wait(set_wercd(wait_dequeue_tmevtb(s, t), t, e), t))
BY wait_dequeue_tmevtb_still, set_wercd_still, make_non_wait_still, StillTrans

LEMMA wait_complete_still ==
    ASSUME NEW s, NEW t
    PROVE  Still(s, wait_complete(s, t))
BY end_wait_still DEF wait_complete

LEMMA wobj_queue_insert_still ==
    ASSUME NEW s, NEW w, w \notin MTX
    PROVE  Still(s, wobj_queue_insert(s, w))
<1> DEFINE t == s.p_runtsk
           r == [s EXCEPT !.tcb[t].p_wobjcb = w]
           n == wobj_queue_insert(s, w)
<1>1. Still(s, r)
  BY DEF Still, Framed, HasFields, KernelField
<1>2. \E q : n = [r EXCEPT !.wobj[w].wait_queue = q]
  BY DEF wobj_queue_insert
<1>3. PICK q : n = [r EXCEPT !.wobj[w].wait_queue = q]
  BY <1>2
<1> HIDE DEF n, r, t
<1>4. Still(r, n)
  BY <1>3, Mutexes DEF Still, Framed, HasFields, KernelField
<1>5. Still(s, n)
  BY <1>1, <1>4, StillTrans
<1> QED BY <1>5 DEF n

LEMMA wobj_make_wait_still ==
    ASSUME NEW s, NEW tstat, NEW w, w \notin MTX
    PROVE  Still(s, wobj_make_wait(s, tstat, w))
BY make_wait_still, wobj_queue_insert_still, StillTrans DEF wobj_make_wait

LEMMA wobj_make_wait_tmout_still ==
    ASSUME NEW s, NEW tstat, NEW w, w \notin MTX, NEW tmout
    PROVE  Still(s, wobj_make_wait_tmout(s, tstat, w, tmout))
BY make_wait_tmout_still, wobj_queue_insert_still, StillTrans DEF wobj_make_wait_tmout

LEMMA make_wait_receive_still ==
    ASSUME NEW s, NEW tstat, NEW w, w \notin MTX, NEW tmout
    PROVE  Still(s, make_wait_receive(s, tstat, w, tmout))
<1> DEFINE t == s.p_runtsk
           b == make_wait_tmout(s, tstat, tmout)
           n == make_wait_receive(s, tstat, w, tmout)
<1>1. Still(s, b)
  BY make_wait_tmout_still
<1>2. n = [b EXCEPT !.wobj[w].rwait_queue = queue_insert_prev(@, t), !.tcb[t].p_wobjcb = w]
  BY DEF make_wait_receive
<1> HIDE DEF b, t, n
<1>3. Still(b, n)
  BY <1>2, Mutexes DEF Still, Framed, HasFields, KernelField
<1>4. Still(s, n)
  BY <1>1, <1>3, StillTrans
<1> QED BY <1>4 DEF n

LEMMA dispatch_still ==
    ASSUME NEW s
    PROVE  /\ Still(s, dispatcher(s)) /\ Still(s, dispatch(s))
           /\ Still(s, dispatch_or_request(s))
BY DEF dispatcher, dispatch, dispatch_or_request, Still, Framed, HasFields, KernelField

LEMMA clear_if_clr_still ==
    ASSUME NEW s, NEW w
    PROVE  Still(s, clear_if_clr(s, w))
BY DEF clear_if_clr, Still, Framed, HasFields, KernelField

LEMMA flg_release_still ==
    ASSUME NEW s, NEW w, w \notin MTX, NEW t
    PROVE  Still(s, flg_release(s, w, t))
<1> DEFINE v   == s.flg[w].flgptn
           met == [s EXCEPT !.tcb[t].wobjdata.waiptn = v,
                            !.wobj[w].wait_queue     = queue_delete(@, t)]
           a   == clear_if_clr(met, w)
           r   == flg_release(s, w, t)
<1>1. r = wait_complete(a, t)
  BY DEF flg_release
<1>2. Still(s, met)
  <2> HIDE DEF v
  <2> QED BY Mutexes DEF Still, Framed, HasFields, KernelField
<1> HIDE DEF met
<1>3. Still(met, a)
  BY clear_if_clr_still
<1> HIDE DEF a, r
<1>4. Still(a, r)
  BY <1>1, wait_complete_still
<1>5. Still(s, r)
  BY <1>2, <1>3, <1>4, StillTrans
<1> QED BY <1>5 DEF r

LEMMA set_flg_loop_still ==
    ASSUME NEW s, NEW E, Inv(s, {}, E), NEW w \in WOBJ, w \notin MTX
    PROVE  Still(s, set_flg_loop(s, w))
<1> DEFINE q == s.wobj[w].wait_queue
           turns == Len(q)
           after[n \in 0 .. turns] ==
               IF n = 0 THEN s ELSE set_flg_next(s, w, after[n - 1], n)
<1>1. turns \in Nat
  BY DEF Inv, WaitOK, QUEUE, Lists
<1>2. after = [n \in 0 .. turns |-> IF n = 0 THEN s ELSE set_flg_next(s, w, after[n - 1], n)]
  <2>1. Turned(s, w, turns)
    BY <1>1, set_flg_loop_defined
  <2> QED BY <2>1 DEF after, Turned
<1>3. set_flg_loop(s, w) = after[turns]
  BY DEF set_flg_loop, set_flg_next
<1> HIDE DEF after
<1> DEFINE Holds(n) == Still(s, after[n])
           S == {n \in 0 .. turns : ~Holds(n)}
           k == Min(S)
<1>4. Holds(0)
  BY <1>1, <1>2, StillSelf
<1>5. ASSUME NEW n \in 1 .. turns, Holds(n - 1)
      PROVE  Holds(n)
  <2> DEFINE a == after[n - 1]
             r == after[n]
  <2>1. n \in 0 .. turns /\ n # 0
    BY <1>1
  <2>2. r = set_flg_next(s, w, a, n)
    BY <1>2, <2>1
  <2>3. Still(s, a)
    BY <1>5
  <2> HIDE DEF a, r
  <2>4. r = a \/ r = flg_release(a, w, q[n])
    BY <2>2 DEF set_flg_next
  <2>5. Still(a, r)
    BY <2>4, flg_release_still, StillSelf
  <2>6. Still(s, r)
    BY <2>3, <2>5, StillTrans
  <2> QED BY <2>6 DEF r
<1> HIDE DEF Holds
<1>6. \A n \in 0 .. turns : Holds(n)
  <2> SUFFICES ASSUME S # {} PROVE FALSE
    OBVIOUS
  <2>0. S \in SUBSET Nat
    <3> HIDE DEF turns
    <3> QED BY <1>1
  <2>1. k \in S /\ \A y \in S : k <= y
    BY <2>0, LeastOf
  <2> HIDE DEF k
  <2>2. k # 0
    BY <1>4, <2>1
  <2>3. k \in 1 .. turns /\ k - 1 \in 0 .. turns /\ ~(k <= k - 1)
    BY <1>1, <2>1, <2>2
  <2>4. Holds(k - 1)
    BY <2>1, <2>3
  <2> QED BY <1>5, <2>1, <2>3, <2>4
<1>7. Holds(turns)
  BY <1>1, <1>6
<1> QED BY <1>3, <1>7 DEF Holds

(* An object that is no mutex ends the waits for it.                       *)
LEMMA DrainedStill ==
    ASSUME NEW s, NEW E, Inv(s, {}, E), NEW w \in WOBJ, w \notin MTX, NEW f \in QUEUE
    PROVE  Still(s, init_wait_queue(s, w, f))
<1> DEFINE r == init_wait_queue(s, w, f)
<1>1. Inv(r, {}, E) /\ Drains(s, r, w, f)
  BY init_wait_queue_inv
<1> HIDE DEF r
<1>2. WellFormed(s) /\ WellFormed(r)
  BY <1>1 DEF Inv
<1>3. r.mtx = s.mtx
  BY <1>1 DEF Drains, Keeps, KeepsLocks
<1>4. \A m \in MTX : r.wobj[m].wobjatr = s.wobj[m].wobjatr
  BY <1>1, Mutexes DEF Drains, Keeps, KeepsLocks, Passes
<1>5. \A m \in MTX, g \in QUEUE : r.wobj[m][g] = s.wobj[m][g]
  BY <1>1, Mutexes DEF Drains
<1>6. ASSUME NEW m \in MTX PROVE r.wobj[m] = s.wobj[m]
  <2>1. HasFields(r.wobj[m], WobjField) /\ HasFields(s.wobj[m], WobjField)
    BY <1>2, Mutexes DEF WellFormed
  <2>2. \A g \in WobjField : r.wobj[m][g] = s.wobj[m][g]
    BY <1>4, <1>5 DEF WobjField, QUEUE
  <2> QED BY <2>1, <2>2 DEF HasFields
<1>7. Still(s, r)
  BY <1>2, <1>3, <1>6 DEF Still, Framed, WellFormed
<1> QED BY <1>7 DEF r

LEMMA DrainedBothStill ==
    ASSUME NEW s, NEW E, Inv(s, {}, E), NEW w \in WOBJ, w \notin MTX
    PROVE  Still(s, init_wait_queues(s, w))
<1> DEFINE f == "wait_queue"
           g == "rwait_queue"
           a == init_wait_queue(s, w, f)
<1>1. f \in QUEUE /\ g \in QUEUE
  BY DEF QUEUE
<1>2. init_wait_queues(s, w) = init_wait_queue(a, w, g)
  BY DEF init_wait_queues
<1> HIDE DEF f, g
<1>3. Still(s, a) /\ Inv(a, {}, E)
  BY <1>1, DrainedStill, init_wait_queue_inv
<1> HIDE DEF a
<1>4. Still(a, init_wait_queue(a, w, g))
  BY <1>1, <1>3, DrainedStill
<1> QED BY <1>2, <1>3, <1>4, StillTrans

-----------------------------------------------------------------------------
(* Steps that leave the mutexes and their wait queues as they are.         *)

MutexesStill == mtx' = mtx /\ \A m \in MTX : wobj'[m] = wobj[m]

LEMMA CurFramed == ASSUME IInv PROVE Framed(Cur) /\ Inv(Cur, {}, Ends(Cur))
BY DEF IInv, KInv, Inv, WellFormed, Framed

LEMMA Stood ==
    ASSUME IInv, NEW r, Still(Cur, r), Become(r)
    PROVE  MutexesStill
BY CurFramed, CurFields DEF Still, Become, MutexesStill

LEMMA StoodThen ==
    ASSUME IInv, NEW r, Still(Cur, r),
           Become(dispatch(r)) \/ Become(dispatcher(r)) \/ Become(dispatch_or_request(r))
    PROVE  MutexesStill
BY Stood, dispatch_still, StillTrans

LEMMA NoMutex ==
    ASSUME NEW w, w \in SEM \cup FLG \cup DTQ \cup PDQ \cup MPF
    PROVE  w \notin MTX /\ w \in WOBJ
BY TaskOpsAssumption

(* A new object gets the control block of its own kind.                    *)
LEMMA CreatedStill ==
    ASSUME IInv, NEW k \in OBJKIND, NEW atr, free_cb[k] # <<>>
    PROVE  Still(Cur, create_wobj(k, atr))
<1> DEFINE w == Head(free_cb[k])
           v == new_wobj(atr)
           r == create_wobj(k, atr)
<1>1. w \notin MTX
  <2>1. Lists(free_cb[k], {x \in ToSet(CONFIG[app].dynamic_obj[k]) : ~WobjExists(Cur, x)}, WOBJ)
    BY CurFields DEF IInv, KInv, FreeOK
  <2>2. ToSet(CONFIG[app].dynamic_obj[k]) \subseteq WOBJ \ MTX
    BY ConfigKinds DEF IInv, KindsApart
  <2>3. w \in {x \in ToSet(CONFIG[app].dynamic_obj[k]) : ~WobjExists(Cur, x)}
    BY <2>1, ListsEmpty
  <2> QED BY <2>2, <2>3
<1>2. r = [Cur EXCEPT !.free_cb[k] = Tail(@), !.wobj[w] = v]
  BY DEF create_wobj
<1> HIDE DEF w, v, r
<1>3. Still(Cur, r)
  BY <1>1, <1>2, Mutexes DEF Still, Framed, HasFields, KernelField
<1> QED BY <1>3 DEF r

LEMMA DeletedStill ==
    ASSUME IInv, NEW w, w \in SEM \cup FLG \cup DTQ \cup PDQ \cup MPF, NEW k
    PROVE  Still(Cur, delete_wobj(k, w))
<1> DEFINE a == init_wait_queues(Cur, w)
           r == delete_wobj(k, w)
<1>1. Still(Cur, a)
  BY CurFramed, NoMutex, DrainedBothStill
<1>2. r = [a EXCEPT !.wobj[w].wobjatr = {"TA_NOEXS"},
                    !.free_cb[k] = queue_insert_prev(@, w)]
  BY DEF delete_wobj
<1> HIDE DEF a, r
<1>3. Still(a, r)
  BY <1>2, NoMutex, Mutexes DEF Still, Framed, HasFields, KernelField
<1>4. Still(Cur, r)
  BY <1>1, <1>3, StillTrans
<1> QED BY <1>4 DEF r

(* The data of the objects, what a call returns, and what a task keeps on  *)
(* its stack.                                                              *)
LEMMA DataEditStill ==
    ASSUME NEW s, NEW r, DataEdit(s, s) => DataEdit(s, r)
    PROVE  Still(s, r)
<1>1. ASSUME HasFields(s, KernelField)
      PROVE  HasFields(r, KernelField) /\ r.mtx = s.mtx /\ r.wobj = s.wobj
  <2>1. DataEdit(s, r)
    BY <1>1 DEF DataEdit, Agree
  <2> QED BY <2>1 DEF DataEdit, Agree, KernelField, DataField
<1> QED BY <1>1, StillBeside

LEMMA DataStill ==
    ASSUME NEW s, NEW w, NEW v
    PROVE  /\ Still(s, [s EXCEPT !.sem[w] = v]) /\ Still(s, [s EXCEPT !.flg[w] = v])
           /\ Still(s, [s EXCEPT !.dtq[w] = v]) /\ Still(s, [s EXCEPT !.pdq[w] = v])
           /\ Still(s, [s EXCEPT !.mpf[w] = v]) /\ Still(s, [s EXCEPT !.out = v])
           /\ Still(s, [s EXCEPT !.sem[w].semcnt = v])
           /\ Still(s, [s EXCEPT !.flg[w].flgptn = v])
           /\ Still(s, [s EXCEPT !.tcb[w].wobjdata = v])
           /\ Still(s, [s EXCEPT !.tcb[w].prelock = v])
BY ZenonT(60) DEF Still, Framed, HasFields, KernelField

(* A task leaves the queue of an object and is given v, and its wait ends. *)
LEMMA GivenStill ==
    ASSUME NEW s, NEW w, w \notin MTX, NEW q, NEW t, NEW v
    PROVE  /\ Still(s, [s EXCEPT !.wobj[w].wait_queue = q, !.tcb[t].wobjdata = v])
           /\ Still(s, [s EXCEPT !.wobj[w].rwait_queue = q, !.tcb[t].wobjdata = v])
BY Mutexes DEF Still, Framed, HasFields, KernelField

LEMMA CreatedStood ==
    ASSUME IInv, NEW k \in OBJKIND, NEW call, CanCreate(call, k), NEW atr, NEW r,
           Still(create_wobj(k, atr), r), Become(r)
    PROVE  MutexesStill
BY CreatedStill, Stood, StillTrans DEF CanCreate

LEMMA DeletedStood ==
    ASSUME IInv, NEW w, w \in SEM \cup FLG \cup DTQ \cup PDQ \cup MPF, NEW k,
           Become(dispatch(delete_wobj(k, w)))
    PROVE  MutexesStill
BY DeletedStill, StoodThen

LEMMA TakenStood ==
    ASSUME IInv, NEW w, w \in SEM \cup FLG \cup DTQ \cup PDQ \cup MPF, NEW q, NEW t,
           Become(dispatch_or_request(
                     wait_complete([Cur EXCEPT !.wobj[w].wait_queue = q], t)))
    PROVE  MutexesStill
<1> DEFINE a == [Cur EXCEPT !.wobj[w].wait_queue = q]
           b == wait_complete(a, t)
<1>1. Still(Cur, a)
  BY NoMutex, StillQueue
<1> HIDE DEF a
<1>2. Still(a, b)
  BY wait_complete_still
<1>3. Become(dispatch_or_request(b))
  BY DEF a
<1> HIDE DEF b
<1> QED BY <1>1, <1>2, <1>3, StillTrans, StoodThen

LEMMA WaitStood ==
    ASSUME IInv, NEW w, w \in SEM \cup FLG \cup DTQ \cup PDQ \cup MPF, NEW tstat, NEW s,
           Still(Cur, s), NEW tmout,
           \/ Become(dispatch(wobj_make_wait(s, tstat, w)))
           \/ Become(dispatch(wobj_make_wait_tmout(s, tstat, w, tmout)))
    PROVE  MutexesStill
BY NoMutex, wobj_make_wait_still, wobj_make_wait_tmout_still, StillTrans, StoodThen

LEMMA SemaphoreStill ==
    ASSUME IInv, SemaphoreNext
    PROVE  MutexesStill
<1>1. ASSUME NEW atr, NEW i, NEW max, acre_sem(atr, i, max)
      PROVE  MutexesStill
  <2>1. "SEM" \in OBJKIND
    BY DEF OBJKIND
  <2> DEFINE a == create_wobj("SEM", atr)
             w == Head(free_cb["SEM"])
             v == [semcnt |-> i, isemcnt |-> i, maxsem |-> max]
             r == [a EXCEPT !.sem[w] = v]
  <2>2. CanCreate("acre_sem", "SEM") /\ Become(r)
    BY <1>1 DEF acre_sem
  <2> HIDE DEF a, w, v
  <2>3. Still(a, r)
    BY DataStill
  <2> HIDE DEF r
  <2> QED BY <2>1, <2>2, <2>3, CreatedStood DEF a
<1> SUFFICES ASSUME NEW w \in SEM,
                    del_sem(w) \/ sig_sem(w) \/ wai_sem(w) \/ pol_sem(w) \/ twai_sem(w)
                    \/ ini_sem(w)
             PROVE  MutexesStill
  BY <1>1 DEF SemaphoreNext
<1>2. CASE del_sem(w)
  BY <1>2, DeletedStood DEF del_sem
<1>3. CASE sig_sem(w)
  BY <1>3, TakenStood, DataStill, Stood DEF sig_sem
<1>4. CASE wai_sem(w)
  BY <1>4, WaitStood, StillSelf, DataStill, Stood DEF wai_sem, Acquire
<1>5. CASE pol_sem(w)
  BY <1>5, DataStill, Stood DEF pol_sem, Acquire
<1>6. CASE twai_sem(w)
  BY <1>6, WaitStood, StillSelf, DataStill, Stood DEF twai_sem, Acquire
<1>7. CASE ini_sem(w)
  <2> DEFINE f == "wait_queue"
             a == init_wait_queue(Cur, w, f)
  <2>1. f \in QUEUE
    BY DEF QUEUE
  <2>2. \E v : Become(dispatch([a EXCEPT !.sem[w].semcnt = v]))
    BY <1>7 DEF ini_sem
  <2> HIDE DEF f
  <2>3. Still(Cur, a)
    BY <2>1, CurFramed, NoMutex, DrainedStill
  <2> HIDE DEF a
  <2>4. PICK v : Become(dispatch([a EXCEPT !.sem[w].semcnt = v]))
    BY <2>2
  <2>5. Still(a, [a EXCEPT !.sem[w].semcnt = v])
    BY DataStill
  <2> QED BY <2>3, <2>4, <2>5, StillTrans, StoodThen
<1> QED BY <1>2, <1>3, <1>4, <1>5, <1>6, <1>7

LEMMA EventFlagStill ==
    ASSUME IInv, EventFlagNext
    PROVE  MutexesStill
<1>1. ASSUME NEW atr, NEW ptn, acre_flg(atr, ptn)
      PROVE  MutexesStill
  <2>1. "FLG" \in OBJKIND
    BY DEF OBJKIND
  <2>2. CASE free_cb["FLG"] = <<>>
    BY <1>1, <2>2, StillSelf, Stood DEF acre_flg
  <2>3. CASE free_cb["FLG"] # <<>>
    <3> DEFINE a == create_wobj("FLG", atr)
               w == Head(free_cb["FLG"])
               v == [flgptn |-> ptn, iflgptn |-> ptn]
               r == [a EXCEPT !.flg[w] = v]
    <3>1. Become(r)
      BY <1>1, <2>3 DEF acre_flg
    <3>2. Still(Cur, a)
      BY <2>1, <2>3, CreatedStill
    <3> HIDE DEF a, w, v
    <3>3. Still(a, r)
      BY DataStill
    <3> HIDE DEF r
    <3> QED BY <3>1, <3>2, <3>3, StillTrans, Stood
  <2> QED BY <2>2, <2>3
<1>2. ASSUME NEW w \in FLG, NEW ptn, set_flg(w, ptn)
      PROVE  MutexesStill
  <2> DEFINE v == Cur.flg[w].flgptn \cup ptn
             a == [Cur EXCEPT !.flg[w].flgptn = v]
             r == set_flg_loop(a, w)
  <2>1. Become(dispatch_or_request(r))
    BY <1>2 DEF set_flg
  <2>2. w \in WOBJ /\ w \notin MTX
    BY NoMutex
  <2> HIDE DEF v
  <2>3. Still(Cur, a)
    BY DataStill
  <2>4. Inv(a, {}, Ends(Cur))
    <3>1. DataEdit(Cur, a)
      BY CurData, SetFlg
    <3> HIDE DEF a
    <3> QED BY <3>1, CurFramed, DataInv DEF DataEdit
  <2> HIDE DEF a
  <2>5. Still(a, r)
    BY <2>2, <2>4, set_flg_loop_still
  <2> HIDE DEF r
  <2> QED BY <2>1, <2>3, <2>5, StillTrans, StoodThen
<1>3. ASSUME NEW w, NEW ptn, clr_flg(w, ptn)
      PROVE  MutexesStill
  BY <1>3, DataStill, Stood DEF clr_flg
<1>4. ASSUME NEW w, NEW ptn, NEW mode, Met(w, ptn, mode)
      PROVE  MutexesStill
  <2> DEFINE a == clear_if_clr(Cur, w)
  <2>1. PICK v : Become([a EXCEPT !.out = v])
    BY <1>4 DEF Met
  <2>2. Still(Cur, a)
    BY clear_if_clr_still
  <2> HIDE DEF a
  <2>3. Still(a, [a EXCEPT !.out = v])
    BY DataStill
  <2> QED BY <2>1, <2>2, <2>3, StillTrans, Stood
<1>5. ASSUME NEW w \in FLG, NEW ptn, NEW mode,
             wai_flg(w, ptn, mode) \/ pol_flg(w, ptn, mode) \/ twai_flg(w, ptn, mode)
      PROVE  MutexesStill
  <2> DEFINE t == p_runtsk
             v == [waiptn |-> ptn, wfmode |-> mode]
             a == [Cur EXCEPT !.tcb[t].wobjdata = v]
  <2>1. \/ Met(w, ptn, mode)
        \/ Become(dispatch(wobj_make_wait(a, TS_WAITING_FLG, w)))
        \/ Become(dispatch(wobj_make_wait_tmout(a, TS_WAITING_FLG, w, "finite")))
    BY <1>5 DEF wai_flg, pol_flg, twai_flg
  <2> HIDE DEF t, v
  <2>2. Still(Cur, a)
    BY DataStill
  <2> HIDE DEF a
  <2> QED BY <1>4, <2>1, <2>2, WaitStood
<1>6. ASSUME NEW w \in FLG, del_flg(w) \/ ini_flg(w)
      PROVE  MutexesStill
  <2>1. CASE del_flg(w)
    BY <2>1, DeletedStood DEF del_flg
  <2>2. CASE ini_flg(w)
    <3> DEFINE f == "wait_queue"
               a == init_wait_queue(Cur, w, f)
    <3>1. f \in QUEUE
      BY DEF QUEUE
    <3>2. PICK v : Become(dispatch([a EXCEPT !.flg[w].flgptn = v]))
      BY <2>2 DEF ini_flg
    <3> HIDE DEF f
    <3>3. Still(Cur, a)
      BY <3>1, CurFramed, NoMutex, DrainedStill
    <3> HIDE DEF a
    <3>4. Still(a, [a EXCEPT !.flg[w].flgptn = v])
      BY DataStill
    <3> QED BY <3>2, <3>3, <3>4, StillTrans, StoodThen
  <2> QED BY <1>6, <2>1, <2>2
<1> QED BY <1>1, <1>2, <1>3, <1>5, <1>6 DEF EventFlagNext

-----------------------------------------------------------------------------

LEMMA enqueue_data_still ==
    ASSUME NEW s, NEW w, NEW data
    PROVE  /\ Still(s, enqueue_data(s, w, data)) /\ Still(s, force_enqueue_data(s, w, data))
           /\ Still(s, dequeue_data(s, w))
<1>1. DataEdit(s, s) => /\ DataEdit(s, enqueue_data(s, w, data))
                        /\ DataEdit(s, force_enqueue_data(s, w, data))
                        /\ DataEdit(s, dequeue_data(s, w))
  BY enqueue_data_edit, dequeue_data_edit
<1> QED BY <1>1, DataEditStill

LEMMA send_data_still ==
    ASSUME NEW s, NEW w, w \notin MTX, NEW data
    PROVE  Still(s, send_data(s, w, data)) /\ Still(s, force_send_data(s, w, data))
<1>1. Still(s, hand_over(s, w, data))
  <2> DEFINE t == Head(receivers(s, w))
             q == Tail(s.wobj[w].rwait_queue)
             v == [data |-> data]
             a == [s EXCEPT !.wobj[w].rwait_queue = q, !.tcb[t].wobjdata = v]
  <2>1. hand_over(s, w, data) = wait_complete(a, t)
    BY DEF hand_over
  <2> HIDE DEF t, q, v
  <2>2. Still(s, a)
    BY GivenStill
  <2> HIDE DEF a
  <2> QED BY <2>1, <2>2, wait_complete_still, StillTrans
<1> QED BY <1>1, enqueue_data_still DEF send_data, force_send_data

LEMMA receive_data_still ==
    ASSUME NEW s, NEW w, w \notin MTX
    PROVE  Still(s, receive_data(s, w))
<1> DEFINE t == Head(senders(s, w))
           q == Tail(s.wobj[w].wait_queue)
           a == [s EXCEPT !.wobj[w].wait_queue = q, !.tcb[t].wobjdata = NULL]
           b == dequeue_data(a, w)
           d == enqueue_data(b, w, s.tcb[t].wobjdata.data)
           o == [from |-> w, what |-> s.tcb[t].wobjdata]
           e == [a EXCEPT !.out = o]
           r == receive_data(s, w)
<1>1. \/ r = dequeue_data(s, w) \/ r = wait_complete(d, t) \/ r = wait_complete(e, t)
  BY DEF receive_data
<1> HIDE DEF t, q, r, o
<1>2. Still(s, a)
  BY GivenStill
<1> HIDE DEF a
<1>3. Still(a, b) /\ Still(b, d)
  BY enqueue_data_still
<1>4. Still(a, e)
  BY DataStill
<1> HIDE DEF b, d, e
<1>5. Still(s, r)
  BY <1>1, <1>2, <1>3, <1>4, wait_complete_still, enqueue_data_still, StillTrans
<1> QED BY <1>5 DEF r

LEMMA DataQueueStill ==
    ASSUME IInv, DataQueueNext
    PROVE  MutexesStill
<1>1. ASSUME NEW atr, NEW cnt, acre_dtq(atr, cnt)
      PROVE  MutexesStill
  <2>1. "DTQ" \in OBJKIND
    BY DEF OBJKIND
  <2> DEFINE a == create_wobj("DTQ", atr)
             w == Head(free_cb["DTQ"])
             v == new_dtqcb(cnt)
             r == [a EXCEPT !.dtq[w] = v]
  <2>2. CanCreate("acre_dtq", "DTQ") /\ Become(r)
    BY <1>1 DEF acre_dtq
  <2> HIDE DEF a, w, v
  <2>3. Still(a, r)
    BY DataStill
  <2> HIDE DEF r
  <2> QED BY <2>1, <2>2, <2>3, CreatedStood DEF a
<1>2. ASSUME NEW w \in DTQ, del_dtq(w) \/ ini_dtq(w)
      PROVE  MutexesStill
  <2>1. CASE del_dtq(w)
    BY <2>1, DeletedStood DEF del_dtq
  <2>2. CASE ini_dtq(w)
    <3> DEFINE a == init_wait_queues(Cur, w)
               r == [a EXCEPT !.dtq[w].count = 0, !.dtq[w].head = 0, !.dtq[w].tail = 0]
    <3>1. Become(dispatch(r))
      BY <2>2 DEF ini_dtq
    <3>2. Still(Cur, a)
      BY CurFramed, NoMutex, DrainedBothStill
    <3> HIDE DEF a
    <3>3. DataEdit(a, a) => DataEdit(a, r)
      BY DEF DataEdit, HasFields, KernelField, Agree, DataField
    <3> HIDE DEF r
    <3> QED BY <3>1, <3>2, <3>3, DataEditStill, StillTrans, StoodThen
  <2> QED BY <1>2, <2>1, <2>2
<1>3. ASSUME NEW w \in DTQ, rcv_dtq(w) \/ prcv_dtq(w) \/ trcv_dtq(w)
      PROVE  MutexesStill
  <2>1. w \notin MTX
    BY NoMutex
  <2>2. Still(Cur, receive_data(Cur, w))
    BY <2>1, receive_data_still
  <2>3. \A tmout : Still(Cur, make_wait_receive(Cur, TS_WAITING_RDTQ, w, tmout))
    BY <2>1, make_wait_receive_still
  <2> QED BY <1>3, <2>2, <2>3, StoodThen DEF rcv_dtq, prcv_dtq, trcv_dtq
<1>4. ASSUME NEW w \in DTQ, NEW d,
             \/ snd_dtq(w, d) \/ psnd_dtq(w, d) \/ tsnd_dtq(w, d)
             \/ fsnd_dtq_locked(w, d) \/ fsnd_dtq_handler(w, d)
      PROVE  MutexesStill
  <2>1. w \notin MTX
    BY NoMutex
  <2>2. Still(Cur, send_data(Cur, w, d)) /\ Still(Cur, force_send_data(Cur, w, d))
    BY <2>1, send_data_still
  <2>3. Still(Cur, holding(d))
    BY DataStill DEF holding
  <2>4. \A tmout : /\ Still(Cur, wobj_make_wait(holding(d), TS_WAITING_SDTQ, w))
                   /\ Still(Cur, wobj_make_wait_tmout(holding(d), TS_WAITING_SDTQ, w, tmout))
    BY <2>1, <2>3, wobj_make_wait_still, wobj_make_wait_tmout_still, StillTrans
  <2>5. CASE snd_dtq(w, d) \/ psnd_dtq(w, d) \/ tsnd_dtq(w, d)
    BY <2>2, <2>4, <2>5, StoodThen DEF snd_dtq, psnd_dtq, tsnd_dtq
  <2>6. CASE fsnd_dtq_handler(w, d)
    BY <2>2, <2>6, Stood DEF fsnd_dtq_handler
  <2>7. CASE fsnd_dtq_locked(w, d)
    <3> DEFINE t == p_runtsk
               a == [Cur EXCEPT !.tcb[t].prelock = NULL]
               r == force_send_data(a, w, d)
    <3>1. Become(dispatch(r)) \/ Become(a)
      BY <2>7 DEF fsnd_dtq_locked
    <3> HIDE DEF t
    <3>2. Still(Cur, a)
      BY DataStill
    <3> HIDE DEF a
    <3>3. Still(a, r)
      BY <2>1, send_data_still
    <3> HIDE DEF r
    <3> QED BY <3>1, <3>2, <3>3, StillTrans, Stood, StoodThen
  <2> QED BY <1>4, <2>5, <2>6, <2>7
<1>5. ASSUME NEW w, NEW d, fsnd_dtq(w, d)
      PROVE  MutexesStill
  BY <1>5, DataStill, Stood DEF fsnd_dtq
<1> QED BY <1>1, <1>2, <1>3, <1>4, <1>5 DEF DataQueueNext

LEMMA pridata_still ==
    ASSUME NEW s, NEW w, NEW data, NEW datapri
    PROVE  /\ Still(s, enqueue_pridata(s, w, data, datapri))
           /\ Still(s, dequeue_pridata(s, w))
<1>1. DataEdit(s, s) => /\ DataEdit(s, enqueue_pridata(s, w, data, datapri))
                        /\ DataEdit(s, dequeue_pridata(s, w))
  BY enqueue_pridata_edit, dequeue_pridata_edit
<1> QED BY <1>1, DataEditStill

LEMMA send_pridata_still ==
    ASSUME NEW s, NEW w, w \notin MTX, NEW data, NEW datapri
    PROVE  Still(s, send_pridata(s, w, data, datapri))
<1> DEFINE t == Head(pdq_receivers(s, w))
           q == Tail(s.wobj[w].rwait_queue)
           v == [data |-> data, datapri |-> datapri]
           a == [s EXCEPT !.wobj[w].rwait_queue = q, !.tcb[t].wobjdata = v]
<1>1. \/ send_pridata(s, w, data, datapri) = wait_complete(a, t)
      \/ send_pridata(s, w, data, datapri) = enqueue_pridata(s, w, data, datapri)
  BY DEF send_pridata
<1> HIDE DEF t, q, v
<1>2. Still(s, a)
  BY GivenStill
<1> HIDE DEF a
<1>3. Still(s, wait_complete(a, t))
  BY <1>2, wait_complete_still, StillTrans
<1> QED BY <1>1, <1>3, pridata_still

LEMMA receive_pridata_still ==
    ASSUME NEW s, NEW w, w \notin MTX
    PROVE  Still(s, receive_pridata(s, w))
<1> DEFINE t == Head(pdq_senders(s, w))
           q == Tail(s.wobj[w].wait_queue)
           d == s.tcb[t].wobjdata
           a == [s EXCEPT !.wobj[w].wait_queue = q, !.tcb[t].wobjdata = NULL]
           b == dequeue_pridata(a, w)
           c == enqueue_pridata(b, w, d.data, d.datapri)
           o == [from |-> w, what |-> d]
           e == [a EXCEPT !.out = o]
           r == receive_pridata(s, w)
<1>1. \/ r = dequeue_pridata(s, w) \/ r = wait_complete(c, t) \/ r = wait_complete(e, t)
  BY DEF receive_pridata
<1> HIDE DEF t, q, r, o, d
<1>2. Still(s, a)
  BY GivenStill
<1> HIDE DEF a
<1>3. Still(a, b) /\ Still(b, c)
  BY pridata_still
<1>4. Still(a, e)
  BY DataStill
<1> HIDE DEF b, c, e
<1>5. Still(s, r)
  BY <1>1, <1>2, <1>3, <1>4, wait_complete_still, pridata_still, StillTrans
<1> QED BY <1>5 DEF r

LEMMA PriDataQueueStill ==
    ASSUME IInv, PriDataQueueNext
    PROVE  MutexesStill
<1>1. ASSUME NEW atr, NEW cnt, NEW max, acre_pdq(atr, cnt, max)
      PROVE  MutexesStill
  <2>1. "PDQ" \in OBJKIND
    BY DEF OBJKIND
  <2> DEFINE a == create_wobj("PDQ", atr)
             w == Head(free_cb["PDQ"])
             v == new_pdqcb(cnt, max)
             r == [a EXCEPT !.pdq[w] = v]
  <2>2. CanCreate("acre_pdq", "PDQ") /\ Become(r)
    BY <1>1 DEF acre_pdq
  <2> HIDE DEF a, w, v
  <2>3. Still(a, r)
    BY DataStill
  <2> HIDE DEF r
  <2> QED BY <2>1, <2>2, <2>3, CreatedStood DEF a
<1>2. ASSUME NEW w \in PDQ, del_pdq(w) \/ ini_pdq(w)
      PROVE  MutexesStill
  <2>1. CASE del_pdq(w)
    BY <2>1, DeletedStood DEF del_pdq
  <2>2. CASE ini_pdq(w)
    <3> DEFINE a == init_wait_queues(Cur, w)
               v == [pdq[w] EXCEPT !.count = 0, !.p_head = NULL,
                                   !.unused = 0, !.p_freelist = NULL]
               r == [a EXCEPT !.pdq[w] = v]
    <3>1. Become(dispatch(r))
      BY <2>2 DEF ini_pdq
    <3>2. Still(Cur, a)
      BY CurFramed, NoMutex, DrainedBothStill
    <3> HIDE DEF a, v
    <3>3. Still(a, r)
      BY DataStill
    <3> HIDE DEF r
    <3> QED BY <3>1, <3>2, <3>3, StillTrans, StoodThen
  <2> QED BY <1>2, <2>1, <2>2
<1>3. ASSUME NEW w \in PDQ, rcv_pdq(w) \/ prcv_pdq(w) \/ trcv_pdq(w)
      PROVE  MutexesStill
  <2>1. w \notin MTX
    BY NoMutex
  <2>2. Still(Cur, receive_pridata(Cur, w))
    BY <2>1, receive_pridata_still
  <2>3. \A tmout : Still(Cur, make_wait_receive(Cur, TS_WAITING_RPDQ, w, tmout))
    BY <2>1, make_wait_receive_still
  <2> QED BY <1>3, <2>2, <2>3, StoodThen DEF rcv_pdq, prcv_pdq, trcv_pdq
<1>4. ASSUME NEW w \in PDQ, NEW d, NEW pri,
             snd_pdq(w, d, pri) \/ psnd_pdq(w, d, pri) \/ tsnd_pdq(w, d, pri)
      PROVE  MutexesStill
  <2>1. w \notin MTX
    BY NoMutex
  <2>2. Still(Cur, send_pridata(Cur, w, d, pri))
    BY <2>1, send_pridata_still
  <2>3. Still(Cur, holding_pri(d, pri))
    BY DataStill DEF holding_pri
  <2>4. \A tmout :
           /\ Still(Cur, wobj_make_wait(holding_pri(d, pri), TS_WAITING_SPDQ, w))
           /\ Still(Cur, wobj_make_wait_tmout(holding_pri(d, pri), TS_WAITING_SPDQ, w, tmout))
    BY <2>1, <2>3, wobj_make_wait_still, wobj_make_wait_tmout_still, StillTrans
  <2> QED BY <1>4, <2>2, <2>4, StoodThen DEF snd_pdq, psnd_pdq, tsnd_pdq
<1> QED BY <1>1, <1>2, <1>3, <1>4 DEF PriDataQueueNext

-----------------------------------------------------------------------------

LEMMA TakeBlockStill ==
    ASSUME IInv, NEW w, TakeBlock(w)
    PROVE  MutexesStill
<1> DEFINE s == Cur
           p == s.mpf[w]
           i == free_block(p)
           q == IF p.freelist # INDEX_NULL
                THEN [p EXCEPT !.freelist = p.p_mpfmb[i + 1]]
                ELSE [p EXCEPT !.unused = @ + 1]
           o == [from |-> w, what |-> [blk |-> i]]
           v == [q EXCEPT !.fblkcnt = @ - 1, !.p_mpfmb[i + 1] = INDEX_ALLOC]
           n == [s EXCEPT !.out = o, !.mpf[w] = v]
<1>1. Become(n)
  BY DEF TakeBlock, get_mpf_block
<1> HIDE DEF v, o, s
<1>2. DataEdit(s, s) => DataEdit(s, n)
  BY DEF DataEdit, HasFields, KernelField, Agree, DataField
<1> HIDE DEF n
<1> QED BY <1>1, <1>2, DataEditStill, Stood DEF s

LEMMA MemPoolStill ==
    ASSUME IInv, MemPoolNext
    PROVE  MutexesStill
<1>1. ASSUME NEW atr, NEW cnt, acre_mpf(atr, cnt)
      PROVE  MutexesStill
  <2>1. "MPF" \in OBJKIND
    BY DEF OBJKIND
  <2> DEFINE a == create_wobj("MPF", atr)
             w == Head(free_cb["MPF"])
             v == new_mpfcb(cnt)
             r == [a EXCEPT !.mpf[w] = v]
  <2>2. CanCreate("acre_mpf", "MPF") /\ Become(r)
    BY <1>1 DEF acre_mpf
  <2> HIDE DEF a, w, v
  <2>3. Still(a, r)
    BY DataStill
  <2> HIDE DEF r
  <2> QED BY <2>1, <2>2, <2>3, CreatedStood DEF a
<1>2. ASSUME NEW w \in MPF, del_mpf(w) \/ ini_mpf(w)
      PROVE  MutexesStill
  <2>1. CASE del_mpf(w)
    BY <2>1, DeletedStood DEF del_mpf
  <2>2. CASE ini_mpf(w)
    <3> DEFINE f == "wait_queue"
               a == init_wait_queue(Cur, w, f)
               c == mpf[w].blkcnt
               r == [a EXCEPT !.mpf[w].fblkcnt = c, !.mpf[w].unused = 0,
                              !.mpf[w].freelist = INDEX_NULL]
    <3>1. Become(dispatch(r)) /\ f \in QUEUE
      BY <2>2 DEF ini_mpf, QUEUE
    <3> HIDE DEF f
    <3>2. Still(Cur, a)
      BY <3>1, CurFramed, NoMutex, DrainedStill
    <3> HIDE DEF a, c
    <3>3. DataEdit(a, a) => DataEdit(a, r)
      BY DEF DataEdit, HasFields, KernelField, Agree, DataField
    <3> HIDE DEF r
    <3> QED BY <3>1, <3>2, <3>3, DataEditStill, StillTrans, StoodThen
  <2> QED BY <1>2, <2>1, <2>2
<1>3. ASSUME NEW w \in MPF, get_mpf(w) \/ pget_mpf(w) \/ tget_mpf(w)
      PROVE  MutexesStill
  <2>1. Still(Cur, Cur)
    BY StillSelf
  <2> QED BY <1>3, <2>1, TakeBlockStill, WaitStood DEF get_mpf, pget_mpf, tget_mpf
<1>4. ASSUME NEW w \in MPF, NEW blk, rel_mpf(w, blk)
      PROVE  MutexesStill
  <2> DEFINE q == Tail(wobj[w].wait_queue)
             t == Head(wobj[w].wait_queue)
             v == [blk |-> blk]
             a == [Cur EXCEPT !.wobj[w].wait_queue = q, !.tcb[t].wobjdata = v]
             i == blk + 1
             y == mpf[w].freelist
             r == [Cur EXCEPT !.mpf[w].fblkcnt = @ + 1, !.mpf[w].p_mpfmb[i] = y,
                              !.mpf[w].freelist = blk]
  <2>1. Become(r) \/ Become(dispatch(wait_complete(a, t)))
    BY <1>4 DEF rel_mpf
  <2> HIDE DEF q, t, v, i, y
  <2>2. Still(Cur, a)
    BY NoMutex, GivenStill
  <2>3. Still(Cur, r)
    <3> DEFINE s == Cur
               c == s.mpf[w].fblkcnt + 1
               n1 == [s EXCEPT !.mpf[w].fblkcnt = c]
               n2 == [n1 EXCEPT !.mpf[w].p_mpfmb[i] = y]
               n3 == [n2 EXCEPT !.mpf[w].freelist = blk]
    <3>1. r = n3
      OBVIOUS
    <3> HIDE DEF s, r, c
    <3>2. DataEdit(s, s) => DataEdit(s, n1)
      BY DEF DataEdit, HasFields, KernelField, Agree, DataField
    <3> HIDE DEF n1
    <3>3. DataEdit(s, n1) => DataEdit(s, n2)
      BY DEF DataEdit, HasFields, KernelField, Agree, DataField
    <3> HIDE DEF n2
    <3>4. DataEdit(s, n2) => DataEdit(s, n3)
      BY DEF DataEdit, HasFields, KernelField, Agree, DataField
    <3> HIDE DEF n3
    <3> QED BY <3>1, <3>2, <3>3, <3>4, DataEditStill DEF s
  <2> HIDE DEF a, r
  <2>4. Still(Cur, wait_complete(a, t))
    BY <2>2, wait_complete_still, StillTrans
  <2> QED BY <2>1, <2>3, <2>4, Stood, StoodThen
<1> QED BY <1>1, <1>2, <1>3, <1>4 DEF MemPoolNext

-----------------------------------------------------------------------------
(* Steps of tasks and handlers that have to do with no object.             *)

LEMMA TcbStill ==
    ASSUME NEW s, NEW t, NEW v
    PROVE  /\ Still(s, [s EXCEPT !.tcb[t].actque = v])
           /\ Still(s, [s EXCEPT !.tcb[t].wupque = v])
           /\ Still(s, [s EXCEPT !.tcb[t].raster = v])
           /\ Still(s, [s EXCEPT !.tcb[t].enater = v])
           /\ Still(s, [s EXCEPT !.tcb[t].tstat = v])
           /\ Still(s, [s EXCEPT !.tcb[t] = v])
           /\ Still(s, [s EXCEPT !.tmevtb[t] = v])
BY DEF Still, Framed, HasFields, KernelField

LEMMA UnchangedStill ==
    ASSUME IInv, UNCHANGED kvars
    PROVE  MutexesStill
BY DEF kvars, MutexesStill

LEMMA TaskSyncStill ==
    ASSUME IInv, TaskSyncNext, \A t \in TSK : ~rel_wai(t)
    PROVE  MutexesStill
<1>1. ASSUME NEW tmout, slp_tsk \/ tslp_tsk(tmout)
      PROVE  MutexesStill
  <2>1. Still(Cur, consume_wupque)
    BY TcbStill DEF consume_wupque
  <2>2. /\ Still(Cur, make_wait(Cur, TS_WAITING_SLP))
        /\ Still(Cur, make_wait_tmout(Cur, TS_WAITING_SLP, tmout))
    BY make_wait_still, make_wait_tmout_still
  <2> QED BY <1>1, <2>1, <2>2, Stood, StoodThen DEF slp_tsk, tslp_tsk
<1>2. CASE dly_tsk
  <2> DEFINE t == p_runtsk
             s == make_wait(Cur, TS_WAITING_DLY)
             e == "wait_tmout_ok"
             r == [s EXCEPT !.tcb[t].winfo = "tmevtb", !.tmevtb[t] = e]
  <2>1. Become(dispatch(r))
    BY <1>2 DEF dly_tsk
  <2>2. Still(Cur, s)
    BY make_wait_still
  <2> HIDE DEF s, t, e
  <2>3. Still(s, r)
    BY DEF Still, Framed, HasFields, KernelField
  <2> HIDE DEF r
  <2> QED BY <2>1, <2>2, <2>3, StillTrans, StoodThen
<1>3. ASSUME NEW t \in TSK, wup_tsk(t) \/ can_wup(t)
      PROVE  MutexesStill
  BY <1>3, TcbStill, wait_complete_still, Stood, StoodThen DEF wup_tsk, can_wup
<1>4. ASSUME NEW t \in TSK, sus_tsk(t)
      PROVE  MutexesStill
  <2> DEFINE a == [Cur EXCEPT !.tcb[t].tstat = TS_SUSPENDED]
             b == [Cur EXCEPT !.tcb[t].tstat = @ \cup TS_SUSPENDED]
  <2>1. Become(dispatch(make_non_runnable(a, t))) \/ Become(b)
    BY <1>4 DEF sus_tsk
  <2>2. Still(Cur, a) /\ Still(Cur, b)
    BY TcbStill
  <2> HIDE DEF a, b
  <2>3. Still(Cur, make_non_runnable(a, t))
    BY <2>2, make_non_runnable_still, StillTrans
  <2> QED BY <2>1, <2>2, <2>3, Stood, StoodThen
<1>5. ASSUME NEW t \in TSK, rsm_tsk(t)
      PROVE  MutexesStill
  <2> DEFINE a == [Cur EXCEPT !.tcb[t].tstat = TS_RUNNABLE]
             b == [Cur EXCEPT !.tcb[t].tstat = @ \ TS_SUSPENDED]
  <2>1. Become(dispatch(make_runnable(a, t))) \/ Become(b)
    BY <1>5 DEF rsm_tsk
  <2>2. Still(Cur, a) /\ Still(Cur, b)
    BY TcbStill
  <2> HIDE DEF a, b
  <2>3. Still(Cur, make_runnable(a, t))
    BY <2>2, make_runnable_still, StillTrans
  <2> QED BY <2>1, <2>2, <2>3, Stood, StoodThen
<1> QED BY <1>1, <1>2, <1>3, <1>4, <1>5 DEF TaskSyncNext

LEMMA TaskManageStill ==
    ASSUME IInv, TaskManageNext,
           \A t \in TSK : /\ \A p \in CONFIG[app].tskpri : ~chg_pri(t, p)
                          /\ \A p \in TPRI : ~chg_pri_ini_locked(t, p)
    PROVE  MutexesStill
<1>1. ASSUME NEW c, acre_tsk(c.tskatr, c.ipriority)
      PROVE  MutexesStill
  <2> DEFINE t == Head(free_tcb)
             i == [tskatr |-> c.tskatr, ipriority |-> c.ipriority]
             a == [Cur EXCEPT !.free_tcb = Tail(@), !.tinib[t] = i, !.tcb[t].actque = FALSE]
             b == make_dormant(a, t)
  <2>1. Become(b) \/ Become(make_active(b, t))
    BY <1>1 DEF acre_tsk
  <2> HIDE DEF t, i
  <2>2. Still(Cur, a)
    <3> DEFINE s == Cur
               r == [s EXCEPT !.free_tcb = Tail(@), !.tinib[t] = i, !.tcb[t].actque = FALSE]
    <3>1. a = r
      OBVIOUS
    <3> HIDE DEF s, a
    <3>2. Still(s, r)
      BY DEF Still, Framed, HasFields, KernelField
    <3> QED BY <3>1, <3>2 DEF s
  <2> HIDE DEF a
  <2>3. Still(a, b)
    BY make_dormant_still
  <2> HIDE DEF b
  <2> QED BY <2>1, <2>2, <2>3, make_active_still, StillTrans, Stood
<1>2. ASSUME NEW t \in TSK, del_tsk(t)
      PROVE  MutexesStill
  <2> DEFINE v == {"TA_NOEXS"}
             s == Cur
             r == [s EXCEPT !.tinib[t].tskatr = v, !.free_tcb = queue_insert_prev(@, t)]
  <2>1. Become(r)
    BY <1>2 DEF del_tsk
  <2> HIDE DEF v, s
  <2>2. Still(s, r)
    BY DEF Still, Framed, HasFields, KernelField
  <2> HIDE DEF r
  <2> QED BY <2>1, <2>2, Stood DEF s
<1>3. ASSUME NEW t \in TSK, act_tsk(t) \/ can_act(t)
      PROVE  MutexesStill
  BY <1>3, TcbStill, make_active_still, Stood, StoodThen DEF act_tsk, can_act
<1>4. ASSUME NEW t \in TSK, chg_pri_ini(t)
      PROVE  MutexesStill
  BY <1>4, DataStill, Stood DEF chg_pri_ini
<1> QED BY <1>1, <1>2, <1>3, <1>4 DEF TaskManageNext

LEMMA DisableStill ==
    ASSUME IInv, dis_ter \/ dis_dsp \/ loc_cpu \/ unl_cpu \/ int_entry \/ int_exit
    PROVE  MutexesStill
<1>1. CASE dis_ter
  BY <1>1, TcbStill, Stood DEF dis_ter
<1>2. CASE dis_dsp
  <2> DEFINE s == Cur
             r == [s EXCEPT !.enadsp = FALSE, !.dspflg = FALSE]
  <2>1. Become(r)
    BY <1>2 DEF dis_dsp
  <2> HIDE DEF s
  <2>2. Still(s, r)
    BY DEF Still, Framed, HasFields, KernelField
  <2> HIDE DEF r
  <2> QED BY <2>1, <2>2, Stood DEF s
<1>3. CASE loc_cpu \/ unl_cpu \/ int_entry
  BY <1>3, UnchangedStill DEF loc_cpu, unl_cpu, int_entry
<1>4. CASE int_exit
  BY <1>4, StillSelf, StoodThen DEF int_exit
<1> QED BY <1>1, <1>2, <1>3, <1>4

LEMMA RotateStill ==
    ASSUME IInv, NEW p, rot_rdq(p)
    PROVE  MutexesStill
BY rotate_ready_queue_still, StoodThen DEF rot_rdq

LEMMA ReturnStill ==
    ASSUME IInv, wait_return
    PROVE  MutexesStill
<1>1. PICK v, o : Become([Cur EXCEPT !.tcb[p_runtsk] = v, !.out = o])
  BY DEF wait_return
<1> DEFINE t == p_runtsk
           s == Cur
           r == [s EXCEPT !.tcb[t] = v, !.out = o]
<1>2. Become(r)
  BY <1>1
<1> HIDE DEF s, t
<1>3. Still(s, r)
  BY DEF Still, Framed, HasFields, KernelField
<1> HIDE DEF r
<1> QED BY <1>2, <1>3, Stood DEF s

-----------------------------------------------------------------------------
(* Who owns a mutex that exists, and who waits for it.                     *)

Owner(s, m) == IF WobjExists(s, m) THEN s.mtx[m].p_loctsk ELSE NULL
Line(s, m)  == ToSet(s.wobj[m].wait_queue)

(* No task waits for a mutex of its own.                                   *)
OwnFree(s) == \A m \in MTX : Owner(s, m) \notin Line(s, m)

MInv == IInv /\ OwnFree(Cur)

(* The tasks in the queue of a mutex are those that wait for it, each once.*)
LEMMA QueuedTasks ==
    ASSUME NEW s, NEW X, NEW E, Inv(s, X, E), NEW m \in MTX
    PROVE  /\ Lists(s.wobj[m].wait_queue, Line(s, m), TSK)
           /\ Line(s, m) = {t \in TSK \ X : BlockedOn(s, t, m)}
<1> DEFINE f == "wait_queue"
           V == Blocked(s, X)
           S == WaitsIn(s, V, m, f)
           q == s.wobj[m][f]
<1>1. Lists(q, S, TSK)
  BY MutexObjects DEF Inv, WaitOK, QUEUE
<1>2. \A t \in V : TaskOK(s, t, E)
  BY DEF Inv, Blocked
<1>3. S = {t \in TSK \ X : BlockedOn(s, t, m)}
  <2>1. \A t \in V : s.tcb[t].p_wobjcb = m => queue_of(s.tcb[t].tstat) = f
    BY <1>2 DEF TaskOK, queue_of, RECEIVING
  <2> QED BY <2>1 DEF WaitsIn, Blocked, BlockedOn
<1> HIDE DEF S, q, V
<1>4. ToSet(q) = S
  BY <1>1, ListsEach
<1> QED BY <1>1, <1>3, <1>4 DEF q, f, Line

LEMMA CurLines ==
    ASSUME IInv, NEW m \in MTX
    PROVE  /\ Lists(wobj[m].wait_queue, Line(Cur, m), TSK)
           /\ Line(Cur, m) = {t \in TSK : BlockedOn(Cur, t, m)}
           /\ Owner(Cur, m) = IF ObjectExists(m) THEN mtx[m].p_loctsk ELSE NULL
           /\ Owner(Cur, m) \in TSK \cup {NULL}
           /\ Owner(Cur, m) = NULL => wobj[m].wait_queue = <<>> /\ Line(Cur, m) = {}
           /\ Line(Cur, m) # {} => Owner(Cur, m) = mtx[m].p_loctsk /\ ObjectExists(m)
<1>1. Inv(Cur, {}, Ends(Cur)) /\ LockInv(Cur, {}, {}) /\ WellFormed(Cur)
  BY StepBegins DEF KInv, LocksOK
<1>2. /\ Lists(Cur.wobj[m].wait_queue, Line(Cur, m), TSK)
      /\ Line(Cur, m) = {t \in TSK \ {} : BlockedOn(Cur, t, m)}
  BY <1>1, QueuedTasks
<1>3. Cur.wobj = wobj /\ Cur.mtx = mtx
  BY CurFields
<1>4. WobjExists(Cur, m) <=> ObjectExists(m)
  BY CurExists, Mutexes
<1>5. mtx[m].p_loctsk \in TSK \cup {NULL}
  BY <1>1, <1>3 DEF WellFormed
<1>6. Owner(Cur, m) = IF ObjectExists(m) THEN mtx[m].p_loctsk ELSE NULL
  BY <1>3, <1>4 DEF Owner
<1>7. Owner(Cur, m) = NULL => wobj[m].wait_queue = <<>>
  BY <1>1, <1>3, <1>4, <1>6, FreeMutexQueues
<1>8. wobj[m].wait_queue = <<>> => Line(Cur, m) = {}
  BY <1>2, <1>3, ListsEmpty
<1> QED BY <1>2, <1>3, <1>5, <1>6, <1>7, <1>8

-----------------------------------------------------------------------------
(* The lock service as the kernel shows it, and what a step does to it.    *)

own == [m \in MTX |-> IF ObjectExists(m) THEN mtx[m].p_loctsk ELSE NULL]
wtr == [m \in MTX |-> ToSet(wobj[m].wait_queue)]

(* The step ends in state r, except for who runs.                          *)
Reached(r) == tcb' = r.tcb /\ wobj' = r.wobj /\ mtx' = r.mtx

(* A mutex passes from free to a task, or to the first that waits for it,  *)
(* and a task that no longer waits for it is told so if it has got it.     *)
HandsOver(s, r) ==
    /\ \A m \in MTX :
          r.mtx[m].p_loctsk \notin {NULL, s.mtx[m].p_loctsk} =>
             IF s.wobj[m].wait_queue = <<>>
             THEN s.mtx[m].p_loctsk = NULL \/ ~WobjExists(s, m)
             ELSE r.mtx[m].p_loctsk = Head(s.wobj[m].wait_queue)
    /\ \A m \in MTX : \A t \in Line(s, m) \ Line(r, m) :
          r.tcb[t].insvc => (r.tcb[t].winfo = "E_OK" <=> r.mtx[m].p_loctsk = t)

(* What every step of the kernel is for the mutexes.                       *)
LockStepOK(r) ==
    /\ [Locks!Next]_(Locks!svars)
    /\ OwnFree(r)
    /\ HandsOver(Cur, r)

LEMMA BecomeReached ==
    ASSUME NEW r, HasFields(r, KernelField),
           \/ Become(r) \/ Become(dispatch(r)) \/ Become(dispatcher(r))
           \/ Become(dispatch_or_request(r))
    PROVE  Reached(r)
BY DEF Become, Reached, dispatch, dispatcher, dispatch_or_request, HasFields, KernelField

LEMMA Views ==
    ASSUME NEW r, Reached(r)
    PROVE  /\ own = [m \in MTX |-> Owner(Cur, m)] /\ own' = [m \in MTX |-> Owner(r, m)]
           /\ wtr = [m \in MTX |-> Line(Cur, m)] /\ wtr' = [m \in MTX |-> Line(r, m)]
<1>1. Cur.wobj = wobj /\ Cur.mtx = mtx
  BY CurFields
<1>2. \A m \in MTX : /\ WobjExists(Cur, m) <=> ObjectExists(m)
                     /\ WobjExists(r, m) <=> ObjectExists(m)'
  BY <1>1, Mutexes DEF WobjExists, ObjectExists, Reached
<1>3. \A m \in MTX : /\ Owner(Cur, m) = IF ObjectExists(m) THEN mtx[m].p_loctsk ELSE NULL
                     /\ Owner(r, m) = IF ObjectExists(m)' THEN mtx'[m].p_loctsk ELSE NULL
  BY <1>1, <1>2 DEF Owner, Reached
<1>4. \A m \in MTX : /\ Line(Cur, m) = ToSet(wobj[m].wait_queue)
                     /\ Line(r, m) = ToSet(wobj'[m].wait_queue)
  BY <1>1 DEF Line, Reached
<1> QED BY <1>3, <1>4 DEF own, wtr

(* Nothing changes but the order of a queue, or the owner of a mutex that  *)
(* does not exist.                                                         *)
Alike(s, r) ==
    \A m \in MTX : /\ Owner(r, m) = Owner(s, m)
                   /\ Line(r, m) = Line(s, m)
                   /\ r.mtx[m].p_loctsk \in {NULL, s.mtx[m].p_loctsk}

LEMMA AlikeStep ==
    ASSUME MInv, NEW r, Reached(r), Alike(Cur, r)
    PROVE  LockStepOK(r)
<1>1. own' = own /\ wtr' = wtr
  BY Views DEF Alike
<1>2. [Locks!Next]_(Locks!svars)
  BY <1>1 DEF Locks!svars, own, wtr
<1>3. OwnFree(r)
  BY DEF MInv, OwnFree, Alike
<1>4. HandsOver(Cur, r)
  BY DEF Alike, HandsOver
<1> QED BY <1>2, <1>3, <1>4 DEF LockStepOK

(* Task t takes mutex m, which is free.                                    *)
Taken(s, r, t, m) ==
    /\ t \in TSK /\ m \in MTX /\ WobjExists(s, m)
    /\ s.mtx[m].p_loctsk = NULL /\ r.mtx[m].p_loctsk = t
    /\ \A x \in MTX : t \notin Line(s, x)
    /\ \A x \in MTX : r.wobj[x] = s.wobj[x]
    /\ \A x \in MTX \ {m} : r.mtx[x].p_loctsk = s.mtx[x].p_loctsk

LEMMA TakenStep ==
    ASSUME MInv, NEW r, Reached(r), NEW t, NEW m, Taken(Cur, r, t, m)
    PROVE  LockStepOK(r)
<1>1. \A x \in MTX : /\ WobjExists(r, x) <=> WobjExists(Cur, x)
                     /\ Line(r, x) = Line(Cur, x)
  BY Mutexes DEF Taken, WobjExists, Line
<1>2. \A x \in MTX : Owner(r, x) = IF x = m THEN t ELSE Owner(Cur, x)
  BY <1>1 DEF Taken, Owner
<1>3. Owner(Cur, m) = NULL /\ t \in TSK /\ m \in MTX
  BY DEF Taken, Owner
<1>4. Cur.wobj[m].wait_queue = <<>>
  BY <1>3, CurLines, CurFields DEF MInv
<1>5. [Locks!Next]_(Locks!svars)
  <2>1. own' = [own EXCEPT ![m] = t] /\ wtr' = wtr
    BY <1>1, <1>2, <1>3, Views
  <2>2. own[m] = NULL
    BY <1>3, Views
  <2>3. ~Locks!Waits(t)
    <3>1. \A x \in MTX : t \notin wtr[x]
      BY Views DEF Taken
    <3> QED BY <3>1 DEF Locks!Waits, wtr
  <2>4. Locks!Acquire(t, m)
    BY <2>1, <2>2, <2>3 DEF Locks!Acquire, own, wtr
  <2> QED BY <1>3, <2>4 DEF Locks!Next
<1>6. OwnFree(r)
  BY <1>1, <1>2 DEF MInv, OwnFree, Taken
<1>7. HandsOver(Cur, r)
  BY <1>1, <1>4 DEF HandsOver, Taken
<1> QED BY <1>5, <1>6, <1>7 DEF LockStepOK

(* Task t begins to wait for mutex m, which another task owns.             *)
Joined(s, r, t, m) ==
    /\ t \in TSK /\ m \in MTX /\ Owner(s, m) \notin {NULL, t}
    /\ \A x \in MTX : t \notin Line(s, x)
    /\ \A x \in MTX : /\ Owner(r, x) = Owner(s, x)
                      /\ r.mtx[x].p_loctsk = s.mtx[x].p_loctsk
                      /\ Line(r, x) = IF x = m THEN Line(s, x) \cup {t} ELSE Line(s, x)

LEMMA JoinedStep ==
    ASSUME MInv, NEW r, Reached(r), NEW t, NEW m, Joined(Cur, r, t, m)
    PROVE  LockStepOK(r)
<1>1. t \in TSK /\ m \in MTX
  BY DEF Joined
<1>2. [Locks!Next]_(Locks!svars)
  <2>1. own' = own /\ wtr' = [wtr EXCEPT ![m] = @ \cup {t}]
    BY <1>1, Views DEF Joined
  <2>2. own[m] \notin {NULL, t}
    BY <1>1, Views DEF Joined
  <2>3. ~Locks!Waits(t)
    <3>1. \A x \in MTX : t \notin wtr[x]
      BY Views DEF Joined
    <3> QED BY <3>1 DEF Locks!Waits, wtr
  <2>4. Locks!Wait(t, m)
    BY <2>1, <2>2, <2>3 DEF Locks!Wait, own, wtr
  <2> QED BY <1>1, <2>4 DEF Locks!Next
<1>3. OwnFree(r)
  BY DEF MInv, OwnFree, Joined
<1>4. HandsOver(Cur, r)
  BY DEF HandsOver, Joined
<1> QED BY <1>2, <1>3, <1>4 DEF LockStepOK

(* Task t stops waiting, without a mutex.                                  *)
Left(s, r, t) ==
    /\ t \in TSK /\ r.tcb[t].winfo # "E_OK"
    /\ \A x \in MTX : /\ Owner(r, x) = Owner(s, x)
                      /\ r.mtx[x].p_loctsk = s.mtx[x].p_loctsk
                      /\ Line(r, x) = Line(s, x) \ {t}

LEMMA OneLine ==
    ASSUME IInv, NEW t, NEW m \in MTX, NEW x \in MTX, t \in Line(Cur, m), t \in Line(Cur, x)
    PROVE  m = x
BY CurLines DEF BlockedOn

LEMMA LeftStep ==
    ASSUME MInv, NEW r, Reached(r), NEW t, Left(Cur, r, t)
    PROVE  LockStepOK(r)
<1>1. t \in TSK /\ IInv
  BY DEF Left, MInv
<1>2. [Locks!Next]_(Locks!svars)
  <2>1. own' = own
    BY Views DEF Left
  <2>2. CASE \E m \in MTX : t \in Line(Cur, m)
    <3>1. PICK m \in MTX : t \in Line(Cur, m)
      BY <2>2
    <3>2. \A x \in MTX \ {m} : t \notin Line(Cur, x)
      <4> SUFFICES ASSUME NEW x \in MTX \ {m}, t \in Line(Cur, x) PROVE FALSE
        OBVIOUS
      <4>1. x \in MTX /\ m # x
        OBVIOUS
      <4>2. m = x
        BY <1>1, <3>1, <4>1, OneLine
      <4> QED BY <4>1, <4>2
    <3>6. \A x \in MTX : Line(r, x) = IF x = m THEN Line(Cur, x) \ {t} ELSE Line(Cur, x)
      BY <3>2 DEF Left
    <3>3. wtr' = [wtr EXCEPT ![m] = @ \ {t}] /\ t \in wtr[m]
      BY <3>1, <3>6, Views
    <3>4. Locks!Cancel(t, m)
      BY <2>1, <3>3 DEF Locks!Cancel, own, wtr
    <3>5. m \in MTX /\ t \in TSK
      BY <1>1, <3>1
    <3> QED BY <3>4, <3>5 DEF Locks!Next
  <2>3. CASE ~\E m \in MTX : t \in Line(Cur, m)
    <3>1. \A m \in MTX : Line(r, m) = Line(Cur, m)
      BY <2>3 DEF Left
    <3>2. wtr' = wtr
      BY <3>1, Views
    <3> QED BY <2>1, <3>2 DEF Locks!svars, own, wtr
  <2> QED BY <2>2, <2>3
<1>3. OwnFree(r)
  BY DEF MInv, OwnFree, Left
<1>4. HandsOver(Cur, r)
  <2> SUFFICES ASSUME NEW m \in MTX, NEW u \in Line(Cur, m) \ Line(r, m)
               PROVE  r.tcb[u].winfo # "E_OK" /\ r.mtx[m].p_loctsk # u
    BY DEF HandsOver, Left
  <2>1. u = t
    BY DEF Left
  <2>2. Owner(Cur, m) = Cur.mtx[m].p_loctsk
    BY <1>1, CurLines, CurFields
  <2> QED BY <2>1, <2>2 DEF Left, MInv, OwnFree
<1> QED BY <1>2, <1>3, <1>4 DEF LockStepOK


(* Task t gives up the mutexes in M, each to the first that waits for it;  *)
(* the tasks in T stop waiting, because they end.                          *)
PassedOn(s, r, t, M, T) ==
    /\ \A m \in MTX : WobjExists(r, m) <=> WobjExists(s, m)
    /\ \A m \in M :
          /\ Owner(s, m) = t
          /\ IF s.wobj[m].wait_queue = <<>>
             THEN r.mtx[m].p_loctsk = NULL /\ Line(r, m) = {}
             ELSE LET first == Head(s.wobj[m].wait_queue)
                  IN  /\ r.mtx[m].p_loctsk = first
                      /\ Line(r, m) = Line(s, m) \ {first}
                      /\ r.tcb[first].winfo = "E_OK"
    /\ \A m \in MTX \ M : /\ r.mtx[m].p_loctsk = s.mtx[m].p_loctsk
                          /\ Line(r, m) = Line(s, m) \ T
    /\ \A u \in T : ~r.tcb[u].insvc

LEMMA FirstInLine ==
    ASSUME IInv, NEW m \in MTX, Cur.wobj[m].wait_queue # <<>>
    PROVE  Head(Cur.wobj[m].wait_queue) \in Line(Cur, m) /\ Line(Cur, m) \subseteq TSK
<1> DEFINE q == Cur.wobj[m].wait_queue
           S == Line(Cur, m)
<1>1. Lists(q, S, TSK) /\ q # <<>>
  BY CurLines, CurFields
<1> HIDE DEF q, S
<1>2. Head(q) \in S
  BY <1>1, TailLists
<1>3. S \subseteq TSK
  BY <1>1 DEF Lists
<1> QED BY <1>2, <1>3 DEF q, S

LEMMA NoLine ==
    ASSUME IInv, NEW m \in MTX, Cur.wobj[m].wait_queue = <<>>
    PROVE  Line(Cur, m) = {}
BY CurLines, CurFields, ListsEmpty

LEMMA PassedOnKeeps ==
    ASSUME MInv, NEW r, NEW t \in TSK, NEW M \in SUBSET MTX, NEW T \in SUBSET {t},
           PassedOn(Cur, r, t, M, T)
    PROVE  /\ OwnFree(r) /\ HandsOver(Cur, r)
           /\ \A m \in M : t \notin Line(Cur, m)
           /\ \A m \in MTX \ M : Owner(r, m) = Owner(Cur, m)
           /\ \A m \in M : /\ Owner(r, m) = r.mtx[m].p_loctsk
                           /\ Line(Cur, m) = {} => Owner(r, m) = NULL /\ Line(r, m) = {}
                           /\ Line(Cur, m) # {} => /\ Owner(r, m) \in Line(Cur, m)
                                                   /\ Line(r, m) = Line(Cur, m) \ {Owner(r, m)}
<1>1. IInv /\ OwnFree(Cur) /\ t # NULL
  BY TaskOpsAssumption DEF MInv
<1>2. \A m \in M : t \notin Line(Cur, m)
  BY <1>1 DEF PassedOn, OwnFree
<1>3. \A m \in MTX \ M : Owner(r, m) = Owner(Cur, m)
  BY DEF PassedOn, Owner
<1>4. \A m \in M : WobjExists(r, m) /\ Owner(r, m) = r.mtx[m].p_loctsk
  BY <1>1 DEF PassedOn, Owner
<1>5. ASSUME NEW m \in M
      PROVE  /\ Line(Cur, m) = {} => Owner(r, m) = NULL /\ Line(r, m) = {}
             /\ Line(Cur, m) # {} => /\ Owner(r, m) \in Line(Cur, m)
                                     /\ Line(r, m) = Line(Cur, m) \ {Owner(r, m)}
  <2>1. CASE Cur.wobj[m].wait_queue = <<>>
    BY <1>1, <1>4, <2>1, NoLine DEF PassedOn
  <2>2. CASE Cur.wobj[m].wait_queue # <<>>
    BY <1>1, <1>4, <2>2, FirstInLine DEF PassedOn
  <2> QED BY <2>1, <2>2
<1>6. OwnFree(r)
  <2> SUFFICES ASSUME NEW m \in MTX PROVE Owner(r, m) \notin Line(r, m)
    BY DEF OwnFree
  <2>1. CASE m \in M
    BY <1>5, <2>1
  <2>2. CASE m \notin M
    BY <1>1, <1>3, <2>2 DEF OwnFree, PassedOn
  <2> QED BY <2>1, <2>2
<1>7. HandsOver(Cur, r)
  <2>1. \A m \in MTX :
           r.mtx[m].p_loctsk \notin {NULL, Cur.mtx[m].p_loctsk} =>
              /\ Cur.wobj[m].wait_queue # <<>>
              /\ r.mtx[m].p_loctsk = Head(Cur.wobj[m].wait_queue)
    BY DEF PassedOn
  <2>2. ASSUME NEW m \in MTX, NEW u \in Line(Cur, m) \ Line(r, m), r.tcb[u].insvc
        PROVE  r.tcb[u].winfo = "E_OK" <=> r.mtx[m].p_loctsk = u
    <3>1. CASE m \in M
      <4>1. Cur.wobj[m].wait_queue # <<>>
        BY <1>1, <3>1, <2>2, NoLine DEF PassedOn
      <4> QED BY <3>1, <2>2, <4>1 DEF PassedOn
    <3>2. CASE m \notin M
      BY <3>2, <2>2 DEF PassedOn
    <3> QED BY <3>1, <3>2
  <2> QED BY <2>1, <2>2 DEF HandsOver
<1> QED BY <1>2, <1>3, <1>4, <1>5, <1>6, <1>7

(* Every mutex in M passes to one of those in w, if there is one.          *)
Inherited(M, o, w, owner, waiters) ==
    \E heir \in [M -> TSK \cup {NULL}] :
       /\ \A m \in M : IF w[m] = {} THEN heir[m] = NULL ELSE heir[m] \in w[m]
       /\ owner = [m \in MTX |-> IF m \in M THEN heir[m] ELSE o[m]]
       /\ waiters = [m \in MTX |-> IF m \in M THEN w[m] \ {heir[m]} ELSE w[m]]

LEMMA PassesOn ==
    ASSUME MInv, NEW r, Reached(r), NEW t \in TSK, NEW M \in SUBSET MTX,
           NEW T \in SUBSET {t}, PassedOn(Cur, r, t, M, T),
           NEW w, w = [m \in MTX |-> Line(Cur, m) \ T]
    PROVE  Inherited(M, own, w, own', wtr')
<1> DEFINE heir == [m \in M |-> Owner(r, m)]
<1>1. /\ \A m \in M : t \notin Line(Cur, m) /\ m \in MTX
      /\ \A m \in MTX \ M : Owner(r, m) = Owner(Cur, m)
      /\ \A m \in M : /\ Line(Cur, m) = {} => Owner(r, m) = NULL /\ Line(r, m) = {}
                      /\ Line(Cur, m) # {} => /\ Owner(r, m) \in Line(Cur, m)
                                              /\ Line(r, m) = Line(Cur, m) \ {Owner(r, m)}
  <2> HIDE DEF heir
  <2>1. /\ OwnFree(r) /\ HandsOver(Cur, r)
        /\ \A m \in M : t \notin Line(Cur, m)
        /\ \A m \in MTX \ M : Owner(r, m) = Owner(Cur, m)
        /\ \A m \in M : /\ Owner(r, m) = r.mtx[m].p_loctsk
                        /\ Line(Cur, m) = {} => Owner(r, m) = NULL /\ Line(r, m) = {}
                        /\ Line(Cur, m) # {} => /\ Owner(r, m) \in Line(Cur, m)
                                                /\ Line(r, m) = Line(Cur, m) \ {Owner(r, m)}
    BY PassedOnKeeps
  <2>2. \A m \in M : m \in MTX
    OBVIOUS
  <2> QED BY <2>1, <2>2
<1>2. \A m \in M : w[m] = Line(Cur, m)
  BY <1>1
<1>3. \A m \in M : Line(Cur, m) \subseteq TSK
  BY <1>1, CurLines DEF MInv
<1>4. heir \in [M -> TSK \cup {NULL}]
  BY <1>1, <1>3
<1>5. \A m \in M : IF w[m] = {} THEN heir[m] = NULL ELSE heir[m] \in w[m]
  BY <1>1, <1>2
<1>6. own' = [m \in MTX |-> IF m \in M THEN heir[m] ELSE own[m]]
  <2>1. \A m \in MTX : Owner(r, m) = IF m \in M THEN heir[m] ELSE own[m]
    BY <1>1, Views
  <2> HIDE DEF heir
  <2> QED BY <2>1, Views
<1>7. wtr' = [m \in MTX |-> IF m \in M THEN w[m] \ {heir[m]} ELSE w[m]]
  <2>1. ASSUME NEW m \in M PROVE Line(r, m) = w[m] \ {heir[m]}
    BY <1>1, <1>2
  <2>2. \A m \in MTX \ M : Line(r, m) = w[m]
    BY DEF PassedOn
  <2>3. \A m \in MTX : Line(r, m) = IF m \in M THEN w[m] \ {heir[m]} ELSE w[m]
    BY <2>1, <2>2
  <2> HIDE DEF heir
  <2> QED BY <2>3, Views
<1> HIDE DEF heir
<1> QED BY <1>4, <1>5, <1>6, <1>7 DEF Inherited

LEMMA ReleaseStep ==
    ASSUME MInv, NEW r, Reached(r), NEW t \in TSK, NEW m \in MTX,
           \A x \in MTX : t \notin Line(Cur, x), PassedOn(Cur, r, t, {m}, {})
    PROVE  LockStepOK(r)
<1> DEFINE M == {m}
           T == {}
<1>6. M \in SUBSET MTX /\ T \in SUBSET {t} /\ PassedOn(Cur, r, t, M, T) /\ m \in M
  OBVIOUS
<1>7. wtr = [x \in MTX |-> Line(Cur, x) \ T]
  BY Views
<1> HIDE DEF M, T
<1>1. OwnFree(r) /\ HandsOver(Cur, r)
  BY <1>6, PassedOnKeeps
<1>2. Locks!PassOn({m}, wtr)
  <2> DEFINE w == wtr
  <2>1. w = [x \in MTX |-> Line(Cur, x) \ T]
    BY <1>7
  <2> HIDE DEF w
  <2>2. Locks!PassOn(M, w)
    <3>1. Inherited(M, own, w, own', wtr')
      BY <1>6, <2>1, PassesOn
    <3> QED BY <3>1 DEF Inherited, Locks!PassOn, own, wtr
  <2> QED BY <2>2 DEF M, w
<1>3. own[m] = t
  BY <1>6, Views DEF PassedOn
<1>4. ~Locks!Waits(t)
  <2>1. \A x \in MTX : t \notin wtr[x]
    BY Views
  <2> QED BY <2>1 DEF Locks!Waits, wtr
<1>5. Locks!Release(t, m)
  BY <1>2, <1>3, <1>4 DEF Locks!Release, own, wtr
<1>8. Locks!Next
  BY <1>5 DEF Locks!Next
<1> QED BY <1>1, <1>8 DEF LockStepOK

LEMMA EndStep ==
    ASSUME MInv, NEW r, Reached(r), NEW t \in TSK,
           PassedOn(Cur, r, t, {m \in MTX : Owner(Cur, m) = t}, {t})
    PROVE  LockStepOK(r)
<1> DEFINE M == {m \in MTX : Owner(Cur, m) = t}
           T == {t}
<1>7. M \in SUBSET MTX /\ T \in SUBSET {t} /\ PassedOn(Cur, r, t, M, T)
  OBVIOUS
<1>2. Locks!Owned(t) = M
  BY Views DEF Locks!Owned, own
<1> HIDE DEF M, T
<1>1. OwnFree(r) /\ HandsOver(Cur, r)
  BY <1>7, PassedOnKeeps
<1>3. [l \in MTX |-> wtr[l] \ {t}] = [m \in MTX |-> Line(Cur, m) \ T]
  BY Views DEF T
<1>4. Locks!PassOn(M, [l \in MTX |-> wtr[l] \ {t}])
  <2> DEFINE w == [l \in MTX |-> wtr[l] \ {t}]
  <2>1. w = [m \in MTX |-> Line(Cur, m) \ T]
    BY <1>3
  <2> HIDE DEF w
  <2>2. Locks!PassOn(M, w)
    <3>1. Inherited(M, own, w, own', wtr')
      BY <1>7, <2>1, PassesOn
    <3> QED BY <3>1 DEF Inherited, Locks!PassOn, own, wtr
  <2> QED BY <2>2 DEF w
<1>5. Locks!End(t)
  BY <1>2, <1>4 DEF Locks!End, wtr
<1>6. Locks!Next
  BY <1>5 DEF Locks!Next
<1> QED BY <1>1, <1>6 DEF LockStepOK

(* Mutex m is set back: who waited for it does not get it.                 *)
Wiped(s, r, m) ==
    /\ m \in MTX
    /\ Owner(r, m) = NULL /\ Line(r, m) = {}
    /\ r.mtx[m].p_loctsk \in {NULL, s.mtx[m].p_loctsk}
    /\ \A x \in MTX \ {m} : /\ Owner(r, x) = Owner(s, x)
                            /\ r.mtx[x].p_loctsk = s.mtx[x].p_loctsk
                            /\ Line(r, x) = Line(s, x)
    /\ \A u \in Line(s, m) : r.tcb[u].winfo # "E_OK"

LEMMA WipedStep ==
    ASSUME MInv, NEW r, Reached(r), NEW m, Wiped(Cur, r, m)
    PROVE  LockStepOK(r)
<1>1. m \in MTX /\ IInv /\ NULL \notin TSK
  BY TaskOpsAssumption DEF Wiped, MInv
<1>2. /\ own' = [own EXCEPT ![m] = NULL]
      /\ wtr' = [wtr EXCEPT ![m] = {}]
  BY <1>1, Views DEF Wiped
<1>3. Locks!Reset(m)
  BY <1>2 DEF Locks!Reset, own, wtr
<1>4. Locks!Next
  BY <1>1, <1>3 DEF Locks!Next
<1>5. OwnFree(r)
  BY DEF Wiped, MInv, OwnFree
<1>6. HandsOver(Cur, r)
  <2>1. \A x \in MTX : r.mtx[x].p_loctsk \in {NULL, Cur.mtx[x].p_loctsk}
    BY DEF Wiped
  <2>2. ASSUME NEW x \in MTX, NEW u \in Line(Cur, x) \ Line(r, x)
        PROVE  r.tcb[u].winfo # "E_OK" /\ r.mtx[x].p_loctsk # u
    <3>1. x = m
      BY DEF Wiped
    <3>2. /\ Owner(Cur, m) = Cur.mtx[m].p_loctsk
          /\ Owner(Cur, m) # u
          /\ u # NULL
      BY <1>1, <3>1, CurLines, CurFields DEF MInv, OwnFree
    <3> QED BY <3>1, <3>2 DEF Wiped
  <2> QED BY <2>1, <2>2 DEF HandsOver
<1> QED BY <1>4, <1>5, <1>6 DEF LockStepOK

-----------------------------------------------------------------------------
(* The calls, one by one.  The state r each of them ends in keeps the      *)
(* invariant, so that its wait queues are known from the tasks' states.    *)

Lined(r) == \A m \in MTX : Line(r, m) = {t \in TSK : BlockedOn(r, t, m)}

LEMMA InvLined ==
    ASSUME NEW s, NEW E, Inv(s, {}, E)
    PROVE  Lined(s)
<1> DEFINE X == {}
<1>1. Inv(s, X, E)
  OBVIOUS
<1> HIDE DEF X
<1>2. \A m \in MTX : Line(s, m) = {t \in TSK \ X : BlockedOn(s, t, m)}
  BY <1>1, QueuedTasks
<1> QED BY <1>2 DEF Lined, X

LEMMA CurLined == ASSUME IInv PROVE Lined(Cur)
BY StepBegins, InvLined

LEMMA EndLined ==
    ASSUME IInv', NEW r, Reached(r)
    PROVE  Lined(r)
<1>1. Inv(Cur', {}, Ends(Cur'))
  BY DEF IInv, KInv
<1>2. Lined(Cur')
  BY <1>1, InvLined
<1>3. Cur'.tcb = r.tcb /\ Cur'.wobj = r.wobj
  BY DEF Cur, Reached
<1> QED BY <1>2, <1>3 DEF Lined, Line, BlockedOn

(* A step that is one for the mutexes.                                     *)
LocksStep == \E r : Reached(r) /\ LockStepOK(r)

LEMMA StillStep ==
    ASSUME MInv, MutexesStill
    PROVE  LocksStep
<1>1. PICK r : r = Cur'
  OBVIOUS
<1>2. Reached(r) /\ r.mtx = mtx /\ \A m \in MTX : r.wobj[m] = wobj[m]
  BY <1>1 DEF Cur, Reached, MutexesStill
<1>3. Alike(Cur, r)
  BY <1>2, CurFields, Mutexes DEF Alike, Owner, Line, WobjExists
<1> QED BY <1>2, <1>3, AlikeStep DEF LocksStep

(* No task begins or ends to wait.                                         *)
SameWaits(s, r) ==
    \A t \in TSK : r.tcb[t].tstat = s.tcb[t].tstat /\ r.tcb[t].p_wobjcb = s.tcb[t].p_wobjcb

LEMMA SameWaitsLines ==
    ASSUME NEW s, NEW r, Lined(s), Lined(r), SameWaits(s, r)
    PROVE  \A m \in MTX : Line(r, m) = Line(s, m)
<1>1. \A t \in TSK, m \in MTX : BlockedOn(r, t, m) <=> BlockedOn(s, t, m)
  BY DEF SameWaits, BlockedOn
<1> QED BY <1>1 DEF Lined

LEMMA SameWaitsStep ==
    ASSUME MInv, IInv', NEW r, Reached(r), SameWaits(Cur, r), Passes(Cur, r), r.mtx = Cur.mtx
    PROVE  LocksStep
<1>1. \A m \in MTX : Line(r, m) = Line(Cur, m)
  BY CurLined, EndLined, SameWaitsLines DEF MInv
<1>2. \A m \in MTX : WobjExists(r, m) <=> WobjExists(Cur, m)
  BY PassesFields, Mutexes DEF WobjExists
<1>3. Alike(Cur, r)
  BY <1>1, <1>2 DEF Alike, Owner
<1> QED BY <1>3, AlikeStep DEF LocksStep

LEMMA set_bpriority_lock ==
    ASSUME MInv, IInv', NEW s, NEW E, Inv(s, {}, E), Passes(Cur, s), s.mtx = Cur.mtx,
           SameWaits(Cur, s), NEW t \in TSK, NEW p \in TPRI, Become(set_bpriority(s, t, p))
    PROVE  LocksStep
<1> DEFINE f == "bpriority"
           X == {}
           r == [s EXCEPT !.tcb[t][f] = p]
           n == change_priority(r, t, p, FALSE)
<1>1. Inv(r, X, E) /\ KeepsLocks(s, r)
  BY base_priority_inv
<1>2. Become(r) \/ Become(dispatch(n))
  BY DEF set_bpriority
<1>3. f \in TcbField /\ f \notin {"priority", "lastmtx", "tstat", "p_wobjcb"}
  BY DEF TcbField
<1>4. WellFormed(s) /\ t \in TSK \ X
  BY DEF Inv
<1> HIDE DEF f, X
<1>5. TcbSet(s, r, t, f, p)
  BY <1>3, <1>4, SetTcb
<1> HIDE DEF r
<1>6. Inv(n, X, E) /\ KeepsLocks(r, n) /\ NewPriority(r, n, t)
  BY <1>1, <1>4, change_priority_inv
<1> HIDE DEF n
<1>7. SameWaits(s, r)
  BY <1>3, <1>5 DEF SameWaits, TcbSet, TcbEdit, TcbField
<1>8. SameWaits(r, n)
  BY <1>6, NewPriorityState DEF SameWaits
<1>9. /\ SameWaits(Cur, r) /\ Passes(Cur, r) /\ r.mtx = Cur.mtx
      /\ SameWaits(Cur, n) /\ Passes(Cur, n) /\ n.mtx = Cur.mtx
  BY <1>1, <1>6, <1>7, <1>8, PassesTrans DEF SameWaits, KeepsLocks
<1>10. Reached(r) \/ Reached(n)
  BY <1>1, <1>2, <1>6, BecomeReached DEF Inv, WellFormed
<1> QED BY <1>9, <1>10, SameWaitsStep

LEMMA chg_pri_lock ==
    ASSUME MInv, IInv', NEW t \in TSK, NEW p \in CONFIG[app].tskpri, chg_pri(t, p)
    PROVE  LocksStep
<1>1. app \in DOMAIN CONFIG /\ Inv(Cur, {}, Ends(Cur)) /\ Passes(Cur, Cur)
  BY StepBegins, KeepsSelf DEF Keeps, KeepsLocks, MInv
<1>2. p \in TPRI
  BY <1>1, Configured
<1>3. Become(set_bpriority(Cur, t, p)) /\ SameWaits(Cur, Cur)
  BY DEF chg_pri, SameWaits
<1> QED BY <1>1, <1>2, <1>3, set_bpriority_lock

LEMMA chg_pri_ini_locked_lock ==
    ASSUME MInv, IInv', NEW t \in TSK, NEW p \in TPRI, chg_pri_ini_locked(t, p)
    PROVE  LocksStep
<1> DEFINE u == p_runtsk
           f == "prelock"
           v == NULL
           r == [Cur EXCEPT !.tcb[u][f] = v]
<1>1. Inv(Cur, {}, Ends(Cur)) /\ IInv
  BY StepBegins DEF MInv
<1>2. u \in TSK
  BY <1>1, Running DEF chg_pri_ini_locked, BeforeLock
<1>3. Become(set_bpriority(r, t, p)) \/ Become(r)
  BY DEF chg_pri_ini_locked
<1>4. f \in {"wupque", "wobjdata", "prelock"} /\ f \notin {"tstat", "p_wobjcb"}
  OBVIOUS
<1> HIDE DEF u, f, v
<1>5. Inv(r, {}, Ends(Cur)) /\ Keeps(Cur, r) /\ TcbEdit(Cur, r, u, {f})
  BY <1>1, <1>2, <1>4, plain_inv
<1> HIDE DEF r
<1>6. SameWaits(Cur, r) /\ Passes(Cur, r) /\ r.mtx = Cur.mtx
  BY <1>4, <1>5, KeepsFields DEF SameWaits, TcbEdit, TcbField
<1>7. CASE Become(r)
  <2>1. Reached(r)
    BY <1>7 DEF Become, Reached
  <2> QED BY <1>6, <2>1, SameWaitsStep
<1>8. CASE Become(set_bpriority(r, t, p))
  BY <1>5, <1>6, <1>8, set_bpriority_lock
<1> QED BY <1>3, <1>7, <1>8

LEMMA acre_mtx_lock ==
    ASSUME MInv, NEW atr, NEW p, acre_mtx(atr, p)
    PROVE  LocksStep
<1> DEFINE s == Cur
           w == Head(s.free_mtxcb)
           q == Tail(s.free_mtxcb)
           b == new_wobj(atr)
           o == [s.wobj EXCEPT ![w] = b]
           d == [p_loctsk |-> NULL, ceilpri |-> p]
           x == [s.mtx EXCEPT ![w] = d]
           r == [s EXCEPT !.free_mtxcb = q, !.wobj = o, !.mtx = x]
           c == CONFIG[app]
           S == {v \in ToSet(c.dynamic_mtx) : ~WobjExists(s, v)}
<1>1. /\ app \in DOMAIN CONFIG /\ Inv(s, {}, Ends(s)) /\ LockInv(s, {}, {}) /\ WellFormed(s)
      /\ FreeOK(s, c)
  BY StepBegins DEF KInv, LocksOK, MInv
<1>2. s.free_mtxcb # <<>> /\ Become(r)
  BY CurFields DEF acre_mtx
<1>3. Lists(s.free_mtxcb, S, MTX)
  BY <1>1 DEF FreeOK
<1>4. ToSet(c.dynamic_mtx) \subseteq MTX
  BY <1>1, Configured
<1> HIDE DEF S, s
<1>5. w \in S
  BY <1>2, <1>3, TailLists
<1>6. w \in MTX /\ ~WobjExists(s, w)
  BY <1>4, <1>5 DEF S
<1>7. s.wobj[w].wait_queue = <<>>
  BY <1>1, <1>6, FreeMutexQueues
<1>8. d.p_loctsk = NULL /\ b.wait_queue = <<>>
  BY DEF new_wobj
<1> HIDE DEF w, q, b, d
<1>9. HasFields(s, KernelField) /\ HasFields(s.wobj, WOBJ) /\ HasFields(s.mtx, MTX)
  BY <1>1 DEF WellFormed
<1>10. /\ \A m \in MTX : o[m] = IF m = w THEN b ELSE s.wobj[m]
       /\ \A m \in MTX : x[m] = IF m = w THEN d ELSE s.mtx[m]
  BY <1>9, Mutexes DEF HasFields
<1> HIDE DEF o, x
<1>11. r.wobj = o /\ r.mtx = x /\ HasFields(r, KernelField)
  BY <1>9 DEF HasFields, KernelField
<1> HIDE DEF r
<1>12. ToSet(<<>>) = {}
  BY DEF ToSet
<1>13. Alike(s, r)
  <2>1. ASSUME NEW m \in MTX
        PROVE  /\ Owner(r, m) = Owner(s, m)
               /\ Line(r, m) = Line(s, m)
               /\ r.mtx[m].p_loctsk \in {NULL, s.mtx[m].p_loctsk}
    <3>1. CASE m = w
      BY <1>6, <1>7, <1>8, <1>10, <1>11, <1>12, <3>1 DEF Owner, Line
    <3>2. CASE m # w
      BY <1>10, <1>11, <3>2 DEF Owner, Line, WobjExists
    <3> QED BY <3>1, <3>2
  <2> QED BY <2>1 DEF Alike
<1>14. Reached(r)
  BY <1>2, <1>11, BecomeReached
<1> QED BY <1>13, <1>14, AlikeStep DEF LocksStep, s


(* A task that is runnable waits for no mutex.                             *)
LEMMA RunnableFree ==
    ASSUME IInv, NEW t \in TSK, TSTAT_RUNNABLE(Cur.tcb[t].tstat)
    PROVE  \A m \in MTX : t \notin Line(Cur, m)
<1>1. Cur.tcb[t].tstat \in TSTATS
  BY StepBegins DEF Inv, TaskOK
<1>2. ~TSTAT_WAIT_WOBJ(Cur.tcb[t].tstat)
  BY <1>1, TstatFacts
<1> QED BY <1>2, CurLined DEF Lined, BlockedOn

LEMMA change_priority_still ==
    ASSUME NEW s, NEW t, TSTAT_RUNNABLE(s.tcb[t].tstat), NEW p, NEW mode
    PROVE  Still(s, change_priority(s, t, p, mode))
<1> DEFINE old   == s.tcb[t].priority
           set   == [s EXCEPT !.tcb[t].priority = p]
           rest  == queue_delete(s.ready_queue[old], t)
           map   == IF rest = <<>> THEN set.ready_primap \ {old} ELSE set.ready_primap
           del   == [set EXCEPT !.ready_queue[old] = rest, !.ready_primap = map]
           q     == IF mode THEN queue_insert_next(del.ready_queue[p], t)
                    ELSE queue_insert_prev(del.ready_queue[p], t)
           moved == [del EXCEPT !.ready_queue[p] = q, !.ready_primap = @ \cup {p}]
           sched == IF s.p_schedtsk = t
                    THEN IF p >= old THEN search_schedtsk(moved) ELSE t
                    ELSE IF \/ p < s.tcb[s.p_schedtsk].priority
                            \/ mode /\ p = s.tcb[s.p_schedtsk].priority
                         THEN t ELSE s.p_schedtsk
           next  == [moved EXCEPT !.p_schedtsk = sched]
           r     == change_priority(s, t, p, mode)
<1>1. r = moved \/ r = next
  BY DEF change_priority
<1> HIDE DEF r, sched
<1>2. Still(moved, next)
  <2> HIDE DEF moved
  <2> QED BY DEF Still, Framed, HasFields, KernelField
<1> HIDE DEF next, q
<1>3. Still(del, moved)
  <2> HIDE DEF del
  <2> QED BY DEF Still, Framed, HasFields, KernelField
<1> HIDE DEF moved, map, rest, old
<1>4. Still(set, del)
  <2> HIDE DEF set
  <2> QED BY DEF Still, Framed, HasFields, KernelField
<1> HIDE DEF del
<1>5. Still(s, set)
  BY DEF Still, Framed, HasFields, KernelField
<1> HIDE DEF set
<1>6. Still(s, moved) /\ Still(s, next)
  BY <1>2, <1>3, <1>4, <1>5, StillTrans
<1> QED BY <1>1, <1>6 DEF r

LEMMA mutex_acquire_wobj ==
    ASSUME NEW s, WellFormed(s), NEW t \in TSK, TSTAT_RUNNABLE(s.tcb[t].tstat), NEW m \in MTX
    PROVE  LET r == mutex_acquire(s, t, m)
           IN  /\ \A x \in MTX : r.wobj[x] = s.wobj[x]
               /\ r.mtx[m].p_loctsk = t /\ HasFields(r, KernelField)
               /\ \A x \in MTX \ {m} : r.mtx[x].p_loctsk = s.mtx[x].p_loctsk
<1> DEFINE a == lock_record(s, t, m)
           n(p) == change_priority(a, t, p, TRUE)
           r == mutex_acquire(s, t, m)
<1>1. Recorded(s, a, t, m)
  BY lock_record_edit
<1>2. r = a \/ r = n(s.mtx[m].ceilpri)
  BY DEF mutex_acquire
<1> HIDE DEF a, r
<1>3. a.tcb[t].tstat = s.tcb[t].tstat /\ a.wobj = s.wobj /\ Framed(a)
  BY <1>1 DEF Recorded, Agree, KernelField, TcbField, WellFormed, Framed
<1>4. Still(a, n(s.mtx[m].ceilpri)) /\ Still(a, a)
  BY <1>3, change_priority_still, StillSelf
<1> HIDE DEF n
<1>5. Still(a, r)
  BY <1>2, <1>4
<1>6. Framed(r) /\ r.mtx = a.mtx /\ \A x \in MTX : r.wobj[x] = a.wobj[x]
  BY <1>3, <1>5 DEF Still
<1> QED BY <1>1, <1>3, <1>6 DEF Recorded, Framed, r

LEMMA lock_free_lock ==
    ASSUME MInv, NEW m \in MTX, ObjectExists(m), ~excpt, p_runtsk # NULL, LockFree(m)
    PROVE  LocksStep
<1> DEFINE t == p_runtsk
           s == Cur
           r == mutex_acquire(s, t, m)
<1>1. /\ t \in TSK /\ TSTAT_RUNNABLE(s.tcb[t].tstat) /\ WellFormed(s)
      /\ \A x \in MTX : t \notin Line(s, x)
  BY Running, StepBegins, RunnableFree DEF MInv
<1>2. Become(r) /\ s.mtx[m].p_loctsk = NULL /\ WobjExists(s, m)
  BY CurFields, CurExists, Mutexes DEF LockFree
<1> HIDE DEF s, t
<1>3. /\ \A x \in MTX : r.wobj[x] = s.wobj[x]
      /\ r.mtx[m].p_loctsk = t /\ HasFields(r, KernelField)
      /\ \A x \in MTX \ {m} : r.mtx[x].p_loctsk = s.mtx[x].p_loctsk
  BY <1>1, mutex_acquire_wobj
<1> HIDE DEF r
<1>4. Taken(s, r, t, m)
  BY <1>1, <1>2, <1>3 DEF Taken
<1>5. Reached(r)
  BY <1>2, <1>3, BecomeReached
<1> QED BY <1>4, <1>5, TakenStep DEF LocksStep, s

LEMMA wait_mtx_lock ==
    ASSUME MInv, IInv', NEW m \in MTX, NEW call, Dispatchable(call), ObjectExists(m),
           ~tcb[p_runtsk].raster, CeilingPermits(p_runtsk, m),
           mtx[m].p_loctsk \notin {NULL, p_runtsk}, NEW tmout,
           Become(dispatch(wobj_make_wait_tmout(Cur, TS_WAITING_MTX, m, tmout)))
    PROVE  LocksStep
<1> DEFINE t == p_runtsk
           s == Cur
           E == Ends(s)
           X == {}
           st == TS_WAITING_MTX
           a == make_wait_tmout(s, st, tmout)
           r == wobj_queue_insert(a, m)
           x == "MTX"
<1>1. /\ s.dspflg /\ t = s.p_runtsk /\ t \in Ready(s, X) /\ t \in TSK /\ ~s.tcb[t].raster
      /\ Inv(s, X, E) /\ TSTAT_RUNNABLE(s.tcb[t].tstat)
  BY MayBlock DEF MInv, Ready
<1>2. \A n \in MTX : t \notin Line(s, n)
  BY <1>1, RunnableFree DEF MInv
<1>3. /\ Owner(s, m) \notin {NULL, t} /\ WobjExists(s, m)
      /\ LockedMutex(s, t, m)
  BY CurFields, CurExists, Mutexes DEF Owner, LockedMutex, CeilingPermits, Permits
<1>4. x \in TS_WOBJCB_MASK /\ x = "MTX" /\ st = {x}
  BY DEF TS_WAITING_MTX, TS_WOBJCB_MASK
<1>5. Become(dispatch(r))
  BY DEF wobj_make_wait_tmout
<1>6. Inv(r, {}, E) /\ Keeps(s, r)
  <2>1. LET z == wobj_make_wait_tmout(s, {x}, m, tmout)
        IN  Inv(z, {}, E) /\ Keeps(s, z)
    <3>1. Inv(s, {}, E) /\ t \in Ready(s, {}) /\ (x = "MTX" <=> m \in MTX)
      BY <1>1
    <3> HIDE DEF s, t, x, E
    <3> QED BY <1>1, <1>3, <1>4, <3>1, wobj_make_wait_tmout_inv
  <2> HIDE DEF s, t, x, E
  <2> QED BY <2>1, <1>4 DEF wobj_make_wait_tmout
<1> HIDE DEF s, t, E, X, st, x
<1>7. \E e, w : Stopped(s, a, t, st, w, e)
  BY <1>1, make_wait_tmout_inv
<1>11. Inv(a, X \cup {t}, E)
  BY <1>1, make_wait_tmout_inv
<1> HIDE DEF a
<1>8. /\ a.p_runtsk = t /\ a.mtx = s.mtx
      /\ \A u \in TSK \ {t} : a.tcb[u] = s.tcb[u]
      /\ a.tcb[t].tstat = st
  <2>1. PICK e, w : Stopped(s, a, t, st, w, e)
    BY <1>7
  <2>2. a.p_runtsk = s.p_runtsk /\ a.mtx = s.mtx
    BY <2>1, StoppedFields, PassesFields
  <2> QED BY <1>1, <2>1, <2>2 DEF Stopped
<1>9. /\ \A u \in TSK \ {t} : r.tcb[u] = s.tcb[u]
      /\ r.tcb[t].tstat = st /\ r.tcb[t].p_wobjcb = m
  <2>1. HasFields(a, KernelField) /\ HasFields(a.tcb, TSK) /\ HasFields(a.tcb[t], TcbField)
    BY <1>1, <1>11 DEF Inv, WellFormed, TcbOK
  <2>2. r.tcb = [a.tcb EXCEPT ![t].p_wobjcb = m]
    BY <1>8, <2>1 DEF wobj_queue_insert, HasFields, KernelField
  <2> QED BY SMTT(30), <1>1, <1>8, <2>1, <2>2 DEF HasFields, TcbField
<1>10. TSTAT_WAIT_WOBJ(st)
  BY DEF st, TS_WAITING_MTX, TSTAT_WAIT_WOBJ, TS_WOBJ_MASK, TS_WOBJCB_MASK
<1> HIDE DEF r
<1>12. Reached(r) /\ Lined(r) /\ Lined(s)
  BY <1>5, <1>6, BecomeReached, InvLined, CurLined DEF Inv, WellFormed, MInv, s
<1>13. \A n \in MTX : Line(r, n) = IF n = m THEN Line(s, n) \cup {t} ELSE Line(s, n)
  <2> SUFFICES ASSUME NEW n \in MTX
               PROVE  Line(r, n) = IF n = m THEN Line(s, n) \cup {t} ELSE Line(s, n)
    OBVIOUS
  <2>1. \A u \in TSK \ {t} : BlockedOn(r, u, n) <=> BlockedOn(s, u, n)
    BY <1>9 DEF BlockedOn
  <2>2. BlockedOn(r, t, n) <=> n = m
    BY <1>9, <1>10 DEF BlockedOn
  <2> QED BY <1>1, <1>2, <1>12, <2>1, <2>2 DEF Lined
<1>14. \A n \in MTX : Owner(r, n) = Owner(s, n) /\ r.mtx[n].p_loctsk = s.mtx[n].p_loctsk
  BY <1>6, KeepsFields, Mutexes DEF Owner, WobjExists
<1>15. Joined(s, r, t, m)
  BY <1>1, <1>2, <1>3, <1>13, <1>14 DEF Joined
<1> QED BY <1>12, <1>15, JoinedStep DEF LocksStep, s

LEMMA lock_mtx_lock ==
    ASSUME MInv, IInv', NEW m \in MTX, loc_mtx(m) \/ ploc_mtx(m) \/ tloc_mtx(m)
    PROVE  LocksStep
<1>1. CASE LockFree(m)
  BY <1>1, lock_free_lock DEF loc_mtx, ploc_mtx, tloc_mtx, Dispatchable, TskCtxUnl
<1>2. CASE loc_mtx(m) /\ ~LockFree(m)
  <2>1. /\ Dispatchable("loc_mtx") /\ ObjectExists(m) /\ ~tcb[p_runtsk].raster
        /\ CeilingPermits(p_runtsk, m) /\ mtx[m].p_loctsk \notin {NULL, p_runtsk}
        /\ Become(dispatch(wobj_make_wait_tmout(Cur, TS_WAITING_MTX, m, "TMO_FEVR")))
    BY <1>2, wobj_make_wait_fevr DEF loc_mtx
  <2> QED BY <2>1, wait_mtx_lock
<1>3. CASE tloc_mtx(m) /\ ~LockFree(m)
  <2>1. /\ Dispatchable("tloc_mtx") /\ ObjectExists(m) /\ ~tcb[p_runtsk].raster
        /\ CeilingPermits(p_runtsk, m) /\ mtx[m].p_loctsk \notin {NULL, p_runtsk}
        /\ Become(dispatch(wobj_make_wait_tmout(Cur, TS_WAITING_MTX, m, "finite")))
    BY <1>3 DEF tloc_mtx
  <2> QED BY <2>1, wait_mtx_lock
<1> QED BY <1>1, <1>2, <1>3 DEF ploc_mtx


-----------------------------------------------------------------------------
(* A wait that ends without a mutex.                                       *)

(* From s to r only the TCB of task t changes of what mutexes depend on.   *)
OnlyTask(s, r, t) ==
    /\ HasFields(r, KernelField) /\ HasFields(r.tcb, TSK)
    /\ \A u \in TSK : HasFields(r.tcb[u], TcbField)
    /\ r.mtx = s.mtx
    /\ \A m \in MTX : r.wobj[m].wobjatr = s.wobj[m].wobjatr
    /\ \A u \in TSK \ {t} : r.tcb[u] = s.tcb[u]

LEMMA OnlyTaskTrans ==
    ASSUME NEW s, NEW r, NEW n, NEW t, OnlyTask(s, r, t), OnlyTask(r, n, t)
    PROVE  OnlyTask(s, n, t)
BY DEF OnlyTask

LEMMA OnlyTaskSelf ==
    ASSUME NEW s, NEW t, WellFormed(s)
    PROVE  OnlyTask(s, s, t)
BY DEF OnlyTask, WellFormed, TcbOK

LEMMA set_tcb_only ==
    ASSUME NEW n, NEW s, NEW t \in TSK, OnlyTask(n, s, t), NEW f \in TcbField, NEW v
    PROVE  LET r == [s EXCEPT !.tcb[t][f] = v]
           IN  /\ OnlyTask(n, r, t) /\ r.tcb[t][f] = v
               /\ \A g \in TcbField \ {f} : r.tcb[t][g] = s.tcb[t][g]
BY DEF OnlyTask, HasFields, KernelField

LEMMA make_runnable_only ==
    ASSUME NEW n, NEW s, NEW t, OnlyTask(n, s, t)
    PROVE  LET r == make_runnable(s, t)
           IN  OnlyTask(n, r, t) /\ r.tcb[t] = s.tcb[t]
BY DEF OnlyTask, HasFields, KernelField, make_runnable

LEMMA wait_dequeue_wobj_only ==
    ASSUME NEW s, NEW t, WellFormed(s)
    PROVE  LET d == wait_dequeue_wobj(s, t)
           IN  OnlyTask(s, d, t) /\ d.tcb = s.tcb
<1> DEFINE w == s.tcb[t].p_wobjcb
           f == queue_of(s.tcb[t].tstat)
           q == queue_delete(s.wobj[w][f], t)
           d == wait_dequeue_wobj(s, t)
<1>1. d = s \/ d = [s EXCEPT !.wobj[w][f] = q]
  BY DEF wait_dequeue_wobj
<1>2. f # "wobjatr" /\ OnlyTask(s, s, t)
  BY OnlyTaskSelf DEF queue_of
<1>3. /\ HasFields(s, KernelField) /\ HasFields(s.wobj, WOBJ)
      /\ \A v \in WOBJ : HasFields(s.wobj[v], WobjField)
  BY DEF WellFormed
<1> HIDE DEF w, f, q, d
<1>4. OnlyTask(s, d, t) /\ d.tcb = s.tcb
  <2> DEFINE b == [s EXCEPT !.wobj[w][f] = q]
  <2>1. \A m \in MTX : b.wobj[m].wobjatr = s.wobj[m].wobjatr
    BY <1>2, <1>3, Mutexes DEF HasFields, KernelField, WobjField
  <2>2. HasFields(b, KernelField) /\ b.tcb = s.tcb /\ b.mtx = s.mtx
    BY <1>3 DEF HasFields, KernelField
  <2> HIDE DEF b
  <2>3. OnlyTask(s, b, t)
    BY <1>2, <2>1, <2>2 DEF OnlyTask
  <2> QED BY <1>1, <1>2, <2>2, <2>3 DEF b
<1> QED BY <1>4 DEF d

LEMMA wait_dequeue_only ==
    ASSUME NEW s, NEW t, WellFormed(s)
    PROVE  LET r == wait_dequeue_tmevtb(wait_dequeue_wobj(s, t), t)
           IN  OnlyTask(s, r, t) /\ r.tcb = s.tcb
<1> DEFINE d == wait_dequeue_wobj(s, t)
           r == wait_dequeue_tmevtb(d, t)
<1>4. OnlyTask(s, d, t) /\ d.tcb = s.tcb
  BY wait_dequeue_wobj_only
<1> HIDE DEF d
<1>5. r = d \/ r = [d EXCEPT !.tmevtb[t] = "none"]
  BY DEF wait_dequeue_tmevtb
<1> HIDE DEF r
<1>6. OnlyTask(s, r, t) /\ r.tcb = d.tcb
  BY <1>4, <1>5 DEF OnlyTask, HasFields, KernelField
<1> QED BY <1>4, <1>6 DEF r, d

(* From n to r only task t changes, which waits no more and is otherwise as*)
(* in s.                                                                   *)
WaitsNoMore(n, s, r, t) ==
    /\ OnlyTask(n, r, t) /\ r.tcb[t].tstat \in {TS_RUNNABLE, TS_SUSPENDED}
    /\ \A g \in TcbField \ {"tstat"} : r.tcb[t][g] = s.tcb[t][g]

LEMMA make_non_wait_only ==
    ASSUME NEW n, NEW s, NEW t \in TSK, OnlyTask(n, s, t)
    PROVE  WaitsNoMore(n, s, make_non_wait(s, t), t)
<1> DEFINE f == "tstat"
           x == TS_RUNNABLE
           y == TS_SUSPENDED
           a == [s EXCEPT !.tcb[t][f] = x]
           b == [s EXCEPT !.tcb[t][f] = y]
           r == make_non_wait(s, t)
<1>1. r = make_runnable(a, t) \/ r = b
  BY DEF make_non_wait
<1>2. f \in TcbField
  BY DEF TcbField
<1>0. x = TS_RUNNABLE /\ y = TS_SUSPENDED
  OBVIOUS
<1> HIDE DEF f, x, y
<1>6. /\ OnlyTask(n, a, t) /\ a.tcb[t][f] = x
      /\ \A g \in TcbField \ {f} : a.tcb[t][g] = s.tcb[t][g]
  BY <1>2, set_tcb_only
<1>7. /\ OnlyTask(n, b, t) /\ b.tcb[t][f] = y
      /\ \A g \in TcbField \ {f} : b.tcb[t][g] = s.tcb[t][g]
  BY <1>2, set_tcb_only
<1> HIDE DEF a, b, r
<1>3. /\ OnlyTask(n, a, t) /\ a.tcb[t][f] = TS_RUNNABLE
      /\ \A g \in TcbField \ {f} : a.tcb[t][g] = s.tcb[t][g]
      /\ OnlyTask(n, b, t) /\ b.tcb[t][f] = TS_SUSPENDED
      /\ \A g \in TcbField \ {f} : b.tcb[t][g] = s.tcb[t][g]
  BY <1>0, <1>6, <1>7
<1>4. OnlyTask(n, make_runnable(a, t), t) /\ make_runnable(a, t).tcb[t] = a.tcb[t]
  BY <1>3, make_runnable_only
<1>5. r.tcb[t][f] \in {TS_RUNNABLE, TS_SUSPENDED}
  BY <1>1, <1>3, <1>4
<1>8. /\ OnlyTask(n, r, t) /\ r.tcb[t].tstat \in {TS_RUNNABLE, TS_SUSPENDED}
      /\ \A g \in TcbField \ {"tstat"} : r.tcb[t][g] = s.tcb[t][g]
  BY <1>1, <1>3, <1>4, <1>5 DEF f
<1> QED BY <1>8 DEF WaitsNoMore, r

(* What the end of the wait of a task does.                                *)
LEMMA end_wait_only ==
    ASSUME NEW n, NEW s, NEW t \in TSK, OnlyTask(n, s, t), NEW e
    PROVE  LET r == make_non_wait(set_wercd(s, t, e), t)
           IN  /\ OnlyTask(n, r, t) /\ r.tcb[t].tstat \in {TS_RUNNABLE, TS_SUSPENDED}
               /\ r.tcb[t].winfo = e
               /\ \A g \in TcbField \ {"tstat", "winfo"} : r.tcb[t][g] = s.tcb[t][g]
<1> DEFINE f == "winfo"
           a == [s EXCEPT !.tcb[t][f] = e]
           r == make_non_wait(a, t)
<1>1. set_wercd(s, t, e) = a /\ f \in TcbField /\ f # "tstat"
  BY DEF set_wercd, TcbField
<1> HIDE DEF f
<1>2. OnlyTask(n, a, t) /\ a.tcb[t][f] = e /\ \A g \in TcbField \ {f} : a.tcb[t][g] = s.tcb[t][g]
  BY <1>1, set_tcb_only
<1> HIDE DEF a
<1>3. /\ OnlyTask(n, r, t) /\ r.tcb[t].tstat \in {TS_RUNNABLE, TS_SUSPENDED}
      /\ \A g \in TcbField \ {"tstat"} : r.tcb[t][g] = a.tcb[t][g]
  BY <1>2, make_non_wait_only DEF WaitsNoMore
<1> HIDE DEF r
<1>4. r.tcb[t][f] = e
  BY <1>1, <1>2, <1>3
<1> QED BY <1>1, <1>2, <1>3, <1>4 DEF f, r

LEMMA LeaveStep ==
    ASSUME MInv, IInv', NEW r, Reached(r), NEW t \in TSK, OnlyTask(Cur, r, t),
           r.tcb[t].tstat \in {TS_RUNNABLE, TS_SUSPENDED},
           TSTAT_WAIT_WOBJ(Cur.tcb[t].tstat) => r.tcb[t].winfo # "E_OK"
    PROVE  LocksStep
<1>1. Lined(Cur) /\ Lined(r)
  BY CurLined, EndLined DEF MInv
<1>2. ~TSTAT_WAIT_WOBJ(r.tcb[t].tstat)
  BY DEF TSTAT_WAIT_WOBJ, TS_RUNNABLE, TS_SUSPENDED, TS_WOBJ_MASK, TS_WOBJCB_MASK
<1>3. \A m \in MTX : /\ Owner(r, m) = Owner(Cur, m)
                     /\ r.mtx[m].p_loctsk = Cur.mtx[m].p_loctsk
  BY Mutexes DEF OnlyTask, Owner, WobjExists
<1>4. \A m \in MTX : Line(r, m) = Line(Cur, m) \ {t}
  <2> TAKE m \in MTX
  <2>1. /\ \A u \in TSK \ {t} : BlockedOn(r, u, m) <=> BlockedOn(Cur, u, m)
        /\ ~BlockedOn(r, t, m)
    BY <1>2 DEF OnlyTask, BlockedOn
  <2> QED BY <1>1, <2>1 DEF Lined
<1>5. CASE r.tcb[t].winfo # "E_OK"
  <2>1. Left(Cur, r, t)
    BY <1>3, <1>4, <1>5 DEF Left
  <2> QED BY <2>1, LeftStep DEF LocksStep
<1>6. CASE r.tcb[t].winfo = "E_OK"
  <2>1. \A m \in MTX : t \notin Line(Cur, m)
    BY <1>1, <1>6 DEF Lined, BlockedOn
  <2>2. Alike(Cur, r)
    BY <1>3, <1>4, <2>1 DEF Alike
  <2> QED BY <2>2, AlikeStep DEF LocksStep
<1> QED BY <1>5, <1>6

LEMMA rel_wai_lock ==
    ASSUME MInv, IInv', NEW t \in TSK, rel_wai(t)
    PROVE  LocksStep
<1> DEFINE d == wait_dequeue_tmevtb(wait_dequeue_wobj(Cur, t), t)
           e == "E_RLWAI"
           r == make_non_wait(set_wercd(d, t, e), t)
<1>1. WellFormed(Cur)
  BY StepBegins DEF MInv
<1>2. Become(dispatch_or_request(r)) /\ e # "E_OK"
  BY DEF rel_wai
<1>3. OnlyTask(Cur, d, t)
  BY <1>1, wait_dequeue_only
<1> HIDE DEF d, e
<1>4. /\ OnlyTask(Cur, r, t) /\ r.tcb[t].tstat \in {TS_RUNNABLE, TS_SUSPENDED}
      /\ r.tcb[t].winfo = e
  BY <1>3, end_wait_only
<1> HIDE DEF r
<1>5. Reached(r)
  BY <1>2, <1>4, BecomeReached DEF OnlyTask
<1> QED BY <1>2, <1>4, <1>5, LeaveStep

LEMMA timeout_lock ==
    ASSUME MInv, IInv', NEW t \in TSK, timeout(t)
    PROVE  LocksStep
<1> DEFINE c == Cur
           v == "none"
           s == [c EXCEPT !.tmevtb[t] = v]
           d == wait_dequeue_wobj(s, t)
           e == "E_TMOUT"
           o == "E_OK"
           r == make_non_wait(set_wercd(d, t, e), t)
           n == make_non_wait(set_wercd(s, t, o), t)
<1>1. WellFormed(c) /\ TaskOK(c, t, Ends(c)) /\ c.tmevtb = tmevtb
  BY StepBegins, CurFields DEF MInv, Inv
<1>2. /\ Become(IF tmevtb[t] = "wait_tmout" THEN r ELSE n) /\ tmevtb[t] # "none"
      /\ e # "E_OK" /\ o = "E_OK"
  BY DEF timeout, wait_tmout, wait_tmout_ok
<1> HIDE DEF v, c, e, o
<1>3. WellFormed(s) /\ s.tcb = c.tcb /\ s.mtx = c.mtx /\ s.wobj = c.wobj
  <2>1. TmevtbSet(c, s, t, v)
    BY <1>1, SetTmevtb
  <2>2. \A g \in KernelField \ {"tmevtb"} : s[g] = c[g]
    BY <1>1 DEF WellFormed, HasFields, KernelField
  <2> QED BY <2>1, <2>2 DEF TmevtbSet, TmevtbEdit, KernelField
<1> HIDE DEF s
<1>4. OnlyTask(c, s, t)
  BY <1>3 DEF OnlyTask, WellFormed, TcbOK
<1>5. OnlyTask(c, d, t) /\ d.tcb = s.tcb
  <2>1. OnlyTask(s, d, t) /\ d.tcb = s.tcb
    BY <1>3, wait_dequeue_wobj_only
  <2> QED BY <1>4, <2>1, OnlyTaskTrans
<1> HIDE DEF d
<1>6. CASE tmevtb[t] = "wait_tmout"
  <2>1. OnlyTask(c, r, t) /\ r.tcb[t].tstat \in {TS_RUNNABLE, TS_SUSPENDED} /\ r.tcb[t].winfo = e
    BY <1>5, end_wait_only
  <2> HIDE DEF r
  <2>2. Reached(r)
    BY <1>2, <1>6, <2>1, BecomeReached DEF OnlyTask
  <2> QED BY <1>2, <2>1, <2>2, LeaveStep DEF c
<1>7. CASE tmevtb[t] # "wait_tmout"
  <2>1. OnlyTask(c, n, t) /\ n.tcb[t].tstat \in {TS_RUNNABLE, TS_SUSPENDED}
    BY <1>4, end_wait_only
  <2> HIDE DEF n
  <2>2. Reached(n)
    BY <1>2, <1>7, <2>1, BecomeReached DEF OnlyTask
  <2>3. ~TSTAT_WAIT_WOBJ(c.tcb[t].tstat)
    <3>1. "DLY" \in c.tcb[t].tstat /\ TSTAT_WAITING(c.tcb[t].tstat) /\ c.tcb[t].tstat \in TSTATS
      BY <1>1, <1>2, <1>7 DEF TaskOK, WinfoOK, TMEVT
    <3>2. PICK x \in TS_WAITING_MASK : c.tcb[t].tstat = {x} \/ c.tcb[t].tstat = {x, "SUSPENDED"}
      BY <3>1, TstatFacts
    <3>3. x = "DLY" /\ (TSTAT_WAIT_WOBJ(c.tcb[t].tstat) <=> x \in TS_WOBJ_MASK)
      BY <3>1, <3>2, WaitFacts
    <3> QED BY <3>3 DEF TS_WOBJ_MASK, TS_WOBJCB_MASK
  <2> QED BY <2>1, <2>2, <2>3, LeaveStep DEF c
<1> QED BY <1>6, <1>7

-----------------------------------------------------------------------------
(* A mutex is given up.                                                    *)

(* Mutex m passes to the first task in its queue in s, which waits no more.*)
HandedOver(s, r, m) ==
    LET q == s.wobj[m].wait_queue
        t == Head(q)
    IN  IF q = <<>> THEN r.mtx[m].p_loctsk = NULL
        ELSE /\ r.mtx[m].p_loctsk = t
             /\ r.tcb[t].winfo = "E_OK"
             /\ r.tcb[t].tstat \in {TS_RUNNABLE, TS_SUSPENDED}

LEMMA make_non_wait_self ==
    ASSUME NEW s, WellFormed(s), NEW t \in TSK
    PROVE  WaitsNoMore(s, s, make_non_wait(s, t), t)
<1>1. OnlyTask(s, s, t)
  BY OnlyTaskSelf
<1> QED BY <1>1, make_non_wait_only

(* Nothing else that mutexes depend on changes from s to r.                *)
Relayed(s, r, m) ==
    /\ HandedOver(s, r, m)
    /\ \A x \in MTX \ {m} : /\ r.mtx[x].p_loctsk = s.mtx[x].p_loctsk
                            /\ r.wobj[x].wait_queue = s.wobj[x].wait_queue
    /\ \A x \in MTX : r.wobj[x].wobjatr = s.wobj[x].wobjatr
    /\ \A u \in TSK :
          \/ /\ r.tcb[u].tstat = s.tcb[u].tstat /\ r.tcb[u].p_wobjcb = s.tcb[u].p_wobjcb
             /\ r.tcb[u].winfo = s.tcb[u].winfo
          \/ /\ s.wobj[m].wait_queue # <<>> /\ u = Head(s.wobj[m].wait_queue)
             /\ r.tcb[u].winfo = "E_OK" /\ r.tcb[u].tstat \in {TS_RUNNABLE, TS_SUSPENDED}

LEMMA mutex_release_relays ==
    ASSUME NEW s, WellFormed(s), NEW m \in MTX,
           s.wobj[m].wait_queue # <<>> => Head(s.wobj[m].wait_queue) \in TSK
    PROVE  Relayed(s, mutex_release(s, m), m)
<1> DEFINE q   == s.wobj[m].wait_queue
           pri == s.mtx[m].ceilpri
           r   == mutex_release(s, m)
<1>1. HasFields(s, KernelField) /\ HasFields(s.mtx, MTX) /\ pri \in TPRI /\ m \in WOBJ
  BY TaskOpsAssumption DEF WellFormed
<1>2. CASE q = <<>>
  <2> DEFINE v == NULL
             n == [s EXCEPT !.mtx[m].p_loctsk = v]
  <2>1. v \in TSK \cup {NULL} /\ r = n
    BY <1>2 DEF mutex_release
  <2> HIDE DEF v
  <2>2. /\ MtxEdit(s, n) /\ n.mtx[m].p_loctsk = v
        /\ \A k \in MTX \ {m} : n.mtx[k].p_loctsk = s.mtx[k].p_loctsk
    BY <2>1, SetOwner
  <2> HIDE DEF n, r
  <2>3. n.tcb = s.tcb /\ n.wobj = s.wobj
    BY <2>2, MtxEditLike
  <2>4. n.mtx[m].p_loctsk = NULL
    BY <2>2 DEF v
  <2> QED BY <1>2, <2>1, <2>2, <2>3, <2>4 DEF Relayed, HandedOver, r
<1>3. CASE q # <<>>
  <2> DEFINE t == Head(q)
             l == Tail(q)
             f == "wait_queue"
             g == "winfo"
             h == "priority"
             e == "E_OK"
             v == "none"
             a == [s EXCEPT !.wobj[m][f] = l]
             b == wait_dequeue_tmevtb(a, t)
             c == set_wercd(b, t, e)
             o == lock_record(c, t, m)
             z == IF MTX_CEILING(s, m) /\ pri < s.tcb[t].priority
                  THEN [o EXCEPT !.tcb[t][h] = pri] ELSE o
  <2>1. r = make_non_wait(z, t) /\ t \in TSK
    BY <1>3 DEF mutex_release
  <2>2. /\ f \in QUEUE /\ g \in TcbField /\ g \notin {"priority", "bpriority", "lastmtx"}
        /\ h \in TcbField /\ h \notin {"lastmtx", "tstat", "p_wobjcb", "winfo"}
        /\ c = [b EXCEPT !.tcb[t][g] = e]
        /\ b = a \/ b = [a EXCEPT !.tmevtb[t] = v]
    BY DEF QUEUE, TcbField, set_wercd, wait_dequeue_tmevtb
  <2>20. f = "wait_queue" /\ g = "winfo" /\ h = "priority" /\ e = "E_OK"
    OBVIOUS
  <2> HIDE DEF t, l, f, g, h, e, v
  <2>3. QueueSet(s, a, m, f, l)
    BY <1>1, <2>2, SetQueue
  <2> HIDE DEF a
  <2>4. WellFormed(a) /\ a.tcb = s.tcb /\ a.mtx = s.mtx
    BY <2>3 DEF QueueSet, QueueEdit, Agree, KernelField
  <2>5. WellFormed(b) /\ b.tcb = a.tcb /\ b.mtx = a.mtx /\ b.wobj = a.wobj
    <3> DEFINE n == [a EXCEPT !.tmevtb[t] = v]
    <3>1. TmevtbSet(a, n, t, v)
      BY <2>1, <2>4, SetTmevtb
    <3> HIDE DEF n
    <3>2. WellFormed(n) /\ n.tcb = a.tcb /\ n.mtx = a.mtx /\ n.wobj = a.wobj
      BY <3>1 DEF TmevtbSet, TmevtbEdit, Agree, KernelField
    <3> QED BY <2>2, <2>4, <3>2 DEF n
  <2> HIDE DEF b
  <2>6. TcbSet(b, c, t, g, e)
    BY <2>1, <2>2, <2>5, SetTcb
  <2> HIDE DEF c
  <2>7. WellFormed(c) /\ c.mtx = b.mtx /\ c.wobj = b.wobj
    BY <2>6 DEF TcbSet, TcbEdit, Agree, KernelField
  <2>8. Recorded(c, o, t, m)
    BY <2>1, <2>7, lock_record_edit
  <2> HIDE DEF o
  <2>9. /\ WellFormed(o) /\ o.wobj = c.wobj
    BY <2>8 DEF Recorded, Agree, KernelField
  <2>10. /\ TcbEdit(o, z, t, {"priority"})
    <3> DEFINE n == [o EXCEPT !.tcb[t][h] = pri]
    <3>1. TcbSet(o, n, t, h, pri)
      <4> HIDE DEF pri
      <4> QED BY <1>1, <2>1, <2>2, <2>9, SetTcb
    <3>2. TcbEdit(o, o, t, {"priority"})
      BY <2>9 DEF TcbEdit, Agree
    <3>3. z = IF MTX_CEILING(s, m) /\ pri < s.tcb[t].priority THEN n ELSE o
      OBVIOUS
    <3> HIDE DEF n, z
    <3> QED BY <2>20, <3>1, <3>2, <3>3 DEF TcbSet
  <2> HIDE DEF z
  <2>11. WellFormed(z) /\ z.mtx = o.mtx /\ z.wobj = o.wobj
    BY <2>10 DEF TcbEdit, Agree, KernelField
  <2>12. /\ \A u \in TSK \ {t} : z.tcb[u] = s.tcb[u]
         /\ z.tcb[t].winfo = "E_OK"
    <3>1. \A u \in TSK \ {t} : z.tcb[u] = s.tcb[u]
      BY <2>4, <2>5, <2>6, <2>8, <2>10 DEF TcbSet, TcbEdit, Recorded
    <3>2. z.tcb[t].winfo = c.tcb[t].winfo
      BY <2>8, <2>10 DEF TcbEdit, Recorded, TcbField
    <3> QED BY <2>6, <2>20, <3>1, <3>2 DEF TcbSet
  <2> DEFINE n == make_non_wait(z, t)
  <2>13. /\ OnlyTask(z, n, t) /\ n.tcb[t].tstat \in {TS_RUNNABLE, TS_SUSPENDED}
         /\ \A i \in TcbField \ {"tstat"} : n.tcb[t][i] = z.tcb[t][i]
    <3>1. WellFormed(z) /\ t \in TSK
      BY <2>1, <2>11
    <3> HIDE DEF n
    <3>2. WaitsNoMore(z, z, n, t)
      BY <3>1, make_non_wait_self DEF n
    <3> QED BY <3>2 DEF WaitsNoMore
  <2>14. Still(z, n)
    BY make_non_wait_still
  <2>15. r = n
    BY <2>1
  <2> HIDE DEF n, r
  <2>16. /\ n.mtx = z.mtx /\ \A x \in MTX : n.wobj[x] = z.wobj[x]
    BY <2>11, <2>14 DEF WellFormed, Still, Framed
  <2>17. /\ \A u \in TSK \ {t} : n.tcb[u] = s.tcb[u]
         /\ n.tcb[t].winfo = "E_OK"
    BY <2>12, <2>13 DEF OnlyTask, TcbField
  <2>18. /\ n.mtx[m].p_loctsk = t
         /\ \A x \in MTX \ {m} : n.mtx[x].p_loctsk = s.mtx[x].p_loctsk
    BY <2>4, <2>5, <2>7, <2>8, <2>11, <2>16 DEF Recorded
  <2>19. /\ \A x \in MTX \ {m} : n.wobj[x].wait_queue = s.wobj[x].wait_queue
         /\ \A x \in MTX : n.wobj[x].wobjatr = s.wobj[x].wobjatr
    <3>1. \A x \in MTX : x \in WOBJ
      BY Mutexes
    <3>2. n.wobj = n.wobj /\ \A x \in MTX : n.wobj[x] = a.wobj[x]
      BY <2>5, <2>7, <2>9, <2>11, <2>16
    <3> QED BY <2>2, <2>3, <2>20, <3>1, <3>2 DEF QueueSet, QueueEdit
  <2> QED BY <1>3, <2>13, <2>15, <2>17, <2>18, <2>19 DEF Relayed, HandedOver, r, t
<1> QED BY <1>2, <1>3


(* The queue of a mutex, after its first task has left.                    *)
LEMMA RestOfLine ==
    ASSUME NEW s, NEW X, NEW E, Inv(s, X, E), NEW m \in MTX, s.wobj[m].wait_queue # <<>>
    PROVE  /\ Head(s.wobj[m].wait_queue) \in Line(s, m)
           /\ Head(s.wobj[m].wait_queue) \in TSK \ X
           /\ BlockedOn(s, Head(s.wobj[m].wait_queue), m)
<1> DEFINE q == s.wobj[m].wait_queue
           S == Line(s, m)
<1>1. Lists(q, S, TSK) /\ S = {t \in TSK \ X : BlockedOn(s, t, m)} /\ q # <<>>
  BY QueuedTasks
<1> HIDE DEF q, S
<1>2. Head(q) \in S
  BY <1>1, ListsEmpty
<1> QED BY <1>1, <1>2 DEF q, S

(* Who waits for which mutex, when one of them has been handed over.       *)
LEMMA RelayedLines ==
    ASSUME NEW s, NEW r, NEW E, Inv(s, {}, E), Lined(s), Lined(r), NEW m \in MTX,
           Relayed(s, r, m)
    PROVE  /\ s.wobj[m].wait_queue = <<>> => Line(r, m) = {}
           /\ s.wobj[m].wait_queue # <<>> =>
                 Line(r, m) = Line(s, m) \ {Head(s.wobj[m].wait_queue)}
           /\ \A x \in MTX \ {m} : Line(r, x) = Line(s, x)
<1> DEFINE q == s.wobj[m].wait_queue
           t == Head(q)
<1>1. q # <<>> => t \in TSK /\ BlockedOn(s, t, m)
  BY RestOfLine
<1>2. q = <<>> => Line(s, m) = {}
  <2> DEFINE S == Line(s, m)
  <2>1. Lists(q, S, TSK)
    BY QueuedTasks
  <2> HIDE DEF S, q
  <2> QED BY <2>1, ListsEmpty DEF S
<1>3. ASSUME NEW u \in TSK, NEW x \in MTX
      PROVE  BlockedOn(r, u, x) <=> BlockedOn(s, u, x) /\ ~(q # <<>> /\ u = t)
  <2>1. CASE q # <<>> /\ u = t
    <3>1. r.tcb[u].tstat \in {TS_RUNNABLE, TS_SUSPENDED}
      BY <2>1 DEF Relayed, HandedOver
    <3>2. ~TSTAT_WAIT_WOBJ(r.tcb[u].tstat)
      BY <3>1 DEF TSTAT_WAIT_WOBJ, TS_RUNNABLE, TS_SUSPENDED, TS_WOBJ_MASK, TS_WOBJCB_MASK
    <3> QED BY <2>1, <3>2 DEF BlockedOn
  <2>2. CASE ~(q # <<>> /\ u = t)
    <3>1. r.tcb[u].tstat = s.tcb[u].tstat /\ r.tcb[u].p_wobjcb = s.tcb[u].p_wobjcb
      BY <2>2 DEF Relayed
    <3> QED BY <2>2, <3>1 DEF BlockedOn
  <2> QED BY <2>1, <2>2
<1>4. ASSUME NEW x \in MTX
      PROVE  Line(r, x) = {u \in Line(s, x) : ~(q # <<>> /\ u = t)}
  BY <1>3 DEF Lined
<1>5. q # <<>> => \A x \in MTX \ {m} : t \notin Line(s, x)
  BY <1>1 DEF Lined, BlockedOn
<1> HIDE DEF q
<1> QED BY <1>2, <1>4, <1>5 DEF q

LEMMA unl_mtx_lock ==
    ASSUME MInv, IInv', NEW m \in MTX, unl_mtx(m)
    PROVE  LocksStep
<1> DEFINE t == p_runtsk
           X == {}
           l == Tail(tcb[t].lastmtx)
           s == Cur
           E == Ends(s)
           f == "lastmtx"
           a == [s EXCEPT !.tcb[t][f] = l]
           d == mutex_drop_priority(a, t, m)
           r == mutex_release(d, m)
<1>1. /\ Inv(s, X, E) /\ WellFormed(s) /\ t \in TSK \ X /\ LockInv(s, X, {})
  BY TaskContext, StepBegins DEF unl_mtx, KInv, LocksOK, MInv
<1>2. tcb[t].lastmtx # <<>> /\ s.tcb = tcb /\ m = Head(tcb[t].lastmtx)
  BY CurFields DEF unl_mtx
<1>3. l \in Seq(MTX)
  BY <1>1, <1>2 DEF WellFormed, TcbOK
<1>5. Become(dispatch(r))
  <2>1. a = [Cur EXCEPT !.tcb[p_runtsk].lastmtx = Tail(@)]
    BY <1>2
  <2> QED BY <2>1 DEF unl_mtx
<1>4. m = Head(s.tcb[t].lastmtx) /\ s.tcb[t].lastmtx # <<>>
  BY <1>2
<1>0. TSTAT_RUNNABLE(s.tcb[t].tstat)
  BY <1>1, TaskContext DEF unl_mtx, MInv
<1>20. X = {}
  OBVIOUS
<1> HIDE DEF t, l, E, X, s
<1>6. /\ Inv(d, X, E) /\ Passes(s, d) /\ TcbSet(s, a, t, f, l)
      /\ KeepsLocks(a, d) /\ d.mtx = s.mtx
      /\ ToSet(l) = ToSet(s.tcb[t].lastmtx) \ {m} => CeilingsKept(s, d, {})
  BY <1>1, <1>3, mutex_unlink_inv
<1>7. Owner(s, m) = t
  <2>1. m \in Owned(s, t, {})
    BY <1>1, <1>4, LastOwned
  <2> QED BY <2>1 DEF Owned, Owner
<1>8. /\ \A x \in MTX : d.wobj[x] = s.wobj[x]
  <2>1. WellFormed(a) /\ a.wobj = s.wobj /\ a.tcb[t].tstat = s.tcb[t].tstat
    BY <1>6 DEF TcbSet, TcbEdit, Agree, KernelField, TcbField
  <2> HIDE DEF a, d
  <2>2. d = a \/ \E p : d = change_priority(a, t, p, TRUE)
    BY DEF mutex_drop_priority, d
  <2>3. Still(a, d)
    BY <1>0, <2>1, <2>2, change_priority_still, StillSelf
  <2> QED BY <2>1, <2>3 DEF Still, Framed, WellFormed
<1>9. \A u \in TSK, g \in {"tstat", "p_wobjcb", "winfo"} : d.tcb[u][g] = s.tcb[u][g]
  <2>1. Inv(a, X, E)
    <3>1. Like(s, a, X)
      BY <1>1, <1>6, TcbEditLike DEF TcbSet, TaskField
    <3> QED BY <1>1, <3>1, Change
  <2>2. NewPriority(a, d, t)
    BY <1>1, <2>1, mutex_drop_priority_inv
  <2> HIDE DEF a, d
  <2>3. \A u \in TSK, g \in {"tstat", "p_wobjcb", "winfo"} : a.tcb[u][g] = s.tcb[u][g]
    BY <1>6 DEF TcbSet, TcbEdit, TcbField
  <2> QED BY <2>2, <2>3 DEF NewPriority, TcbField
<1> HIDE DEF a, d, r
<1>10. Relayed(d, r, m)
  <2>1. d.wobj[m].wait_queue # <<>> => Head(d.wobj[m].wait_queue) \in TSK
    BY <1>6, RestOfLine
  <2> QED BY <1>6, <2>1, mutex_release_relays DEF r, Inv
<1>11. Relayed(s, r, m)
  BY <1>6, <1>8, <1>9, <1>10 DEF Relayed, HandedOver
<1>12. Reached(r)
  <2>1. HasFields(r, KernelField)
    BY <1>6, mutex_release_inv DEF r, Inv, WellFormed
  <2> QED BY <1>5, <2>1, BecomeReached
<1>13. /\ s.wobj[m].wait_queue = <<>> => Line(r, m) = {}
       /\ s.wobj[m].wait_queue # <<>> =>
             Line(r, m) = Line(s, m) \ {Head(s.wobj[m].wait_queue)}
       /\ \A x \in MTX \ {m} : Line(r, x) = Line(s, x)
  <2>1. Lined(s) /\ Lined(r) /\ Inv(s, {}, E)
    BY <1>1, <1>12, <1>20, CurLined, EndLined DEF s, MInv
  <2> HIDE DEF s
  <2> QED BY <1>11, <2>1, RelayedLines
<1>14. PassedOn(s, r, t, {m}, {})
  <2>1. \A x \in MTX : WobjExists(r, x) <=> WobjExists(s, x)
    BY <1>11 DEF Relayed, WobjExists
  <2>2. IF s.wobj[m].wait_queue = <<>>
        THEN r.mtx[m].p_loctsk = NULL /\ Line(r, m) = {}
        ELSE LET first == Head(s.wobj[m].wait_queue)
             IN  /\ r.mtx[m].p_loctsk = first
                 /\ Line(r, m) = Line(s, m) \ {first}
                 /\ r.tcb[first].winfo = "E_OK"
    BY <1>11, <1>13 DEF Relayed, HandedOver
  <2>3. \A x \in MTX \ {m} : r.mtx[x].p_loctsk = s.mtx[x].p_loctsk /\ Line(r, x) = Line(s, x) \ {}
    BY <1>11, <1>13 DEF Relayed
  <2> QED BY <1>7, <2>1, <2>2, <2>3 DEF PassedOn
<1>15. \A x \in MTX : t \notin Line(s, x)
  BY <1>0, <1>1, RunnableFree DEF s, MInv
<1> QED BY <1>1, <1>12, <1>14, <1>15, ReleaseStep DEF LocksStep, s

-----------------------------------------------------------------------------
(* A task that ends gives up all its mutexes.                              *)

(* From s to r task t has handed over some of them, and nothing else has   *)
(* changed that tells who waits for a mutex.                               *)
SameWait(s, r, u) ==
    /\ r.tcb[u].tstat = s.tcb[u].tstat /\ r.tcb[u].p_wobjcb = s.tcb[u].p_wobjcb
    /\ r.tcb[u].winfo = s.tcb[u].winfo

(* Task u was the first that waited for mutex x, and waits no longer.      *)
Heir(s, r, u, x) ==
    /\ s.wobj[x].wait_queue # <<>> /\ u = Head(s.wobj[x].wait_queue)
    /\ r.tcb[u].winfo = "E_OK" /\ r.tcb[u].tstat \in {TS_RUNNABLE, TS_SUSPENDED}

SameMutex(s, r, x) ==
    r.mtx[x].p_loctsk = s.mtx[x].p_loctsk /\ r.wobj[x].wait_queue = s.wobj[x].wait_queue

GivenUp(s, r, x, t) ==
    /\ x \in Owned(s, t, {}) /\ HandedOver(s, r, x) /\ r.mtx[x].p_loctsk # t
    /\ s.wobj[x].wait_queue # <<>> => Head(s.wobj[x].wait_queue) \in TSK

Shared(s, r, t) ==
    /\ \A x \in MTX : r.wobj[x].wobjatr = s.wobj[x].wobjatr
    /\ \A x \in MTX : SameMutex(s, r, x) \/ GivenUp(s, r, x, t)
    /\ \A u \in TSK : SameWait(s, r, u) \/ \E x \in Owned(s, t, {}) : Heir(s, r, u, x)

LEMMA SharedSelf ==
    ASSUME NEW s, NEW t
    PROVE  Shared(s, s, t)
BY DEF Shared, SameMutex, SameWait

LEMMA mutex_release_last_relays ==
    ASSUME NEW s, NEW X, NEW E, Inv(s, X, E), LockInv(s, X, {}), NEW t \in X, t \in TSK,
           s.tcb[t].lastmtx # <<>>
    PROVE  LET m == Head(s.tcb[t].lastmtx)
           IN  /\ m \in Owned(s, t, {}) /\ Relayed(s, mutex_release_last(s, t), m)
               /\ s.wobj[m].wait_queue # <<>> => Head(s.wobj[m].wait_queue) \in TSK \ {t}
<1> DEFINE held == s.tcb[t].lastmtx
           f    == "lastmtx"
           l    == Tail(held)
           m    == Head(held)
           a    == [s EXCEPT !.tcb[t][f] = l]
           r    == mutex_release(a, m)
<1>1. WellFormed(s) /\ held \in Seq(MTX) /\ f \in TcbField
      /\ f \notin {"priority", "bpriority"}
  BY DEF Inv, WellFormed, TcbOK, TcbField
<1>2. l \in Seq(MTX) /\ m \in MTX
  BY <1>1
<1>3. mutex_release_last(s, t) = r
  BY DEF mutex_release_last
<1>4. m \in Owned(s, t, {})
  BY LastOwned
<1>5. s.wobj[m].wait_queue # <<>> => Head(s.wobj[m].wait_queue) \in TSK \ X
  BY <1>2, RestOfLine
<1> HIDE DEF l, m, f, held
<1>6. TcbSet(s, a, t, f, l)
  BY <1>1, <1>2, SetTcb
<1> HIDE DEF a
<1>7. WellFormed(a) /\ a.wobj = s.wobj /\ a.mtx = s.mtx
  BY <1>6, TcbEditFields DEF TcbSet
<1>8. \A u \in TSK : SameWait(s, a, u)
  BY <1>6 DEF TcbSet, TcbEdit, TcbField, SameWait, f
<1>9. Relayed(a, r, m)
  BY <1>2, <1>5, <1>7, mutex_release_relays
<1> HIDE DEF r
<1>10. Relayed(s, r, m)
  BY <1>7, <1>8, <1>9 DEF Relayed, HandedOver, SameWait
<1> QED BY <1>3, <1>4, <1>5, <1>10 DEF m, held

(* A mutex that task t still holds, given up as well.                      *)
LEMMA SharedMore ==
    ASSUME NEW s, NEW a, NEW r, NEW t \in TSK, Shared(s, a, t),
           NEW m \in Owned(a, t, {}), Relayed(a, r, m),
           a.wobj[m].wait_queue # <<>> => Head(a.wobj[m].wait_queue) \in TSK \ {t}
    PROVE  Shared(s, r, t)
<1>1. m \in MTX /\ a.mtx[m].p_loctsk = t /\ WobjExists(a, m) /\ NULL # t
  BY TaskOpsAssumption DEF Owned
<1>2. SameMutex(s, a, m) /\ WobjExists(s, m)
  BY <1>1 DEF Shared, GivenUp, WobjExists
<1>3. m \in Owned(s, t, {})
  BY <1>1, <1>2 DEF Owned, SameMutex
<1>4. GivenUp(s, r, m, t)
  BY <1>1, <1>2, <1>3 DEF GivenUp, SameMutex, Relayed, HandedOver
<1>5. \A u \in TSK : SameWait(a, r, u) \/ Heir(a, r, u, m)
  BY DEF Relayed, SameWait, Heir
<1>6. ASSUME NEW x \in MTX, x # m
      PROVE  SameMutex(s, r, x) \/ GivenUp(s, r, x, t)
  <2>1. SameMutex(a, r, x)
    BY <1>6 DEF Relayed, SameMutex
  <2>2. CASE SameMutex(s, a, x)
    BY <2>1, <2>2 DEF SameMutex
  <2>3. CASE GivenUp(s, a, x, t)
    <3> DEFINE h == Head(s.wobj[x].wait_queue)
    <3>1. CASE s.wobj[x].wait_queue = <<>>
      BY <2>1, <2>3, <3>1 DEF GivenUp, HandedOver, SameMutex
    <3>2. CASE s.wobj[x].wait_queue # <<>>
      <4>1. a.tcb[h].winfo = "E_OK" /\ a.tcb[h].tstat \in {TS_RUNNABLE, TS_SUSPENDED}
            /\ a.mtx[x].p_loctsk = h
        BY <2>3, <3>2 DEF GivenUp, HandedOver
      <4>2. r.tcb[h].winfo = "E_OK" /\ r.tcb[h].tstat \in {TS_RUNNABLE, TS_SUSPENDED}
        <5>1. h \in TSK
          BY <2>3, <3>2 DEF GivenUp
        <5> QED BY <1>5, <4>1, <5>1 DEF SameWait, Heir
      <4> QED BY <2>1, <2>3, <3>2, <4>1, <4>2 DEF GivenUp, HandedOver, SameMutex
    <3> QED BY <3>1, <3>2
  <2> QED BY <1>6, <2>2, <2>3 DEF Shared
<1>7. ASSUME NEW u \in TSK
      PROVE  SameWait(s, r, u) \/ \E x \in Owned(s, t, {}) : Heir(s, r, u, x)
  <2>1. CASE Heir(a, r, u, m)
    <3>1. Heir(s, r, u, m)
      BY <1>2, <2>1 DEF Heir, SameMutex
    <3> QED BY <1>3, <3>1
  <2>2. CASE SameWait(a, r, u)
    BY <2>2 DEF Shared, SameWait, Heir
  <2> QED BY <1>5, <2>1, <2>2
<1>8. \A x \in MTX : r.wobj[x].wobjatr = s.wobj[x].wobjatr
  BY DEF Shared, Relayed
<1> QED BY <1>4, <1>6, <1>7, <1>8 DEF Shared

LEMMA mutex_release_all_shares ==
    ASSUME NEW s, NEW X, NEW E, Inv(s, X, E), LockInv(s, X, {}), NEW t \in X, t \in TSK
    PROVE  Shared(s, mutex_release_all(s, t), t)
<1> DEFINE turns == Len(s.tcb[t].lastmtx)
<1>1. turns \in Nat
  BY DEF Inv, WellFormed, TcbOK
<1>5. PICK after : /\ mutex_release_all(s, t) = after[turns] /\ after[0] = s
                    /\ \A n \in 1 .. turns : after[n] = mutex_release_last(after[n - 1], t)
  BY <1>1, mutex_release_all_turns
<1> DEFINE Holds(n) == /\ Inv(after[n], X, E) /\ LockInv(after[n], X, {})
                       /\ Shared(s, after[n], t)
                       /\ Len(after[n].tcb[t].lastmtx) = turns - n
           S == {n \in 0 .. turns : ~Holds(n)}
           k == Min(S)
<1>6. Holds(0)
  <2>1. after[0] = s
    BY <1>5
  <2> QED BY <1>1, <2>1, SharedSelf
<1>7. ASSUME NEW n \in 0 .. turns, n # 0, Holds(n - 1)
      PROVE  Holds(n)
  <2> DEFINE a == after[n - 1]
  <2>1. after[n] = mutex_release_last(a, t)
    BY <1>1, <1>5, <1>7
  <2>2. /\ Inv(a, X, E) /\ LockInv(a, X, {}) /\ Shared(s, a, t)
        /\ Len(a.tcb[t].lastmtx) = turns - (n - 1)
    BY <1>7
  <2>3. a.tcb[t].lastmtx # <<>>
    <3> DEFINE l == a.tcb[t].lastmtx
    <3>1. n - 1 < turns /\ Len(l) = turns - (n - 1)
      BY <1>1, <1>7, <2>2
    <3> HIDE DEF l
    <3>2. Len(l) # 0
      BY <1>1, <1>7, <3>1
    <3>3. l # <<>>
      BY <3>2
    <3> QED BY <3>3 DEF l
  <2> HIDE DEF a
  <2> DEFINE r == mutex_release_last(a, t)
             m == Head(a.tcb[t].lastmtx)
  <2>4. /\ Inv(r, X, E)
        /\ Len(r.tcb[t].lastmtx) = Len(a.tcb[t].lastmtx) - 1
        /\ LockInv(r, X, {})
    BY <2>2, <2>3, mutex_release_last_inv
  <2>5. /\ m \in Owned(a, t, {}) /\ Relayed(a, r, m)
        /\ a.wobj[m].wait_queue # <<>> => Head(a.wobj[m].wait_queue) \in TSK \ {t}
    BY <2>2, <2>3, mutex_release_last_relays
  <2> HIDE DEF r, m
  <2>6. Shared(s, r, t)
    BY <2>2, <2>5, SharedMore
  <2>8. Len(r.tcb[t].lastmtx) = turns - n
    BY <1>1, <1>7, <2>2, <2>4
  <2>7. after[n] = r
    BY <2>1 DEF r
  <2> QED BY <2>4, <2>6, <2>7, <2>8
<1>8. Holds(turns)
  <2> HIDE DEF Holds
  <2> SUFFICES ASSUME ~Holds(turns) PROVE FALSE
    OBVIOUS
  <2>1. S \in SUBSET Nat /\ S # {}
    BY <1>1
  <2>2. k \in S /\ \A y \in S : k <= y
    BY <2>1, LeastOf
  <2> HIDE DEF k
  <2>3. k \in 0 .. turns /\ k # 0
    BY <1>6, <2>2
  <2>4. k - 1 \in 0 .. turns /\ ~(k <= k - 1)
    BY <1>1, <2>3
  <2>5. Holds(k - 1)
    BY <2>2, <2>4
  <2> QED BY <1>7, <2>2, <2>3, <2>5
<1> QED BY <1>5, <1>8

(* Nothing is left that it holds.                                          *)
LEMMA AllHanded ==
    ASSUME NEW s, NEW r, NEW X, NEW t \in TSK, Shared(s, r, t), LockInv(r, X, {}),
           r.tcb[t].lastmtx = <<>>
    PROVE  /\ \A x \in Owned(s, t, {}) : HandedOver(s, r, x)
           /\ \A x \in MTX \ Owned(s, t, {}) : SameMutex(s, r, x)
<1> DEFINE q == r.tcb[t].lastmtx
           O == Owned(r, t, {})
<1>1. Lists(q, O, MTX) /\ q = <<>>
  BY DEF LockInv
<1> HIDE DEF q, O
<1>2. O = {}
  BY <1>1, ListsEmpty
<1>3. ASSUME NEW x \in Owned(s, t, {})
      PROVE  HandedOver(s, r, x)
  <2>1. x \in MTX /\ WobjExists(s, x) /\ s.mtx[x].p_loctsk = t
    BY <1>3 DEF Owned
  <2>2. WobjExists(r, x)
    BY <2>1 DEF Shared, WobjExists
  <2>3. r.mtx[x].p_loctsk # t
    BY <1>2, <2>1, <2>2 DEF O, Owned
  <2> QED BY <2>1, <2>3 DEF Shared, SameMutex, GivenUp
<1>4. ASSUME NEW x \in MTX \ Owned(s, t, {})
      PROVE  SameMutex(s, r, x)
  BY <1>4 DEF Shared, GivenUp
<1> QED BY <1>3, <1>4

-----------------------------------------------------------------------------
(* The task that ends is in no queue of a mutex it does not wait for.      *)
LEMMA StopQueues ==
    ASSUME NEW s, WellFormed(s), NEW t \in TSK, NEW m \in MTX, ~BlockedOn(s, t, m)
    PROVE  LET tstat == s.tcb[t].tstat
               r == IF TSTAT_RUNNABLE(tstat) THEN make_non_runnable(s, t)
                    ELSE IF TSTAT_WAITING(tstat)
                    THEN wait_dequeue_tmevtb(wait_dequeue_wobj(s, t), t)
                    ELSE s
           IN  r.wobj[m] = s.wobj[m]
<1> DEFINE tstat == s.tcb[t].tstat
           w == s.tcb[t].p_wobjcb
           f == queue_of(tstat)
           q == queue_delete(s.wobj[w][f], t)
           a == wait_dequeue_wobj(s, t)
<1>1. Framed(s) /\ m \in WOBJ
  BY Mutexes DEF WellFormed, Framed
<1>2. make_non_runnable(s, t).wobj[m] = s.wobj[m]
  BY <1>1, make_non_runnable_still DEF Still
<1>3. Framed(a) /\ a.wobj[m] = s.wobj[m]
  <2>1. TSTAT_WAIT_WOBJ(tstat) => w # m
    BY DEF BlockedOn
  <2>2. a = IF TSTAT_WAIT_WOBJ(tstat) THEN [s EXCEPT !.wobj[w][f] = q] ELSE s
    BY DEF wait_dequeue_wobj
  <2> HIDE DEF w, f, q, a, tstat
  <2> QED BY <1>1, <2>1, <2>2 DEF Framed, HasFields, KernelField
<1> HIDE DEF a
<1>4. wait_dequeue_tmevtb(a, t).wobj[m] = s.wobj[m]
  BY <1>3, wait_dequeue_tmevtb_still DEF Still
<1> QED BY <1>2, <1>4 DEF a

(* After its mutexes, only the task itself changes.                        *)
LEMMA EndOfTask ==
    ASSUME NEW b, NEW E, NEW t \in TSK, Inv(b, {t}, E),
           NEW r, LET c == make_dormant(b, t)
                  IN  \/ r = c
                      \/ r = make_active([c EXCEPT !.tcb[t].actque = FALSE], t)
    PROVE  /\ OnlyTask(b, r, t) /\ ~r.tcb[t].insvc /\ ~TSTAT_WAIT_WOBJ(r.tcb[t].tstat)
<1> DEFINE c == make_dormant(b, t)
           g == "actque"
           v == FALSE
           d == [c EXCEPT !.tcb[t][g] = v]
           f == "tstat"
           u == TS_RUNNABLE
           e == [d EXCEPT !.tcb[t][f] = u]
           G == TcbField
<1>1. TcbEdit(b, c, t, G) /\ Dormant(b, c, t)
  <2> DEFINE X == {t}
  <2>1. t \in X /\ Inv(b, X, E)
    OBVIOUS
  <2> HIDE DEF X
  <2> QED BY <2>1, make_dormant_inv
<1>2. r = c \/ r = make_runnable(e, t)
  BY DEF make_active
<1>3. ~TSTAT_WAIT_WOBJ(TS_DORMANT) /\ ~TSTAT_WAIT_WOBJ(u)
  BY DEF TSTAT_WAIT_WOBJ, TS_DORMANT, TS_RUNNABLE, TS_WOBJ_MASK, TS_WOBJCB_MASK
<1>0. f # "insvc" /\ g # "insvc" /\ f \in TcbField /\ g \in TcbField
  BY DEF TcbField
<1> HIDE DEF c, g, v, f, u
<1>4. OnlyTask(b, c, t)
  <2> HIDE DEF G
  <2>1. WellFormed(c) /\ c.wobj = b.wobj /\ c.mtx = b.mtx
    BY <1>1, TcbEditFields
  <2> QED BY <1>1, <2>1, OnlyTaskSelf DEF OnlyTask, TcbEdit
<1>5. /\ OnlyTask(b, d, t) /\ \A h \in TcbField \ {g} : d.tcb[t][h] = c.tcb[t][h]
  BY <1>0, <1>4, set_tcb_only
<1> HIDE DEF d
<1>6. /\ OnlyTask(b, e, t) /\ e.tcb[t][f] = u
      /\ \A h \in TcbField \ {f} : e.tcb[t][h] = d.tcb[t][h]
  BY <1>0, <1>5, set_tcb_only
<1> HIDE DEF e
<1>7. /\ OnlyTask(b, make_runnable(e, t), t) /\ make_runnable(e, t).tcb[t] = e.tcb[t]
  BY <1>6, make_runnable_only
<1>8. ~e.tcb[t].insvc /\ e.tcb[t].tstat = u
  BY <1>0, <1>1, <1>5, <1>6 DEF Dormant, TcbField, f
<1> QED BY <1>1, <1>2, <1>3, <1>4, <1>7, <1>8 DEF Dormant


(* The heirs of the mutexes of a task that ends are the only tasks that    *)
(* come out of the lines, besides the task itself.                         *)
LEMMA HeirsLeave ==
    ASSUME NEW a, NEW b, NEW r, NEW t \in TSK, Shared(a, b, t), OnlyTask(b, r, t),
           \A x \in Owned(a, t, {}) : HandedOver(a, b, x),
           ~TSTAT_WAIT_WOBJ(r.tcb[t].tstat),
           NEW u \in TSK, NEW m \in MTX
    PROVE  BlockedOn(r, u, m) <=>
              /\ BlockedOn(a, u, m) /\ u # t
              /\ \A x \in Owned(a, t, {}) :
                    ~(a.wobj[x].wait_queue # <<>> /\ u = Head(a.wobj[x].wait_queue))
<1> DEFINE Out == \E x \in Owned(a, t, {}) :
                     a.wobj[x].wait_queue # <<>> /\ u = Head(a.wobj[x].wait_queue)
<1>1. CASE u = t
  BY <1>1 DEF BlockedOn
<1>2. CASE u # t /\ Out
  <2>1. b.tcb[u].tstat \in {TS_RUNNABLE, TS_SUSPENDED}
    BY <1>2 DEF HandedOver
  <2>2. ~TSTAT_WAIT_WOBJ(b.tcb[u].tstat)
    BY <2>1 DEF TSTAT_WAIT_WOBJ, TS_RUNNABLE, TS_SUSPENDED, TS_WOBJ_MASK, TS_WOBJCB_MASK
  <2> QED BY <1>2, <2>2 DEF BlockedOn, OnlyTask
<1>3. CASE u # t /\ ~Out
  <2>1. SameWait(a, b, u)
    BY <1>3 DEF Shared, Heir
  <2> QED BY <1>3, <2>1 DEF BlockedOn, OnlyTask, SameWait
<1> QED BY <1>1, <1>2, <1>3

LEMMA TerminateStep ==
    ASSUME MInv, IInv', NEW s, NEW E, s.tcb = Cur.tcb, s.wobj = Cur.wobj, s.mtx = Cur.mtx,
           Inv(s, {}, E), LockInv(s, {}, {}), NEW t \in TSK, Exists(s, t),
           s.tcb[t].tstat # TS_DORMANT,
           TSTAT_RUNNABLE(s.tcb[t].tstat) => s.dspflg \/ t # s.p_runtsk,
           Reached(task_terminate(s, t))
    PROVE  LocksStep
<1> DEFINE tstat == s.tcb[t].tstat
           X == {t}
           a == IF TSTAT_RUNNABLE(tstat) THEN make_non_runnable(s, t)
                ELSE IF TSTAT_WAITING(tstat)
                THEN wait_dequeue_tmevtb(wait_dequeue_wobj(s, t), t)
                ELSE s
           b == mutex_release_all(a, t)
           r == task_terminate(s, t)
           M == {m \in MTX : Owner(Cur, m) = t}
           first(m) == Head(s.wobj[m].wait_queue)
<1>1. /\ Inv(a, X, E) /\ Keeps(s, a) /\ a.tcb = s.tcb
  BY StopTask
<1>2. \A m \in MTX : ~BlockedOn(s, t, m) => a.wobj[m] = s.wobj[m]
  <2>1. WellFormed(s)
    BY DEF Inv
  <2> QED BY <2>1, StopQueues
<1>3. LET c == make_dormant(b, t)
      IN  r = c \/ r = make_active([c EXCEPT !.tcb[t].actque = FALSE], t)
  BY DEF task_terminate
<1>4. t \in X
  OBVIOUS
<1> HIDE DEF a, r
<1>5. LockInv(a, X, {})
  <2>1. LockInv(s, {t}, {})
    BY DEF LockInv
  <2> QED BY <1>1, <2>1, KeepsFields, LockKept
<1>6. Inv(b, X, E) /\ LockInv(b, X, {}) /\ b.tcb[t].lastmtx = <<>> /\ Shared(a, b, t)
  <2> HIDE DEF X
  <2> QED BY <1>1, <1>4, <1>5, mutex_release_all_inv, mutex_release_all_shares
<1> HIDE DEF b
<1>7. /\ \A x \in Owned(a, t, {}) : HandedOver(a, b, x)
      /\ \A x \in MTX \ Owned(a, t, {}) : SameMutex(a, b, x)
  BY <1>6, AllHanded
<1>8. OnlyTask(b, r, t) /\ ~r.tcb[t].insvc /\ ~TSTAT_WAIT_WOBJ(r.tcb[t].tstat)
  <2>1. Inv(b, {t}, E)
    BY <1>6
  <2> QED BY <1>3, <2>1, EndOfTask
<1>9. a.mtx = s.mtx /\ \A m \in MTX : a.wobj[m].wobjatr = s.wobj[m].wobjatr
  BY <1>1, KeepsFields, Mutexes
<1>10. /\ Owned(a, t, {}) = M /\ M \subseteq MTX
       /\ \A m \in MTX : WobjExists(r, m) <=> WobjExists(s, m)
       /\ \A m \in MTX : WobjExists(s, m) <=> WobjExists(Cur, m)
       /\ \A m \in MTX : Line(s, m) = Line(Cur, m) /\ Owner(s, m) = Owner(Cur, m)
  BY <1>6, <1>8, <1>9, TaskOpsAssumption
     DEF Owned, Owner, WobjExists, Shared, OnlyTask, Line
<1>11. Lined(s) /\ Lined(r)
  BY EndLined, InvLined DEF r
<1>12. \A m \in M : ~BlockedOn(s, t, m)
  <2>1. \A m \in M : t \notin Line(s, m)
    BY <1>10 DEF MInv, OwnFree
  <2> QED BY <1>10, <1>11, <2>1 DEF Lined
<1>13. \A m \in M : /\ a.wobj[m] = s.wobj[m] /\ HandedOver(a, b, m)
                    /\ r.mtx[m] = b.mtx[m]
  BY <1>2, <1>7, <1>8, <1>10, <1>12 DEF OnlyTask
<1>14. ASSUME NEW m \in M, s.wobj[m].wait_queue # <<>>
       PROVE  first(m) \in TSK \ {t} /\ BlockedOn(s, first(m), m)
  <2>1. a.wobj[m].wait_queue # <<>> /\ first(m) = Head(a.wobj[m].wait_queue) /\ m \in MTX
    BY <1>10, <1>13, <1>14
  <2>2. Head(a.wobj[m].wait_queue) \in TSK \ X /\ BlockedOn(a, Head(a.wobj[m].wait_queue), m)
    <3> HIDE DEF X
    <3> QED BY <1>1, <2>1, RestOfLine
  <2> QED BY <1>1, <2>1, <2>2 DEF BlockedOn
<1>15. ASSUME NEW u \in TSK, NEW m \in MTX
       PROVE  BlockedOn(r, u, m) <=>
                 /\ BlockedOn(s, u, m) /\ u # t
                 /\ \A x \in M : ~(s.wobj[x].wait_queue # <<>> /\ u = first(x))
  <2>1. BlockedOn(r, u, m) <=>
           /\ BlockedOn(a, u, m) /\ u # t
           /\ \A x \in Owned(a, t, {}) :
                 ~(a.wobj[x].wait_queue # <<>> /\ u = Head(a.wobj[x].wait_queue))
    BY <1>6, <1>7, <1>8, HeirsLeave
  <2>2. BlockedOn(a, u, m) <=> BlockedOn(s, u, m)
    BY <1>1 DEF BlockedOn
  <2>3. \A x \in Owned(a, t, {}) : a.wobj[x].wait_queue = s.wobj[x].wait_queue
    BY <1>10, <1>13
  <2> QED BY <1>10, <2>1, <2>2, <2>3
<1>16. ASSUME NEW m \in M
       PROVE  /\ m \in MTX /\ Owner(Cur, m) = t
              /\ IF s.wobj[m].wait_queue = <<>>
                 THEN r.mtx[m].p_loctsk = NULL /\ Line(r, m) = {}
                 ELSE /\ r.mtx[m].p_loctsk = first(m)
                      /\ Line(r, m) = Line(s, m) \ {first(m)}
                      /\ r.tcb[first(m)].winfo = "E_OK"
  <2>1. CASE s.wobj[m].wait_queue = <<>>
    <3>1. Line(s, m) = {}
      BY <1>10, <2>1, NoLine DEF MInv
    <3>2. Line(r, m) = {}
      BY <1>10, <1>11, <1>15, <3>1 DEF Lined
    <3> QED BY <1>13, <2>1, <3>2 DEF HandedOver
  <2>2. CASE s.wobj[m].wait_queue # <<>>
    <3>1. /\ b.mtx[m].p_loctsk = first(m) /\ b.tcb[first(m)].winfo = "E_OK"
      BY <1>13, <2>2 DEF HandedOver
    <3>2. first(m) \in TSK \ {t} /\ BlockedOn(s, first(m), m)
      BY <1>14, <2>2
    <3>3. Line(r, m) = Line(s, m) \ {first(m)}
      <4>1. ASSUME NEW u \in TSK
            PROVE  BlockedOn(r, u, m) <=> BlockedOn(s, u, m) /\ u # first(m)
        <5>1. BlockedOn(s, u, m) => u # t
          BY <1>12
        <5>2. ASSUME NEW x \in M, s.wobj[x].wait_queue # <<>>, u = first(x),
                     BlockedOn(s, u, m)
              PROVE  x = m
          BY <1>14, <5>2 DEF BlockedOn
        <5> QED BY <1>10, <1>15, <2>2, <5>1, <5>2
      <4> QED BY <1>10, <1>11, <4>1 DEF Lined
    <3> QED BY <1>8, <1>13, <2>2, <3>1, <3>2, <3>3 DEF OnlyTask
  <2> QED BY <2>1, <2>2
<1>17. ASSUME NEW m \in MTX \ M
       PROVE  r.mtx[m].p_loctsk = s.mtx[m].p_loctsk /\ Line(r, m) = Line(s, m) \ {t}
  <2>1. r.mtx[m].p_loctsk = s.mtx[m].p_loctsk
    BY <1>7, <1>8, <1>9, <1>10 DEF SameMutex, OnlyTask
  <2>2. ASSUME NEW u \in TSK
        PROVE  BlockedOn(r, u, m) <=> BlockedOn(s, u, m) /\ u # t
    <3>1. ASSUME NEW x \in M, s.wobj[x].wait_queue # <<>>, u = first(x), BlockedOn(s, u, m)
          PROVE  FALSE
      BY <1>14, <3>1 DEF BlockedOn
    <3> QED BY <1>15, <3>1
  <2> QED BY <1>11, <2>1, <2>2 DEF Lined
<1>18. PassedOn(Cur, r, t, M, {t})
  <2> HIDE DEF M
  <2>1. \A m \in MTX : WobjExists(r, m) <=> WobjExists(Cur, m)
    BY <1>10
  <2> QED BY <1>8, <1>10, <1>16, <1>17, <2>1 DEF PassedOn
<1>19. Reached(r)
  BY DEF r
<1> QED BY <1>18, <1>19, EndStep DEF LocksStep


-----------------------------------------------------------------------------
(* The calls that end tasks.                                               *)

LEMMA TerminatedStep ==
    ASSUME MInv, IInv', NEW s, NEW E, s.tcb = Cur.tcb, s.wobj = Cur.wobj, s.mtx = Cur.mtx,
           Inv(s, {}, E), LocksOK(s), NEW t \in TSK, Exists(s, t),
           s.tcb[t].tstat # TS_DORMANT,
           TSTAT_RUNNABLE(s.tcb[t].tstat) => s.dspflg \/ t # s.p_runtsk,
           \/ Become(dispatch(task_terminate(s, t)))
           \/ Become(dispatcher(task_terminate(s, t)))
    PROVE  LocksStep
<1> DEFINE r == task_terminate(s, t)
<1>1. Inv(r, {}, E \ {t})
  BY task_terminate_inv
<1>2. Become(dispatch(r)) \/ Become(dispatcher(r))
  OBVIOUS
<1>3. LockInv(s, {}, {})
  BY DEF LocksOK
<1> HIDE DEF r
<1>4. HasFields(r, KernelField)
  BY <1>1 DEF Inv, WellFormed
<1>5. Reached(r)
  BY <1>2, <1>4, BecomeReached
<1> QED BY <1>3, <1>5, TerminateStep DEF r

LEMMA terminate_other_lock ==
    ASSUME MInv, IInv', NEW t \in TSK, t # p_runtsk, TaskExists(t),
           ~TSTAT_DORMANT(tcb[t].tstat), Become(dispatch(task_terminate(Cur, t)))
    PROVE  LocksStep
<1> DEFINE s == Cur
           E == Ends(s)
<1>1. Inv(s, {}, E) /\ LocksOK(s)
  BY StepBegins DEF MInv, KInv
<1>2. Exists(s, t) /\ s.tcb[t].tstat # TS_DORMANT /\ t # s.p_runtsk
  BY CurExists, CurFields DEF TSTAT_DORMANT, MInv
<1>3. Become(dispatch(task_terminate(s, t)))
  OBVIOUS
<1>4. s.tcb = Cur.tcb /\ s.wobj = Cur.wobj /\ s.mtx = Cur.mtx
  OBVIOUS
<1> HIDE DEF s, E
<1> QED BY <1>1, <1>2, <1>3, <1>4, TerminatedStep

LEMMA ter_tsk_lock ==
    ASSUME MInv, IInv', NEW t \in TSK, ter_tsk(t)
    PROVE  LocksStep
BY terminate_other_lock DEF ter_tsk

LEMMA ext_tsk_lock ==
    ASSUME MInv, IInv', ext_tsk
    PROVE  LocksStep
<1> DEFINE c == CONFIG[app]
           t == p_runtsk
           p == search_schedtsk(Cur)
           d == Cur
           e == [Cur EXCEPT !.enadsp = TRUE, !.ipm = FALSE, !.dspflg = TRUE,
                            !.p_schedtsk = search_schedtsk(Cur)]
           s == IF ~enadsp \/ ipm THEN e ELSE Cur
<1>1. /\ app \in DOMAIN CONFIG /\ KInv(Cur, c) /\ WellFormed(Cur) /\ Inv(Cur, {}, Ends(Cur))
  BY StepBegins DEF MInv
<1>2. Become(dispatcher(task_terminate(s, t)))
  BY DEF ext_tsk
<1>3. ~excpt /\ p_runtsk # NULL
  BY DEF ext_tsk
<1>4. /\ t \in Ready(Cur, {}) /\ t \in TSK /\ Cur.tcb[t].tstat # TS_DORMANT
      /\ Exists(Cur, t) /\ t = Cur.p_runtsk
  BY <1>3, Running DEF MInv
<1>5. CASE ~enadsp \/ ipm
  <2>1. s = e /\ HasFields(Cur, KernelField)
    BY <1>1, <1>5 DEF WellFormed
  <2>2. /\ HasFields(e, KernelField) /\ e.enadsp /\ ~e.ipm /\ e.dspflg = TRUE
        /\ e.p_schedtsk = p
        /\ \A f \in KernelField \ {"enadsp", "ipm", "dspflg", "p_schedtsk"} : e[f] = d[f]
    <3>1. HasFields(d, KernelField) /\ e = [d EXCEPT !.enadsp = TRUE, !.ipm = FALSE,
                                                    !.dspflg = TRUE, !.p_schedtsk = p]
      BY <2>1
    <3> HIDE DEF p, d, e
    <3> QED BY <3>1 DEF HasFields, KernelField
  <2>5. Become(dispatcher(task_terminate(e, t)))
    BY <1>2, <2>1
  <2> HIDE DEF e
  <2>3. Agree(Cur, e, {"enadsp", "ipm", "dspflg", "p_schedtsk"})
    BY <2>2 DEF Agree
  <2>4. /\ Inv(e, {}, Ends(Cur)) /\ e.tcb = Cur.tcb /\ LocksOK(e)
        /\ Exists(e, t) <=> Exists(Cur, t)
    BY <1>1, <1>4, <2>2, <2>3, EnableDispatch
  <2>6. e.wobj = Cur.wobj /\ e.mtx = Cur.mtx
    BY <2>3 DEF Agree, KernelField
  <2> QED BY <1>4, <2>2, <2>4, <2>5, <2>6, TerminatedStep
<1>6. CASE ~(~enadsp \/ ipm)
  <2>1. s = Cur /\ LocksOK(Cur) /\ Cur.dspflg
    BY <1>1, <1>6, CurFields DEF KInv
  <2>2. Become(dispatcher(task_terminate(d, t)))
    BY <1>2, <2>1
  <2>3. /\ d.tcb = Cur.tcb /\ d.wobj = Cur.wobj /\ d.mtx = Cur.mtx /\ Inv(d, {}, Ends(Cur))
        /\ LocksOK(d) /\ Exists(d, t) /\ d.tcb[t].tstat # TS_DORMANT /\ d.dspflg
    BY <1>1, <1>4, <2>1
  <2> HIDE DEF d
  <2> QED BY <1>4, <2>2, <2>3, TerminatedStep
<1> QED BY <1>5, <1>6

LEMMA ena_ter_lock ==
    ASSUME MInv, IInv', ena_ter
    PROVE  LocksStep
<1> DEFINE t == p_runtsk
           s == Cur
<1>1. Inv(s, {}, Ends(s)) /\ LocksOK(s)
  BY StepBegins DEF MInv, KInv
<1>2. /\ t \in TSK /\ s.tcb[t].tstat # TS_DORMANT /\ Exists(s, t)
      /\ s.tcb[t] = tcb[t] /\ s.dspflg = dspflg
  BY TaskContext, CurFields DEF ena_ter, MInv
<1>3. CASE tcb[t].raster /\ dspflg
  <2>1. Become(dispatcher(task_terminate(s, t)))
    BY <1>3 DEF ena_ter
  <2>2. s.tcb = Cur.tcb /\ s.wobj = Cur.wobj /\ s.mtx = Cur.mtx
    OBVIOUS
  <2> HIDE DEF s
  <2> QED BY <1>1, <1>2, <1>3, <2>1, <2>2, TerminatedStep
<1>4. CASE ~(tcb[t].raster /\ dspflg)
  <2> DEFINE r == [Cur EXCEPT !.tcb[t].enater = TRUE]
  <2>1. Become(r)
    BY <1>4 DEF ena_ter
  <2>2. Still(Cur, r)
    BY TcbStill
  <2> HIDE DEF r
  <2> QED BY <2>1, <2>2, Stood, StillStep DEF MInv
<1> QED BY <1>3, <1>4


LEMMA ras_ter_lock ==
    ASSUME MInv, IInv', NEW t \in TSK, ras_ter(t)
    PROVE  LocksStep
<1> DEFINE s == Cur
<1>1. WellFormed(s) /\ TaskOK(s, t, Ends(s))
  <2>1. Inv(Cur, {}, Ends(Cur)) /\ WellFormed(Cur)
    BY StepBegins DEF MInv
  <2>2. \A u \in TSK \ {} : TaskOK(Cur, u, Ends(Cur))
    BY <2>1 DEF Inv
  <2> QED BY <2>1, <2>2
<1>2. /\ TaskExists(t) /\ ~TSTAT_DORMANT(tcb[t].tstat) /\ t # p_runtsk
      /\ s.tcb = tcb
  BY CurFields DEF ras_ter
<1>3. CASE tcb[t].enater
  <2>1. Become(dispatch(task_terminate(Cur, t)))
    BY <1>3 DEF ras_ter
  <2> QED BY <1>2, <2>1, terminate_other_lock
<1>4. CASE ~tcb[t].enater /\ TSTAT_RUNNABLE(tcb[t].tstat)
  <2> DEFINE r == [Cur EXCEPT !.tcb[t].raster = TRUE]
  <2>1. Become(r)
    BY <1>4 DEF ras_ter
  <2>2. Still(Cur, r)
    BY TcbStill
  <2> HIDE DEF r
  <2> QED BY <2>1, <2>2, Stood, StillStep DEF MInv
<1>5. CASE ~tcb[t].enater /\ ~TSTAT_RUNNABLE(tcb[t].tstat)
  <2> DEFINE f == "raster"
             v == TRUE
             request  == [s EXCEPT !.tcb[t][f] = v]
             d == wait_dequeue_tmevtb(wait_dequeue_wobj(request, t), t)
             g == "winfo"
             e == "E_RASTER"
             released == [d EXCEPT !.tcb[t][g] = e]
             waiting == TSTAT_WAITING(tcb[t].tstat)
             h == "tstat"
             w == TS_RUNNABLE
             x == IF waiting THEN released ELSE request
             y == [x EXCEPT !.tcb[t][h] = w]
             r == make_runnable(y, t)
  <2>1. Become(dispatch(r))
    BY <1>5 DEF ras_ter, set_wercd
  <2>2. /\ f \in TcbField /\ g \in TcbField /\ h \in TcbField /\ g # h
        /\ f \notin {"priority", "bpriority", "lastmtx"}
    BY DEF TcbField
  <2>3. waiting => r = make_runnable([released EXCEPT !.tcb[t][h] = w], t)
    OBVIOUS
  <2> HIDE DEF s, f, v, g, e, h, w, waiting
  <2>4. TcbSet(s, request, t, f, v) /\ OnlyTask(s, request, t)
    <3>1. TcbSet(s, request, t, f, v)
      BY <1>1, <2>2, SetTcb
    <3> HIDE DEF request
    <3>2. WellFormed(request) /\ request.mtx = s.mtx /\ request.wobj = s.wobj
      BY <3>1, TcbEditFields DEF TcbSet
    <3> QED BY <3>1, <3>2, OnlyTaskSelf DEF TcbSet, TcbEdit, OnlyTask
  <2>5. WellFormed(request)
    BY <2>4, TcbEditFields DEF TcbSet
  <2> HIDE DEF request
  <2>6. OnlyTask(s, d, t)
    BY <2>4, <2>5, wait_dequeue_only, OnlyTaskTrans
  <2> HIDE DEF d
  <2>7. OnlyTask(s, released, t) /\ released.tcb[t][g] = e
    BY <2>2, <2>6, set_tcb_only
  <2> HIDE DEF released
  <2>8. OnlyTask(s, x, t) /\ (waiting => x.tcb[t][g] = e)
    BY <2>4, <2>7
  <2> HIDE DEF x
  <2>9. OnlyTask(s, y, t) /\ y.tcb[t][h] = w /\ (waiting => y.tcb[t][g] = e)
    BY <2>2, <2>8, set_tcb_only
  <2> HIDE DEF y
  <2>10. OnlyTask(s, r, t) /\ r.tcb[t] = y.tcb[t]
    BY <2>9, make_runnable_only
  <2> HIDE DEF r
  <2>11. HasFields(r, KernelField)
    BY <2>10 DEF OnlyTask
  <2>12. Reached(r)
    BY <2>1, <2>11, BecomeReached
  <2>13. r.tcb[t].tstat \in {TS_RUNNABLE, TS_SUSPENDED}
    BY <2>9, <2>10 DEF h, w
  <2>14. TSTAT_WAIT_WOBJ(s.tcb[t].tstat) => r.tcb[t].winfo # "E_OK"
    <3>1. TSTAT_WAIT_WOBJ(s.tcb[t].tstat) => waiting
      <4>1. s.tcb[t].tstat \in TSTATS
        BY <1>1 DEF TaskOK
      <4> QED BY <1>2, <4>1, TstatFacts DEF waiting
    <3> QED BY <2>9, <2>10, <3>1 DEF g, e
  <2> QED BY <2>10, <2>12, <2>13, <2>14, LeaveStep DEF s
<1> QED BY <1>3, <1>4, <1>5

LEMMA resume_lock ==
    ASSUME MInv, IInv', NEW call, TskCtxUnl(call), NEW s, HasFields(s, KernelField),
           Agree(Cur, s, {"enadsp", "ipm"}), s.enadsp, ~s.ipm,
           Become(resume_dispatching(s))
    PROVE  LocksStep
<1> DEFINE c == CONFIG[app]
           t == s.p_runtsk
           p == search_schedtsk(s)
           r == [s EXCEPT !.dspflg = TRUE, !.p_schedtsk = p]
<1>1. app \in DOMAIN CONFIG /\ KInv(Cur, c) /\ WellFormed(Cur) /\ Framed(Cur)
  BY StepBegins, CurFramed DEF MInv
<1>2. \A f \in KernelField \ {"enadsp", "ipm"} : s[f] = Cur[f]
  BY DEF Agree
<1>3. /\ s.tcb = Cur.tcb /\ s.ready_queue = Cur.ready_queue
      /\ s.ready_primap = Cur.ready_primap /\ s.p_runtsk = Cur.p_runtsk
      /\ s.wobj = Cur.wobj /\ s.mtx = Cur.mtx
  BY <1>2 DEF KernelField
<1>4. /\ t \in Ready(Cur, {}) /\ t \in TSK /\ Exists(Cur, t)
      /\ Cur.tcb[t].tstat # TS_DORMANT
  BY <1>3, TaskContext DEF MInv
<1>5. p = search_schedtsk(Cur)
  BY <1>3 DEF search_schedtsk, primap_search
<1>6. IF s.tcb[t].raster /\ s.tcb[t].enater
      THEN Become(dispatcher(task_terminate(r, t)))
      ELSE Become(dispatch(r))
  BY DEF resume_dispatching
<1> HIDE DEF p
<1>7. /\ HasFields(r, KernelField) /\ r.dspflg = TRUE /\ r.p_schedtsk = p
      /\ r.enadsp /\ ~r.ipm /\ r.p_runtsk = s.p_runtsk
      /\ \A f \in KernelField \ {"dspflg", "p_schedtsk"} : r[f] = s[f]
  BY DEF HasFields, KernelField
<1> HIDE DEF r
<1>8. Agree(Cur, r, {"enadsp", "ipm", "dspflg", "p_schedtsk"})
  BY <1>2, <1>7 DEF Agree
<1>9. /\ Inv(r, {}, Ends(Cur)) /\ r.tcb = Cur.tcb /\ LocksOK(r)
      /\ \A u : Exists(r, u) <=> Exists(Cur, u)
  BY <1>1, <1>4, <1>5, <1>7, <1>8, EnableDispatch
<1>10. r.wobj = Cur.wobj /\ r.mtx = Cur.mtx
  BY <1>8 DEF Agree, KernelField
<1>11. CASE s.tcb[t].raster /\ s.tcb[t].enater
  <2>1. Become(dispatcher(task_terminate(r, t)))
    BY <1>6, <1>11
  <2> HIDE DEF t
  <2> QED BY <1>4, <1>7, <1>9, <1>10, <2>1, TerminatedStep
<1>12. CASE ~(s.tcb[t].raster /\ s.tcb[t].enater)
  <2>1. Become(dispatch(r))
    BY <1>6, <1>12
  <2>2. Still(Cur, r)
    BY <1>1, <1>7, <1>10 DEF Still, Framed
  <2> QED BY <2>1, <2>2, StoodThen, StillStep DEF MInv
<1> QED BY <1>11, <1>12

LEMMA ena_dsp_lock ==
    ASSUME MInv, IInv', ena_dsp
    PROVE  LocksStep
<1> DEFINE s == Cur
           r == [s EXCEPT !.enadsp = TRUE]
<1>1. Framed(s) /\ s.ipm = ipm
  BY CurFramed, CurFields DEF MInv
<1>3. TskCtxUnl("ena_dsp") /\ (IF s.ipm THEN Become(r) ELSE Become(resume_dispatching(r)))
  BY CurFields DEF ena_dsp
<1> HIDE DEF s
<1>4. /\ HasFields(r, KernelField) /\ r.enadsp = TRUE /\ r.ipm = s.ipm
      /\ r.mtx = s.mtx /\ r.wobj = s.wobj
      /\ \A f \in KernelField \ {"enadsp"} : r[f] = s[f]
  BY <1>1 DEF Framed, HasFields, KernelField
<1> HIDE DEF r
<1>5. Agree(s, r, {"enadsp", "ipm"})
  BY <1>4 DEF Agree
<1>6. CASE s.ipm
  <2>1. Still(s, r)
    BY <1>1, <1>4 DEF Still, Framed
  <2> QED BY <1>3, <1>6, <2>1, Stood, StillStep DEF MInv, s
<1>7. CASE ~s.ipm
  <2>1. Become(resume_dispatching(r)) /\ TskCtxUnl("ena_dsp")
    BY <1>3, <1>7
  <2> QED BY <1>4, <1>5, <1>7, <2>1, resume_lock DEF s
<1> QED BY <1>6, <1>7

LEMMA chg_ipm_lock ==
    ASSUME MInv, IInv', NEW mask \in BOOLEAN, chg_ipm(mask)
    PROVE  LocksStep
<1> DEFINE s == Cur
           r == [s EXCEPT !.ipm = mask]
           n == [r EXCEPT !.dspflg = FALSE]
<1>1. Framed(s)
  BY CurFramed DEF MInv
<1>3. TskCtxUnl("chg_ipm") /\ (IF ~mask /\ s.enadsp THEN Become(resume_dispatching(r))
                               ELSE Become(n))
  BY CurFields DEF chg_ipm, MInv
<1> HIDE DEF s
<1>4. /\ HasFields(r, KernelField) /\ r.ipm = mask /\ r.enadsp = s.enadsp
      /\ r.mtx = s.mtx /\ r.wobj = s.wobj
      /\ \A f \in KernelField \ {"ipm"} : r[f] = s[f]
  BY <1>1 DEF Framed, HasFields, KernelField
<1> HIDE DEF r
<1>5. CASE ~mask /\ s.enadsp
  <2>1. Agree(s, r, {"enadsp", "ipm"})
    BY <1>4 DEF Agree
  <2>2. Become(resume_dispatching(r)) /\ TskCtxUnl("chg_ipm")
    BY <1>3, <1>5
  <2> QED BY <1>4, <1>5, <2>1, <2>2, resume_lock DEF s
<1>6. CASE ~(~mask /\ s.enadsp)
  <2>1. HasFields(n, KernelField) /\ n.mtx = r.mtx /\ n.wobj = r.wobj
    BY <1>4 DEF HasFields, KernelField
  <2>2. Become(n)
    BY <1>3, <1>6
  <2> HIDE DEF n
  <2>3. Still(s, n)
    BY <1>1, <1>4, <2>1 DEF Still, Framed
  <2> QED BY <2>2, <2>3, Stood, StillStep DEF MInv, s
<1> QED BY <1>5, <1>6


-----------------------------------------------------------------------------
(* A mutex that is deleted or initialized.                                 *)

(* A task whose wait ends has got E_DLT.                                   *)
Wercd(s, r) == \A u \in TSK : r.tcb[u].winfo \in {s.tcb[u].winfo, "E_DLT"}

LEMMA init_wait_queue_turn_wercd ==
    ASSUME NEW s, WellFormed(s), NEW w \in WOBJ, NEW f \in QUEUE,
           Head(s.wobj[w][f]) \in TSK, Tail(s.wobj[w][f]) \in Seq(TSK)
    PROVE  Wercd(s, init_wait_queue_turn(s, w, f))
<1> DEFINE t == Head(s.wobj[w][f])
           q == Tail(s.wobj[w][f])
           a == [s EXCEPT !.wobj[w][f] = q]
           d == wait_dequeue_tmevtb(a, t)
           e == "E_DLT"
           r == make_non_wait(set_wercd(d, t, e), t)
<1>1. init_wait_queue_turn(s, w, f) = r
  BY DEF init_wait_queue_turn
<1> HIDE DEF t, q
<1>2. QueueSet(s, a, w, f, q)
  BY SetQueue DEF q
<1>3. OnlyTask(a, a, t) /\ a.tcb = s.tcb
  BY <1>2, OnlyTaskSelf DEF QueueSet, QueueEdit, Agree, KernelField
<1> HIDE DEF a
<1>4. d = a \/ d = [a EXCEPT !.tmevtb[t] = "none"]
  BY DEF wait_dequeue_tmevtb
<1> HIDE DEF d
<1>5. OnlyTask(a, d, t) /\ d.tcb = a.tcb
  BY <1>3, <1>4 DEF OnlyTask, HasFields, KernelField
<1> HIDE DEF e
<1>6. /\ OnlyTask(a, r, t) /\ r.tcb[t].winfo = e
  BY <1>5, end_wait_only DEF t
<1> HIDE DEF r
<1> QED BY <1>1, <1>3, <1>6 DEF Wercd, OnlyTask, e

LEMMA init_wait_queue_wercd ==
    ASSUME NEW s, NEW E, Inv(s, {}, E), NEW w \in WOBJ, NEW f \in QUEUE
    PROVE  Wercd(s, init_wait_queue(s, w, f))
<1> DEFINE turns == Len(s.wobj[w][f])
<1>1. turns \in Nat /\ s.wobj[w][f] \in Seq(TSK)
  <2>1. Lists(s.wobj[w][f], WaitsIn(s, Blocked(s, {}), w, f), TSK)
    BY DEF Inv, WaitOK
  <2> QED BY <2>1 DEF Lists
<1>5. PICK after : /\ init_wait_queue(s, w, f) = after[turns] /\ after[0] = s
                    /\ \A n \in 1 .. turns : after[n] = init_wait_queue_turn(after[n - 1], w, f)
  BY <1>1, init_wait_queue_turns
<1> DEFINE Holds(n) == /\ Inv(after[n], {}, E) /\ Wercd(s, after[n])
                       /\ after[n].wobj[w][f] \in Seq(TSK)
                       /\ Len(after[n].wobj[w][f]) = turns - n
           S == {n \in 0 .. turns : ~Holds(n)}
           k == Min(S)
<1>6. Holds(0)
  <2>1. after[0] = s
    BY <1>5
  <2> QED BY <1>1, <2>1 DEF Wercd
<1>7. ASSUME NEW n \in 0 .. turns, n # 0, Holds(n - 1)
      PROVE  Holds(n)
  <2> DEFINE a == after[n - 1]
             l == a.wobj[w][f]
             r == init_wait_queue_turn(a, w, f)
  <2>1. after[n] = r
    BY <1>1, <1>5, <1>7
  <2>2. /\ Inv(a, {}, E) /\ Wercd(s, a) /\ l \in Seq(TSK) /\ Len(l) = turns - (n - 1)
    BY <1>7
  <2>3. l # <<>> /\ Head(l) \in TSK /\ Tail(l) \in Seq(TSK) /\ Len(Tail(l)) = turns - n
    <3> HIDE DEF l
    <3>1. n - 1 < turns /\ Len(l) # 0
      BY <1>1, <1>7, <2>2
    <3>2. l # <<>>
      BY <3>1
    <3> QED BY <1>1, <1>7, <2>2, <3>2
  <2> HIDE DEF a
  <2>4. Inv(r, {}, E) /\ r.wobj[w][f] = Tail(l)
    BY <2>2, <2>3, init_wait_queue_turn_inv
  <2>5. Wercd(a, r)
    BY <2>2, <2>3, init_wait_queue_turn_wercd DEF Inv
  <2>6. Wercd(s, r)
    BY <2>2, <2>5 DEF Wercd
  <2> HIDE DEF r, l
  <2> QED BY <2>1, <2>3, <2>4, <2>6
<1>8. Holds(turns)
  <2> HIDE DEF Holds
  <2> SUFFICES ASSUME ~Holds(turns) PROVE FALSE
    OBVIOUS
  <2>1. S \in SUBSET Nat /\ S # {}
    BY <1>1
  <2>2. k \in S /\ \A y \in S : k <= y
    BY <2>1, LeastOf
  <2> HIDE DEF k
  <2>3. k \in 0 .. turns /\ k # 0
    BY <1>6, <2>2
  <2>4. k - 1 \in 0 .. turns /\ ~(k <= k - 1)
    BY <1>1, <2>3
  <2>5. Holds(k - 1)
    BY <2>2, <2>4
  <2> QED BY <1>7, <2>2, <2>3, <2>5
<1> QED BY <1>5, <1>8

(* Taking a mutex out of its owner's list ends no wait.                    *)
LEMMA mutex_unlink_waits ==
    ASSUME NEW s, NEW E, Inv(s, {}, E), NEW t \in TSK, NEW m \in MTX
    PROVE  LET r == mutex_unlink(s, t, m)
           IN  /\ Inv(r, {}, E) /\ Passes(s, r) /\ r.mtx = s.mtx
               /\ \A u \in TSK : SameWait(s, r, u)
<1> DEFINE X == {}
           f == "lastmtx"
           l == queue_delete(s.tcb[t].lastmtx, m)
           a == [s EXCEPT !.tcb[t][f] = l]
           r == mutex_drop_priority(a, t, m)
<1>1. mutex_unlink(s, t, m) = r
  BY DEF mutex_unlink
<1>2. WellFormed(s)
  BY DEF Inv
<1>3. l \in Seq(MTX)
  BY <1>2, DeleteSeq DEF WellFormed, TcbOK
<1>4. f \in TcbField /\ f \notin {"priority", "bpriority"} /\ {f} \cap TaskField = {}
      /\ f \notin {"tstat", "p_wobjcb", "winfo"}
  BY DEF TcbField, TaskField
<1>5. Inv(s, X, E) /\ t \in TSK \ X
  OBVIOUS
<1> HIDE DEF l, f, X
<1>6. TcbSet(s, a, t, f, l)
  BY <1>2, <1>3, <1>4, SetTcb
<1>7. TcbEdit(s, a, t, {f})
  BY <1>6 DEF TcbSet
<1> HIDE DEF a
<1>8. Like(s, a, X)
  BY <1>4, <1>7, TcbEditLike
<1>9. Inv(a, X, E) /\ Passes(s, a) /\ a.mtx = s.mtx
  BY <1>5, <1>7, <1>8, Change, TcbEditFields
<1>10. \A u \in TSK : SameWait(s, a, u)
  BY <1>4, <1>7 DEF TcbEdit, TcbField, SameWait
<1>11. Inv(r, X, E) /\ KeepsLocks(a, r) /\ NewPriority(a, r, t)
  BY <1>5, <1>9, mutex_drop_priority_inv
<1> HIDE DEF r
<1>12. \A u \in TSK : SameWait(a, r, u)
  BY <1>11 DEF NewPriority, TcbField, SameWait
<1>13. Passes(s, r) /\ r.mtx = s.mtx
  BY <1>9, <1>11, PassesTrans DEF KeepsLocks
<1>14. \A u \in TSK : SameWait(s, r, u)
  BY <1>10, <1>12 DEF SameWait
<1>15. Inv(r, {}, E)
  BY <1>11 DEF X
<1> QED BY <1>1, <1>13, <1>14, <1>15


LEMMA DrainedLock ==
    ASSUME MInv, IInv', NEW m \in MTX, NEW d, d = init_wait_queue(Cur, m, "wait_queue"),
           NEW r, Reached(r), \A u \in TSK : SameWait(d, r, u),
           Owner(r, m) = NULL, r.mtx[m].p_loctsk \in {NULL, Cur.mtx[m].p_loctsk},
           \A x \in MTX \ {m} : /\ r.mtx[x].p_loctsk = d.mtx[x].p_loctsk
                                /\ r.wobj[x].wobjatr = d.wobj[x].wobjatr
    PROVE  LocksStep
<1> DEFINE s == Cur
           E == Ends(s)
           f == "wait_queue"
<1>1. Inv(s, {}, E) /\ m \in WOBJ /\ f \in QUEUE /\ d = init_wait_queue(s, m, f)
  BY StepBegins, MutexObjects DEF QUEUE, MInv
<1>2. Lined(s) /\ Lined(r)
  BY CurLined, EndLined DEF MInv
<1>9. f = "wait_queue"
  OBVIOUS
<1>10. s = Cur
  OBVIOUS
<1> HIDE DEF s, E, f
<1>3. Inv(d, {}, E) /\ Drains(s, d, m, f) /\ d.wobj[m][f] = <<>> /\ Wercd(s, d)
  BY <1>1, init_wait_queue_inv, init_wait_queue_wercd
<1>4. d.mtx = s.mtx /\ \A x \in MTX : d.wobj[x].wobjatr = s.wobj[x].wobjatr
  BY <1>3, KeepsFields, Mutexes DEF Drains
<1>5. \A x \in MTX : Line(r, x) = Line(d, x)
  <2>1. SameWaits(d, r)
    BY DEF SameWaits, SameWait
  <2> QED BY <1>2, <1>3, <2>1, InvLined, SameWaitsLines
<1>6. \A x \in MTX \ {m} : Line(d, x) = Line(s, x)
  BY <1>1, <1>3, <1>9, Mutexes DEF Drains, Line
<1>7. Line(r, m) = {}
  <2>1. ToSet(<<>>) = {}
    BY DEF ToSet
  <2> QED BY <1>3, <1>5, <1>9, <2>1 DEF Line
<1>8. ASSUME NEW u \in Line(s, m)
      PROVE  r.tcb[u].winfo # "E_OK"
  <2>1. u \in TSK /\ TSTAT_WAIT_WOBJ(s.tcb[u].tstat)
    BY <1>2 DEF Lined, BlockedOn
  <2>2. TaskOK(s, u, E)
    BY <1>1, <2>1 DEF Inv
  <2>3. TSTAT_WAITING(s.tcb[u].tstat)
    BY <2>1, <2>2, TstatFacts DEF TaskOK
  <2>4. s.tcb[u].winfo \in {"tmevtb", "no_tmevtb"}
    BY <2>2, <2>3 DEF TaskOK, WinfoOK
  <2>5. r.tcb[u].winfo = d.tcb[u].winfo
    BY <2>1 DEF SameWait
  <2> QED BY <1>3, <2>1, <2>4, <2>5 DEF Wercd
<1>11. \A x \in MTX \ {m} : /\ Owner(r, x) = Owner(s, x)
                            /\ r.mtx[x].p_loctsk = s.mtx[x].p_loctsk
                            /\ Line(r, x) = Line(s, x)
  BY <1>4, <1>5, <1>6 DEF Owner, WobjExists
<1>12. Wiped(s, r, m)
  BY <1>7, <1>8, <1>10, <1>11 DEF Wiped
<1> QED BY <1>10, <1>12, WipedStep DEF LocksStep

LEMMA ini_mtx_lock ==
    ASSUME MInv, IInv', NEW m \in MTX, ini_mtx(m)
    PROVE  LocksStep
<1> DEFINE t == mtx[m].p_loctsk
           f == "wait_queue"
           s == Cur
           E == Ends(s)
           d == init_wait_queue(s, m, f)
           v == NULL
           a == [d EXCEPT !.mtx[m].p_loctsk = v]
           r == mutex_unlink(a, t, m)
<1>1. Inv(s, {}, E) /\ m \in WOBJ /\ f \in QUEUE
  BY StepBegins, MutexObjects DEF QUEUE, MInv
<1>2. t \in TSK \cup {NULL} /\ v \in TSK \cup {NULL} /\ s.mtx[m].p_loctsk = t
  BY <1>1, CurFields DEF Inv, WellFormed, MInv
<1>3. Become(dispatch(IF t = NULL THEN d ELSE r))
  BY DEF ini_mtx
<1>4. d = init_wait_queue(Cur, m, "wait_queue") /\ v = NULL /\ s = Cur
  OBVIOUS
<1> HIDE DEF s, E, v, t, f
<1>5. Inv(d, {}, E) /\ Drains(s, d, m, f)
  BY <1>1, init_wait_queue_inv
<1> HIDE DEF d
<1>6. d.mtx = s.mtx
  BY <1>5, KeepsFields DEF Drains
<1>7. CASE t = NULL
  <2>1. HasFields(d, KernelField)
    BY <1>5 DEF Inv, WellFormed
  <2>2. Become(dispatch(d))
    BY <1>3, <1>7
  <2>3. Reached(d)
    BY <2>1, <2>2, BecomeReached
  <2>4. d.mtx[m].p_loctsk = NULL /\ Owner(d, m) = NULL
    BY <1>2, <1>6, <1>7 DEF Owner
  <2>5. \A u \in TSK : SameWait(d, d, u)
    BY DEF SameWait
  <2> QED BY <1>4, <2>3, <2>4, <2>5, DrainedLock
<1>8. CASE t # NULL
  <2>1. t \in TSK /\ Become(dispatch(r))
    BY <1>2, <1>3, <1>8
  <2> DEFINE X == {}
  <2>2. Inv(d, X, E) /\ WellFormed(d)
    BY <1>5 DEF Inv
  <2> HIDE DEF X
  <2>4. /\ MtxEdit(d, a) /\ a.mtx[m].p_loctsk = v
        /\ \A n \in MTX \ {m} : a.mtx[n].p_loctsk = d.mtx[n].p_loctsk
    BY <1>2, <2>2, SetOwner
  <2> HIDE DEF a
  <2>5. Like(d, a, X) /\ a.tcb = d.tcb /\ a.wobj = d.wobj
    BY <2>4, MtxEditLike DEF MtxEdit
  <2>6. Inv(a, X, E)
    BY <2>2, <2>5, Change
  <2>7. Inv(a, {}, E)
    BY <2>6 DEF X
  <2>8. /\ Inv(r, {}, E) /\ Passes(a, r) /\ r.mtx = a.mtx
        /\ \A u \in TSK : SameWait(a, r, u)
    BY <2>1, <2>7, mutex_unlink_waits
  <2> HIDE DEF r
  <2>9. HasFields(r, KernelField)
    BY <2>8 DEF Inv, WellFormed
  <2>10. Reached(r)
    BY <2>1, <2>9, BecomeReached
  <2>11. \A u \in TSK : SameWait(d, r, u)
    BY <2>5, <2>8 DEF SameWait
  <2>12. r.mtx[m].p_loctsk = NULL /\ Owner(r, m) = NULL
    BY <1>4, <2>4, <2>8 DEF Owner
  <2>13. \A x \in MTX \ {m} : /\ r.mtx[x].p_loctsk = d.mtx[x].p_loctsk
                              /\ r.wobj[x].wobjatr = d.wobj[x].wobjatr
    BY <2>4, <2>5, <2>8, PassesFields, Mutexes
  <2> QED BY <1>4, <2>10, <2>11, <2>12, <2>13, DrainedLock
<1> QED BY <1>7, <1>8

LEMMA del_mtx_lock ==
    ASSUME MInv, IInv', NEW m \in MTX, del_mtx(m)
    PROVE  LocksStep
<1> DEFINE t == mtx[m].p_loctsk
           f == "wait_queue"
           s == Cur
           E == Ends(s)
           d == init_wait_queue(s, m, f)
           u == IF t = NULL THEN d ELSE mutex_unlink(d, t, m)
           atr == {"TA_NOEXS"}
           q == Append(u.free_mtxcb, m)
           r == [u EXCEPT !.wobj[m].wobjatr = atr, !.free_mtxcb = q]
<1>1. Inv(s, {}, E) /\ m \in WOBJ /\ f \in QUEUE
  BY StepBegins, MutexObjects DEF QUEUE, MInv
<1>2. t \in TSK \cup {NULL} /\ s.mtx[m].p_loctsk = t
  BY <1>1, CurFields DEF Inv, WellFormed, MInv
<1>3. Become(dispatch(r))
  BY DEF del_mtx, queue_insert_prev
<1>4. d = init_wait_queue(Cur, m, "wait_queue") /\ s = Cur
  OBVIOUS
<1> HIDE DEF s, E, f, q
<1>5. Inv(d, {}, E) /\ Drains(s, d, m, f)
  BY <1>1, init_wait_queue_inv
<1> HIDE DEF d, t
<1>6. d.mtx = s.mtx
  BY <1>5, KeepsFields DEF Drains
<1>7. /\ Inv(u, {}, E) /\ u.mtx = d.mtx /\ \A x \in TSK : SameWait(d, u, x)
      /\ \A x \in MTX : u.wobj[x].wobjatr = d.wobj[x].wobjatr
  <2>1. CASE t = NULL
    BY <1>5, <2>1 DEF SameWait
  <2>2. CASE t # NULL
    <3> DEFINE n == mutex_unlink(d, t, m)
    <3>1. t \in TSK /\ u = n
      BY <1>2, <2>2
    <3>2. /\ Inv(n, {}, E) /\ Passes(d, n) /\ n.mtx = d.mtx
          /\ \A x \in TSK : SameWait(d, n, x)
      BY <1>5, <3>1, mutex_unlink_waits
    <3> HIDE DEF n, u
    <3> QED BY <3>1, <3>2, PassesFields, Mutexes
  <2> QED BY <2>1, <2>2
<1> HIDE DEF u
<1>8. /\ HasFields(r, KernelField) /\ r.tcb = u.tcb /\ r.mtx = u.mtx
      /\ r.wobj[m].wobjatr = atr
      /\ \A x \in MTX \ {m} : r.wobj[x] = u.wobj[x]
  <2> HIDE DEF atr
  <2>1. /\ HasFields(u, KernelField) /\ HasFields(u.wobj, WOBJ)
        /\ HasFields(u.wobj[m], WobjField)
    BY <1>1, <1>7 DEF Inv, WellFormed
  <2> DEFINE a == [u EXCEPT !.wobj[m].wobjatr = atr]
  <2>2. /\ HasFields(a, KernelField) /\ a.tcb = u.tcb /\ a.mtx = u.mtx
        /\ a.wobj[m].wobjatr = atr
        /\ \A x \in MTX \ {m} : a.wobj[x] = u.wobj[x]
    BY <1>1, <2>1, Mutexes DEF HasFields, KernelField, WobjField
  <2>3. r = [a EXCEPT !.free_mtxcb = q]
    OBVIOUS
  <2> HIDE DEF a, r
  <2> QED BY <2>2, <2>3 DEF HasFields, KernelField
<1> HIDE DEF r
<1>9. Reached(r)
  BY <1>3, <1>8, BecomeReached
<1>10. Owner(r, m) = NULL /\ r.mtx[m].p_loctsk = Cur.mtx[m].p_loctsk
  BY <1>4, <1>6, <1>7, <1>8 DEF Owner, WobjExists
<1>11. \A x \in TSK : SameWait(d, r, x)
  BY <1>7, <1>8 DEF SameWait
<1>12. \A x \in MTX \ {m} : /\ r.mtx[x].p_loctsk = d.mtx[x].p_loctsk
                            /\ r.wobj[x].wobjatr = d.wobj[x].wobjatr
  BY <1>7, <1>8
<1> QED BY <1>4, <1>9, <1>10, <1>11, <1>12, DrainedLock

-----------------------------------------------------------------------------
(* Every step of the kernel is one for the mutexes.                        *)

LEMMA TaskManageLock ==
    ASSUME MInv, IInv', TaskManageNext
    PROVE  LocksStep
<1>1. CASE \E t \in TSK, p \in CONFIG[app].tskpri : chg_pri(t, p)
  BY <1>1, chg_pri_lock
<1>2. CASE \E t \in TSK, p \in TPRI : chg_pri_ini_locked(t, p)
  BY <1>2, chg_pri_ini_locked_lock
<1>3. CASE /\ ~\E t \in TSK, p \in CONFIG[app].tskpri : chg_pri(t, p)
           /\ ~\E t \in TSK, p \in TPRI : chg_pri_ini_locked(t, p)
  <2>1. IInv
    BY DEF MInv
  <2>2. MutexesStill
    BY <1>3, <2>1, TaskManageStill
  <2> QED BY <2>2, StillStep
<1> QED BY <1>1, <1>2, <1>3

LEMMA TaskTermLock ==
    ASSUME MInv, IInv', TaskTermNext
    PROVE  LocksStep
<1>1. CASE dis_ter
  <2>1. IInv
    BY DEF MInv
  <2>2. MutexesStill
    BY <1>1, <2>1, DisableStill
  <2> QED BY <2>2, StillStep
<1>2. CASE ext_tsk \/ ena_ter \/ \E t \in TSK : ras_ter(t) \/ ter_tsk(t)
  BY <1>2, ext_tsk_lock, ena_ter_lock, ras_ter_lock, ter_tsk_lock
<1> QED BY <1>1, <1>2 DEF TaskTermNext

LEMMA TaskSyncLock ==
    ASSUME MInv, IInv', TaskSyncNext
    PROVE  LocksStep
<1>1. CASE \E t \in TSK : rel_wai(t)
  BY <1>1, rel_wai_lock
<1>2. CASE ~\E t \in TSK : rel_wai(t)
  <2>1. IInv
    BY DEF MInv
  <2>2. MutexesStill
    BY <1>2, <2>1, TaskSyncStill
  <2> QED BY <2>2, StillStep
<1> QED BY <1>1, <1>2

LEMMA MutexLock ==
    ASSUME MInv, IInv', MutexNext
    PROVE  LocksStep
<1>1. CASE \E atr, p : acre_mtx(atr, p)
  BY <1>1, acre_mtx_lock
<1>2. CASE \E m \in MTX : \/ del_mtx(m) \/ loc_mtx(m) \/ ploc_mtx(m)
                          \/ tloc_mtx(m) \/ unl_mtx(m) \/ ini_mtx(m)
  BY <1>2, del_mtx_lock, lock_mtx_lock, unl_mtx_lock, ini_mtx_lock
<1> QED BY <1>1, <1>2 DEF MutexNext

LEMMA ObjectLock ==
    ASSUME MInv, \/ SemaphoreNext \/ EventFlagNext \/ DataQueueNext
                 \/ PriDataQueueNext \/ MemPoolNext
    PROVE  LocksStep
<1>1. IInv
  BY DEF MInv
<1>2. MutexesStill
  BY <1>1, SemaphoreStill, EventFlagStill, DataQueueStill, PriDataQueueStill, MemPoolStill
<1> QED BY <1>2, StillStep

LEMMA SysManageLock ==
    ASSUME MInv, IInv', SysManageNext
    PROVE  LocksStep
<1>1. CASE ena_dsp \/ \E mask \in BOOLEAN : chg_ipm(mask)
  BY <1>1, ena_dsp_lock, chg_ipm_lock
<1>2. CASE loc_cpu \/ unl_cpu \/ dis_dsp \/ \E p \in CONFIG[app].tskpri : rot_rdq(p)
  <2>1. IInv
    BY DEF MInv
  <2>2. MutexesStill
    BY <1>2, <2>1, DisableStill, RotateStill
  <2> QED BY <2>2, StillStep
<1> QED BY <1>1, <1>2 DEF SysManageNext

LEMMA InterruptLock ==
    ASSUME MInv, IInv', InterruptNext
    PROVE  LocksStep
<1>1. CASE \E t \in TSK : timeout(t)
  BY <1>1, timeout_lock
<1>2. CASE int_entry \/ int_exit \/ wait_return
  <2>1. IInv
    BY DEF MInv
  <2>2. MutexesStill
    BY <1>2, <2>1, DisableStill, ReturnStill
  <2> QED BY <2>2, StillStep
<1> QED BY <1>1, <1>2 DEF InterruptNext

LEMMA LockSteps ==
    ASSUME NoActiveCreation, MInv, [Next]_vars
    PROVE  IInv' /\ LocksStep
<1>1. IInv'
  BY StepKept DEF MInv, StepOK
<1>2. CASE Next
  BY <1>1, <1>2, TaskManageLock, TaskTermLock, TaskSyncLock, MutexLock, ObjectLock,
     SysManageLock, InterruptLock DEF Next
<1>3. CASE UNCHANGED vars
  <2>1. IInv /\ UNCHANGED kvars
    BY <1>3 DEF vars, MInv
  <2>2. MutexesStill
    BY <2>1, UnchangedStill
  <2> QED BY <1>1, <2>2, StillStep
<1> QED BY <1>1, <1>2, <1>3

(* A task that waits for a mutex is in its queue, and one that does not    *)
(* wait is in none.                                                        *)
LEMMA WaitsForMutex ==
    ASSUME IInv, NEW t \in TSK, TSTAT_WAIT_MTX(tcb[t].tstat)
    PROVE  tcb[t].p_wobjcb \in MTX /\ t \in Line(Cur, tcb[t].p_wobjcb)
<1>1. Cur.tcb = tcb
  BY CurFields
<1>2. "MTX" \in tcb[t].tstat
  BY DEF TSTAT_WAIT_MTX, TS_WAITING_MTX
<1>3. TSTAT_WAIT_WOBJ(tcb[t].tstat)
  BY <1>2 DEF TSTAT_WAIT_WOBJ, TS_WOBJ_MASK, TS_WOBJCB_MASK
<1>4. Fit(Cur, t)
  BY DEF IInv, KInv, LocksOK, Protocol
<1>5. tcb[t].p_wobjcb \in MTX
  BY <1>1, <1>2, <1>4 DEF Fit
<1>6. BlockedOn(Cur, t, tcb[t].p_wobjcb)
  BY <1>1, <1>3, <1>5 DEF BlockedOn
<1> QED BY <1>5, <1>6, CurLined DEF Lined

LEMMA WaitsForNone ==
    ASSUME IInv', NEW r, Reached(r), NEW t \in TSK, ~TSTAT_WAITING(tcb'[t].tstat),
           NEW m \in MTX
    PROVE  t \notin Line(r, m)
<1>1. Inv(Cur', {}, Ends(Cur'))
  BY DEF IInv, KInv
<1>2. TaskOK(Cur', t, Ends(Cur'))
  BY <1>1 DEF Inv
<1>3. Cur'.tcb = tcb' /\ r.tcb = tcb'
  BY DEF Cur, Reached
<1>4. tcb'[t].tstat \in TSTATS
  BY <1>2, <1>3 DEF TaskOK
<1>5. ~TSTAT_WAIT_WOBJ(tcb'[t].tstat)
  BY <1>4, TstatFacts
<1>6. ~BlockedOn(r, t, m)
  BY <1>3, <1>5 DEF BlockedOn
<1> QED BY <1>6, EndLined DEF Lined

-----------------------------------------------------------------------------
(* The invariant, and what a step shows.                                   *)

Handover ==
    /\ \A m \in MTX :
          mtx'[m].p_loctsk \notin {NULL, mtx[m].p_loctsk} =>
             IF wobj[m].wait_queue = <<>>
             THEN mtx[m].p_loctsk = NULL \/ ~ObjectExists(m)
             ELSE mtx'[m].p_loctsk = Head(wobj[m].wait_queue)
    /\ \A t \in TSK :
          TSTAT_WAIT_MTX(tcb[t].tstat) /\ ~TSTAT_WAITING(tcb'[t].tstat) /\ tcb'[t].insvc =>
             (tcb'[t].winfo = "E_OK"
                 <=> mtx'[tcb[t].p_wobjcb].p_loctsk = t)

LEMMA LockStepShows ==
    ASSUME NoActiveCreation, MInv, [Next]_vars
    PROVE  MInv' /\ [Locks!Next]_(Locks!svars) /\ Handover
<1>1. IInv /\ IInv' /\ LocksStep
  BY LockSteps DEF MInv
<1>2. PICK r : Reached(r) /\ LockStepOK(r)
  BY <1>1 DEF LocksStep
<1>3. [Locks!Next]_(Locks!svars) /\ OwnFree(r) /\ HandsOver(Cur, r)
  BY <1>2 DEF LockStepOK
<1>4. Cur'.tcb = r.tcb /\ Cur'.wobj = r.wobj /\ Cur'.mtx = r.mtx
  BY <1>2 DEF Cur, Reached
<1>5. OwnFree(Cur')
  BY <1>3, <1>4 DEF OwnFree, Owner, Line, WobjExists
<1>6. MInv'
  BY <1>1, <1>5 DEF MInv
<1>7. /\ Cur.mtx = mtx /\ Cur.wobj = wobj
      /\ r.mtx = mtx' /\ r.wobj = wobj' /\ r.tcb = tcb'
  BY <1>2, CurFields DEF Reached
<1>8. ASSUME NEW m \in MTX, mtx'[m].p_loctsk \notin {NULL, mtx[m].p_loctsk}
      PROVE  IF wobj[m].wait_queue = <<>>
             THEN mtx[m].p_loctsk = NULL \/ ~ObjectExists(m)
             ELSE mtx'[m].p_loctsk = Head(wobj[m].wait_queue)
  <2>1. WobjExists(Cur, m) <=> ObjectExists(m)
    BY CurExists, Mutexes
  <2> QED BY <1>3, <1>7, <1>8, <2>1 DEF HandsOver
<1>9. ASSUME NEW t \in TSK, TSTAT_WAIT_MTX(tcb[t].tstat), ~TSTAT_WAITING(tcb'[t].tstat),
             tcb'[t].insvc
      PROVE  tcb'[t].winfo = "E_OK" <=> mtx'[tcb[t].p_wobjcb].p_loctsk = t
  <2> DEFINE m == tcb[t].p_wobjcb
  <2>1. m \in MTX /\ t \in Line(Cur, m)
    BY <1>1, <1>9, WaitsForMutex
  <2> HIDE DEF m
  <2>2. t \notin Line(r, m)
    BY <1>1, <1>2, <1>9, <2>1, WaitsForNone
  <2>3. r.tcb[t].winfo = "E_OK" <=> r.mtx[m].p_loctsk = t
    BY <1>3, <1>7, <1>9, <2>1, <2>2 DEF HandsOver
  <2> QED BY <1>7, <2>3 DEF m
<1>10. Handover
  BY <1>8, <1>9 DEF Handover
<1> QED BY <1>3, <1>6, <1>10

-----------------------------------------------------------------------------
(* At the start no mutex has an owner: initialize_task touches none.       *)

LEMMA InitTaskStill ==
    ASSUME NEW s, NEW t
    PROVE  Still(s, InitTask(s, t))
<1> DEFINE d == make_dormant(s, t)
<1>1. Still(s, d)
  BY make_dormant_still
<1> HIDE DEF d
<1>2. Still(s, make_active(d, t))
  BY <1>1, make_active_still, StillTrans
<1> QED BY <1>1, <1>2 DEF InitTask, d

LEMMA initialize_task_still ==
    ASSUME app \in DOMAIN CONFIG
    PROVE  Still(zero_state, initialize_task)
<1> DEFINE q == CONFIG[app].torder_table
           s == zero_state
           turns == Len(q)
           after[n \in 0 .. turns] == IF n = 0 THEN s ELSE InitTask(after[n - 1], q[n])
           Moved(n) == ~Still(s, after[n])
           S == {n \in 0 .. turns : Moved(n)}
           k == Min(S)
<1>1. turns \in Nat
  <2>1. IsConfig(CONFIG[app])
    BY Configured
  <2>2. q \in Seq(TSK)
    BY <2>1 DEF IsConfig
  <2> HIDE DEF q
  <2> QED BY <2>2
<1>2. after = [n \in 0 .. turns |-> IF n = 0 THEN s ELSE InitTask(after[n - 1], q[n])]
  <2>1. Begun(s, q, turns)
    BY <1>1, initialize_task_defined
  <2> QED BY <2>1 DEF after, Begun
<1>3. initialize_task = after[turns]
  BY DEF initialize_task, InitTask, torder_table
<1> HIDE DEF after, s, turns, q
<1>4. Still(s, after[0])
  <2>1. after[0] = s
    BY <1>1, <1>2
  <2> QED BY <2>1, StillSelf
<1>5. ASSUME NEW n \in 1 .. turns, Still(s, after[n - 1])
      PROVE  Still(s, after[n])
  <2>1. after[n] = InitTask(after[n - 1], q[n])
    BY <1>1, <1>2
  <2>2. Still(after[n - 1], after[n])
    BY <2>1, InitTaskStill
  <2> QED BY <1>5, <2>2, StillTrans
<1>6. \A n \in 0 .. turns : Still(s, after[n])
  <2> SUFFICES ASSUME S # {} PROVE FALSE
    OBVIOUS
  <2>0. S \in SUBSET Nat
    BY <1>1
  <2>1. k \in S /\ \A y \in S : k <= y
    BY <2>0, LeastOf
  <2> HIDE DEF k
  <2>2. k # 0
    BY <1>4, <2>1
  <2>3. k \in 1 .. turns /\ k - 1 \in 0 .. turns /\ ~(k <= k - 1)
    BY <1>1, <2>1, <2>2
  <2>4. Still(s, after[k - 1])
    BY <2>1, <2>3
  <2> QED BY <1>5, <2>1, <2>3, <2>4
<1> QED BY <1>1, <1>3, <1>6 DEF s

LEMMA LocksBegin ==
    ASSUME Init
    PROVE  MInv /\ Locks!Init
<1> DEFINE z == zero_state
           i == initialize_task
<1>1. IInv /\ app \in DOMAIN CONFIG
  BY InitIInv DEF Init
<1>2. Zero(z, CONFIG[app])
  BY ZeroState
<1>3. Framed(z)
  BY <1>2 DEF Zero, Framed
<1>4. \A m \in MTX : z.mtx[m].p_loctsk = NULL
  <2> HIDE DEF z
  <2>1. \A p : [p_loctsk |-> NULL, ceilpri |-> p].p_loctsk = NULL
    OBVIOUS
  <2>2. \A m \in MTX : \E p : z.mtx[m] = [p_loctsk |-> NULL, ceilpri |-> p]
    BY <1>2 DEF Zero
  <2> QED BY <2>1, <2>2
<1>5. Still(z, i)
  BY <1>1, initialize_task_still
<1> HIDE DEF z, i
<1>6. sta_ker = dispatcher(i)
  BY DEF sta_ker, i
<1>7. mtx = z.mtx
  <2>1. Still(i, dispatcher(i))
    BY dispatch_still
  <2>2. Still(z, dispatcher(i))
    BY <1>5, <2>1, StillTrans
  <2>3. dispatcher(i).mtx = z.mtx
    BY <1>3, <2>2 DEF Still
  <2>4. mtx = sta_ker.mtx
    BY DEF Init
  <2> QED BY <1>6, <2>3, <2>4
<1>8. \A m \in MTX : Owner(Cur, m) = NULL /\ Line(Cur, m) = {}
  <2>1. \A m \in MTX : Owner(Cur, m) = NULL
    BY <1>4, <1>7, CurFields DEF Owner
  <2> QED BY <1>1, <2>1, CurLines
<1>9. OwnFree(Cur)
  BY <1>8 DEF OwnFree
<1>10. \A m \in MTX : /\ (IF ObjectExists(m) THEN mtx[m].p_loctsk ELSE NULL) = NULL
                      /\ ToSet(wobj[m].wait_queue) = {}
  BY <1>4, <1>7, <1>8, CurFields DEF Line
<1>11. Locks!Init
  BY <1>10 DEF Locks!Init
<1> QED BY <1>1, <1>9, <1>11 DEF MInv

-----------------------------------------------------------------------------
(* Theorems.                                                               *)

(* The mutexes of the kernel implement the lock service                    *)
(* (ImplementsLockService): whatever locks, unlocks, deletes, initializes, *)
(* times out or is released, and whoever ends, a mutex that is given up    *)
(* passes at once to one of the tasks that wait for it.                    *)
THEOREM ImplementsLocks ==
    ASSUME NoActiveCreation
    PROVE  Spec => ImplementsLockService
<1>1. Init => MInv /\ Locks!Init
  BY LocksBegin
<1>2. MInv /\ [Next]_vars => MInv' /\ [Locks!Next]_(Locks!svars)
  BY LockStepShows
<1> QED BY <1>1, <1>2, PTL DEF Spec, ImplementsLockService, Locks!Spec

(* A mutex passes only from free to a task or to the first of its queue,   *)
(* and whoever no longer waits for a mutex, unless it was terminated, is   *)
(* told E_OK exactly if it owns the mutex (MutexHandover).                 *)
THEOREM HandoverCorrect ==
    ASSUME NoActiveCreation
    PROVE  Spec => MutexHandover
<1>1. Init => MInv
  BY LocksBegin
<1>2. MInv /\ [Next]_vars => MInv' /\ Handover
  BY LockStepShows
<1> QED BY <1>1, <1>2, PTL DEF Spec, MutexHandover, Handover

=============================================================================
