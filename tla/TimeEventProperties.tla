------------------------ MODULE TimeEventProperties ------------------------
(***************************************************************************)
(* What makes the time event manager correct.  left[e] counts the time     *)
(* really left to event e, without wrapping around: the properties compare *)
(* the modular arithmetic of the code with it.                             *)
(***************************************************************************)
EXTENDS TimeEvent

Lag == (hrtcnt - current_hrtcnt) % TCYC_HRTCNT

(* Every variable holds a value of its C type.                             *)
TypeOK ==
    /\ tmevt_heap \in Seq(EVT)
    /\ evttim \in [EVT -> 0 .. EVTTIM_MOD - 1]
    /\ current_evttim \in 0 .. EVTTIM_MOD - 1
    /\ boundary_evttim \in 0 .. EVTTIM_MOD - 1
    /\ monotonic_evttim \in 0 .. EVTTIM_MOD - 1
    /\ current_hrtcnt \in 0 .. TCYC_HRTCNT - 1
    /\ hrtcnt \in 0 .. TCYC_HRTCNT - 1
    /\ systim_offset \in 0 .. SYSTIM_MOD - 1
    /\ in_signal_time \in BOOLEAN
    /\ hrt_event \in STOPPED .. HRTCNT_BOUND
    /\ delay \in 0 .. LATENCY
    /\ left \in [EVT -> Int]

(* No node of the heap is due before its parent, in real time, although    *)
(* the code compares times that wrap around (time_event.c: tmevt_up,       *)
(* tmevt_down, tmevtb_delete, tmevtb_delete_top).                          *)
HeapOK ==
    \A i \in 2 .. Len(tmevt_heap) :
       left[tmevt_heap[PARENT(i)]] <= left[tmevt_heap[i]]

(* An operation on the heap adds or removes one time event and neither     *)
(* loses nor duplicates another (time_event.c: the moves of the nodes).    *)
HeapKeepsOthers ==
    [][/\ Len(tmevt_heap') = Cardinality(ToSet(tmevt_heap'))
       /\ \E e \in EVT : ToSet(tmevt_heap) \ {e} = ToSet(tmevt_heap') \ {e}]_vars

(* Relative to boundary_evttim a registered time is ahead by the time that *)
(* is really left, counted from BOUNDARY_MARGIN in the past: no adjustment *)
(* and no delay takes it out of the window in which times compare as they  *)
(* should (time_event.c: EVTTIM_LT; time_manage.c: adj_tim).               *)
InWindow ==
    \A e \in EVT : Registered(e) =>
       EVTTIM_ADVANCE(Cur, evttim[e]) = Lag + left[e] + BOUNDARY_MARGIN

(* Outside the handling of the timer interrupt the timer is set no later   *)
(* than the first time event, or to the next count if that is due already  *)
(* (time_event.c: set_hrt_event and the tests that guard its calls).       *)
TimerCoversTop ==
    ~in_signal_time /\ tmevt_heap # <<>> =>
       hrt_event \in 0 .. Max({left[Head(tmevt_heap)], 1})

(* The counter is read again before it can pass its cycle unnoticed: while *)
(* the timer runs it fires within HRTCNT_BOUND of the last reading, and it *)
(* is never left stopped (time_event.c: update_current_evttim,             *)
(* set_hrt_event, signal_time).                                            *)
TimerInTime ==
    IF in_signal_time THEN Lag <= delay
    ELSE IF hrt_event = 0 THEN Lag <= HRTCNT_BOUND + delay
    ELSE /\ hrt_event \in 1 .. HRTCNT_BOUND
         /\ Lag + hrt_event <= HRTCNT_BOUND
         /\ delay = 0

(* A callback is called only when its event is due, and no event that is   *)
(* due earlier is still registered (time_event.c: signal_time).            *)
CallsInOrder ==
    [][(signal_time \/ signal_time_continues)
       /\ <<tmevt_heap, evttim>>' # <<tmevt_heap, evttim>> =>
          LET e == Head(tmevt_heap)
          IN  /\ left[e] <= 0
              /\ \A x \in ToSet(tmevt_heap) : left[e] <= left[x]]_vars

(* The system time never goes back, whatever is adjusted and whenever the  *)
(* words it is computed from wrap around, unless it is set (time_manage.c: *)
(* get_tim, adj_tim; time_event.c: update_current_evttim).                 *)
SystimMonotonic ==
    [][\/ \E time \in SYSTIM : set_tim(time)
       \/ (systim(Cur)' - systim(Cur)) % SYSTIM_MOD < EVTTIM_MOD]_vars

(* While it waits for the event time to catch up after being set back, the *)
(* system time is never ahead by more than two adjustments (time_event.c:  *)
(* check_adjtim).                                                          *)
SystimNearEvttim ==
    EVTTIM_MINUS(monotonic_evttim, current_evttim) <= 2 * TMAX_ADJTIM

(* The time left that ref_alm and ref_cyc report is the time really left,  *)
(* less the step of the counter (time_event.c: tmevt_lefttim).             *)
LefttimExact ==
    \A e \in EVT : Registered(e) =>
       tmevt_lefttim(update_current_evttim(Cur), e) = Max({left[e] - TSTEP_HRTCNT, 0})

=============================================================================
