---------------------------- MODULE Notification ----------------------------
(***************************************************************************)
(* Cyclic notifications (kernel/cyclic.c) and alarm notifications          *)
(* (kernel/alarm.c), on the time event manager.  The time event of a       *)
(* control block has the name of the control block.                        *)
(*                                                                         *)
(* Tasks do not run while signal_time handles the timer interrupt, but the *)
(* notification handlers it calls with the CPU unlocked, and the handlers  *)
(* of other interrupts, start and stop alarms meanwhile.                   *)
(***************************************************************************)
EXTENDS TimeEvent

CONSTANTS
    STARTED,       \* the static cyclic notifications with TA_STA, with their phases
    dynamic_cyc,   \* control blocks for acre_cyc, in the order of free_cyccb
    dynamic_alm    \* control blocks for acre_alm, in the order of free_almcb

CYC == DOMAIN CYCTIM
ALM == EVT \ CYC

(* The configurator numbers the static notifications, so they are finitely *)
(* many, and each control block for dynamic ones is in its list once.      *)
ASSUME NotificationAssumption ==
    /\ DOMAIN STARTED \subseteq CYC
    /\ IsFiniteSet(DOMAIN STARTED)
    /\ \A c \in DOMAIN STARTED : STARTED[c] \in 0 .. EVTTIM_MOD - 1
    /\ dynamic_cyc \in Seq(CYC \ DOMAIN STARTED)
    /\ dynamic_alm \in Seq(ALM)
    /\ IsInjective(dynamic_cyc) /\ IsInjective(dynamic_alm)

VARIABLES
    cyc,         \* control blocks of the cyclic notifications
    alm,         \* control blocks of the alarm notifications
    free_cyccb,  \* control blocks without a cyclic notification
    free_almcb,  \* control blocks without an alarm notification
    called       \* the notification whose handler signal_time has called

nvars == <<cyc, alm, free_cyccb, free_almcb, called>>

NOEXS == "TA_NOEXS"

(* A control block without a notification.                                 *)
free_cyc == [cycatr |-> NOEXS, cycsta |-> FALSE, cycphs |-> 0]
free_alm == [almatr |-> NOEXS, almsta |-> FALSE]

-----------------------------------------------------------------------------
(* Time events as operators on TimeEvent's state: a call may take one out  *)
(* and put it in again.                                                    *)

dequeued(s, e) ==
    LET r == tmevtb_delete(s, e)
    IN  IF ~s.in_signal_time /\ Head(s.heap) = e
        THEN set_hrt_event(update_current_evttim(r)) ELSE r

enqueued(s, e, time) ==
    LET now == update_current_evttim(s)
        r   == tmevtb_insert([now EXCEPT !.evttim[e] =
                                 EVTTIM_PLUS(calc_current_evttim_ub(now), time)], e)
    IN  IF ~s.in_signal_time /\ Head(r.heap) = e THEN set_hrt_event(r) ELSE r

(* Registers e to occur after time, for the first time or anew; like       *)
(* tmevtb_dequeue this needs a running e to be registered.                 *)
restart(e, running, time) ==
    /\ running => Registered(e)
    /\ Become(enqueued(IF running THEN dequeued(Cur, e) ELSE Cur, e, time))
    /\ left' = [left EXCEPT ![e] = TSTEP_HRTCNT + time]
    /\ UNCHANGED delay

stop(e, running) == IF running THEN tmevtb_dequeue(e) ELSE UNCHANGED vars

-----------------------------------------------------------------------------

(* initialize_cyclic, before the timer is set for the first time.          *)
initialize_cyclic ==
    LET q == SetToSeq(DOMAIN STARTED)
        after[n \in 0 .. Len(q)] ==
            IF n = 0 THEN zero_state
            ELSE tmevtb_insert([after[n - 1] EXCEPT !.evttim[q[n]] = STARTED[q[n]]], q[n])
    IN  after[Len(q)]

NotificationInit ==
    /\ \E s \in {set_hrt_event(initialize_cyclic)} :
          /\ tmevt_heap = s.heap
          /\ evttim = s.evttim
          /\ current_evttim = s.current_evttim
          /\ boundary_evttim = s.boundary_evttim
          /\ current_hrtcnt = s.current_hrtcnt
          /\ monotonic_evttim = s.monotonic_evttim
          /\ systim_offset = s.systim_offset
          /\ in_signal_time = s.in_signal_time
          /\ hrt_event = s.hrt_event
    /\ hrtcnt = 0
    /\ delay = 0
    /\ left = [e \in EVT |-> IF e \in DOMAIN STARTED THEN STARTED[e] ELSE 0]
    /\ cyc = [c \in CYC |->
                IF c \in DOMAIN STARTED
                THEN [cycatr |-> "TA_STA", cycsta |-> TRUE, cycphs |-> STARTED[c]]
                ELSE IF c \in ToSet(dynamic_cyc) THEN free_cyc
                ELSE [free_cyc EXCEPT !.cycatr = "TA_NULL"]]
    /\ alm = [a \in ALM |-> IF a \in ToSet(dynamic_alm) THEN free_alm
                            ELSE [free_alm EXCEPT !.almatr = "TA_NULL"]]
    /\ free_cyccb = dynamic_cyc
    /\ free_almcb = dynamic_alm
    /\ called = {}

acre_cyc(cycatr, cycphs) ==
    LET c == Head(free_cyccb)
    IN  /\ ~in_signal_time
        /\ free_cyccb # <<>>
        /\ free_cyccb' = Tail(free_cyccb)
        /\ cyc' = [cyc EXCEPT ![c] = [cycatr |-> cycatr, cycphs |-> cycphs,
                                      cycsta |-> (cycatr = "TA_STA")]]
        /\ IF cycatr = "TA_STA" THEN tmevtb_enqueue(c, cycphs) ELSE UNCHANGED vars
        /\ UNCHANGED <<alm, free_almcb, called>>

(* Faulty variant: a running notification is deleted without being stopped.*)
del_cyc_running(c) ==
    /\ ~in_signal_time
    /\ cyc[c].cycatr # NOEXS /\ c \in ToSet(dynamic_cyc)
    /\ cyc' = [cyc EXCEPT ![c] = free_cyc]
    /\ free_cyccb' = Append(free_cyccb, c)
    /\ UNCHANGED <<vars, alm, free_almcb, called>>

del_cyc(c) ==
    /\ ~in_signal_time
    /\ cyc[c].cycatr # NOEXS /\ c \in ToSet(dynamic_cyc)
    /\ stop(c, cyc[c].cycsta)
    /\ cyc' = [cyc EXCEPT ![c] = free_cyc]
    /\ free_cyccb' = Append(free_cyccb, c)
    /\ UNCHANGED <<alm, free_almcb, called>>

sta_cyc(c) ==
    /\ ~in_signal_time
    /\ cyc[c].cycatr # NOEXS
    /\ cyc' = [cyc EXCEPT ![c].cycsta = TRUE]
    /\ restart(c, cyc[c].cycsta, cyc[c].cycphs)
    /\ UNCHANGED <<alm, free_cyccb, free_almcb, called>>

stp_cyc(c) ==
    /\ ~in_signal_time
    /\ cyc[c].cycatr # NOEXS
    /\ stop(c, cyc[c].cycsta)
    /\ cyc' = [cyc EXCEPT ![c].cycsta = FALSE]
    /\ UNCHANGED <<alm, free_cyccb, free_almcb, called>>

acre_alm ==
    /\ ~in_signal_time
    /\ free_almcb # <<>>
    /\ free_almcb' = Tail(free_almcb)
    /\ alm' = [alm EXCEPT ![Head(free_almcb)] = [almatr |-> "TA_NULL", almsta |-> FALSE]]
    /\ UNCHANGED <<vars, cyc, free_cyccb, called>>

del_alm(a) ==
    /\ ~in_signal_time
    /\ alm[a].almatr # NOEXS /\ a \in ToSet(dynamic_alm)
    /\ stop(a, alm[a].almsta)
    /\ alm' = [alm EXCEPT ![a] = free_alm]
    /\ free_almcb' = Append(free_almcb, a)
    /\ UNCHANGED <<cyc, free_cyccb, called>>

(* By a task or by an interrupt handler.                                   *)
sta_alm(a, almtim) ==
    /\ alm[a].almatr # NOEXS
    /\ alm' = [alm EXCEPT ![a].almsta = TRUE]
    /\ restart(a, alm[a].almsta, almtim)
    /\ UNCHANGED <<cyc, free_cyccb, free_almcb, called>>

stp_alm(a) ==
    /\ alm[a].almatr # NOEXS
    /\ stop(a, alm[a].almsta)
    /\ alm' = [alm EXCEPT ![a].almsta = FALSE]
    /\ UNCHANGED <<cyc, free_cyccb, free_almcb, called>>

(* ref_cyc and ref_alm of a running notification, as far as they change    *)
(* anything.                                                               *)
ref == ~in_signal_time /\ tmevt_heap # <<>> /\ get_tim /\ UNCHANGED nvars

-----------------------------------------------------------------------------
(* The callbacks.                                                          *)

(* Faulty variant: an alarm that has gone off is still running.            *)
call_notification_keeps_alarm(due) ==
    /\ called' = due
    /\ UNCHANGED <<alm, cyc, free_cyccb, free_almcb>>

(* call_cyclic and call_alarm, up to the call of the handler, for the time *)
(* events that signal_time takes out of the heap: one or none.  TimeEvent  *)
(* registers a cyclic notification again.                                  *)
call_notification(due) ==
    /\ called' = due
    /\ alm' = [a \in ALM |-> IF a \in due THEN [alm[a] EXCEPT !.almsta = FALSE]
                             ELSE alm[a]]
    /\ UNCHANGED <<cyc, free_cyccb, free_almcb>>

TopDue ==
    IF (in_signal_time /\ Due(Cur)) \/ Due(update_current_evttim(Cur))
    THEN {Head(tmevt_heap)} ELSE {}

TimerInterrupt == signal_time /\ call_notification(TopDue)

HandlerReturns == signal_time_continues /\ call_notification(TopDue)

Tick == tick /\ UNCHANGED nvars

Clock == Tick \/ TimerInterrupt \/ HandlerReturns

NotificationNext ==
    \/ \E cycatr \in {"TA_STA", "TA_NULL"}, cycphs \in RELTIM : acre_cyc(cycatr, cycphs)
    \/ \E c \in CYC : del_cyc(c) \/ sta_cyc(c) \/ stp_cyc(c)
    \/ acre_alm
    \/ \E a \in ALM : del_alm(a) \/ stp_alm(a)
    \/ \E a \in ALM, almtim \in RELTIM : sta_alm(a, almtim)
    \/ ref
    \/ Clock

NotificationSpec == NotificationInit /\ [][NotificationNext]_<<vars, nvars>>

=============================================================================
