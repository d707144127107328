----------------------------- MODULE TimeEvent -----------------------------
(***************************************************************************)
(* The time event manager, kernel/time_event.c, with the system time of    *)
(* kernel/time_manage.c, the cyclic notification of kernel/cyclic.c as the *)
(* time event that registers itself again, and the high resolution timer   *)
(* of the target (arch/arm_gcc/mpcore/chip_timer.h).                       *)
(*                                                                         *)
(* Event times are unsigned words that wrap around at EVTTIM_MOD (2^32 in  *)
(* the code).  As in TaskOps, a C function is an operator on a record s of *)
(* the module's data, since it runs with the CPU locked.                   *)
(***************************************************************************)
EXTENDS Integers, SequencesExt

CONSTANTS
    EVT,              \* time event blocks
    CYCTIM,           \* period of each cyclic notification, a function on a subset of EVT
    EVTTIM_MOD,       \* 2^32: event times are words of this many values
    SYSTIM_MOD,       \* 2^64: the same for the system time
    TCYC_HRTCNT,      \* cycle of the high resolution timer's counter
    HRTCNT_BOUND,     \* longest interval the timer is set to
    TSTEP_HRTCNT,     \* step of the counter
    BOUNDARY_MARGIN,  \* how far an event time may lie in the past
    TMAX_ADJTIM,      \* largest adjustment of the system time, either way
    RELTIM,           \* relative times the application uses
    ADJTIM,           \* adjustments the application uses
    SYSTIM,           \* system times the application sets
    LATENCY           \* bound on how long handling the timer interrupt takes

ASSUME TimeEventAssumption ==
    /\ DOMAIN CYCTIM \subseteq EVT
    /\ \A e \in DOMAIN CYCTIM : CYCTIM[e] \in Nat \ {0}
    /\ RELTIM \subseteq Nat
    /\ ADJTIM \subseteq -TMAX_ADJTIM .. TMAX_ADJTIM
    /\ SYSTIM \subseteq 0 .. SYSTIM_MOD - 1
    /\ {EVTTIM_MOD, HRTCNT_BOUND, TSTEP_HRTCNT} \subseteq Nat \ {0}
    /\ {BOUNDARY_MARGIN, TMAX_ADJTIM, LATENCY} \subseteq Nat
    /\ TCYC_HRTCNT \in 1 .. EVTTIM_MOD
    /\ HRTCNT_BOUND + LATENCY < TCYC_HRTCNT
    /\ HRTCNT_BOUND + LATENCY + TMAX_ADJTIM < EVTTIM_MOD
    /\ SYSTIM_MOD \in {k * EVTTIM_MOD : k \in 1 .. EVTTIM_MOD}

(* How far ahead of the current time a time event is registered.           *)
Ahead == {TSTEP_HRTCNT + time : time \in RELTIM} \cup {CYCTIM[e] : e \in DOMAIN CYCTIM}

(* The window in which event times compare as they should: BOUNDARY_MARGIN *)
(* in the past has room for a late callback and two adjustments, and the   *)
(* words beyond it have room for the longest relative time and as many.    *)
(* Every task has a time event, so there is one.                           *)
ASSUME TimeWindowAssumption ==
    /\ EVT # {}
    /\ 2 * TMAX_ADJTIM + LATENCY <= BOUNDARY_MARGIN
    /\ BOUNDARY_MARGIN + TSTEP_HRTCNT < EVTTIM_MOD
    /\ \A time \in Ahead : /\ BOUNDARY_MARGIN + time < EVTTIM_MOD
                           /\ BOUNDARY_MARGIN + time + 2 * TMAX_ADJTIM <= EVTTIM_MOD

VARIABLES
    tmevt_heap,        \* the heap, as the sequence of its nodes 1, 2, ...
    evttim,            \* the time each event occurs
    current_evttim,    \* event time when it was last computed
    boundary_evttim,   \* event times are compared relative to this
    current_hrtcnt,    \* the counter when current_evttim was computed
    monotonic_evttim,  \* the most advanced current_evttim so far
    systim_offset,     \* system time minus monotonic_evttim
    in_signal_time,    \* the timer interrupt is being handled
    hrtcnt,            \* the counter of the high resolution timer
    hrt_event,         \* time left to the timer interrupt; 0: it is pending
    delay,             \* how long its handling has taken (not in the code)
    left               \* time really left to each event (not in the code)

vars == <<tmevt_heap, evttim, current_evttim, boundary_evttim, current_hrtcnt,
          monotonic_evttim, systim_offset, in_signal_time, hrtcnt, hrt_event,
          delay, left>>

Cur == [heap             |-> tmevt_heap,
        evttim           |-> evttim,
        current_evttim   |-> current_evttim,
        boundary_evttim  |-> boundary_evttim,
        current_hrtcnt   |-> current_hrtcnt,
        monotonic_evttim |-> monotonic_evttim,
        systim_offset    |-> systim_offset,
        in_signal_time   |-> in_signal_time,
        hrt_event        |-> hrt_event]

(* The bound variable lets TLC compute the record once.                   *)
Become(state) ==
    \E s \in {state} :
       /\ tmevt_heap'       = s.heap
       /\ evttim'           = s.evttim
       /\ current_evttim'   = s.current_evttim
       /\ boundary_evttim'  = s.boundary_evttim
       /\ current_hrtcnt'   = s.current_hrtcnt
       /\ monotonic_evttim' = s.monotonic_evttim
       /\ systim_offset'    = s.systim_offset
       /\ in_signal_time'   = s.in_signal_time
       /\ hrt_event'        = s.hrt_event
       /\ UNCHANGED hrtcnt

-----------------------------------------------------------------------------
(* Event times.                                                            *)

EVTTIM_PLUS(a, b)  == (a + b) % EVTTIM_MOD
EVTTIM_MINUS(a, b) == (a - b) % EVTTIM_MOD

EVTTIM_ADVANCE(s, t) == EVTTIM_MINUS(t, s.boundary_evttim)
EVTTIM_LT(s, a, b)   == EVTTIM_ADVANCE(s, a) < EVTTIM_ADVANCE(s, b)
(* Faulty variant: compares the words.                                     *)
EVTTIM_LE_words(s, a, b) == a <= b

EVTTIM_LE(s, a, b)   == EVTTIM_ADVANCE(s, a) <= EVTTIM_ADVANCE(s, b)

top_evttim(s) == s.evttim[Head(s.heap)]

-----------------------------------------------------------------------------
(* The heap.  tmevt_up and tmevt_down search the node for event e from the *)
(* empty node n, moving the nodes they pass by one place, and put e there. *)

PARENT(n) == n \div 2
LCHILD(n) == 2 * n

(* The nodes from n to the root: the least set with n and, with a node,    *)
(* its parent.                                                             *)
ancestors(n) ==
    {i \in 1 .. n : \A S \in SUBSET (1 .. n) :
       n \in S /\ (\A j \in S \ {1} : PARENT(j) \in S) => i \in S}

node_time(s, i) == s.evttim[s.heap[i]]

(* The first of these nodes whose parent does not occur after e.           *)
up_node(s, n, e) ==
    Max({i \in ancestors(n) :
            i = 1 \/ EVTTIM_LE(s, node_time(s, PARENT(i)), s.evttim[e])})

nodes_up(s, n, e) ==
    LET found == up_node(s, n, e)
    IN  [i \in DOMAIN s.heap |-> IF i = found THEN e
                                 ELSE IF i \in ancestors(n) /\ i > found
                                 THEN s.heap[PARENT(i)] ELSE s.heap[i]]

(* Faulty variant: does not move the nodes it passes.                      *)
tmevt_up_overwrites(s, n, e) == [s EXCEPT !.heap[up_node(s, n, e)] = e]

tmevt_up(s, n, e) == [s EXCEPT !.heap = nodes_up(s, n, e)]

(* The child of node i that occurs first.                                  *)
first_child(s, i) ==
    IF /\ LCHILD(i) + 1 <= Len(s.heap)
       /\ EVTTIM_LT(s, node_time(s, LCHILD(i) + 1), node_time(s, LCHILD(i)))
    THEN LCHILD(i) + 1 ELSE LCHILD(i)

(* The nodes from n downwards, always to the child that occurs first.      *)
descent(s, n) ==
    {i \in n .. Len(s.heap) :
       /\ n \in ancestors(i)
       /\ \A j \in ancestors(i) : j > n => j = first_child(s, PARENT(j))}

down_node(s, n, e) ==
    Min({i \in descent(s, n) :
            \/ LCHILD(i) > Len(s.heap)
            \/ EVTTIM_LE(s, s.evttim[e], node_time(s, first_child(s, i)))})

nodes_down(s, n, e) ==
    LET found == down_node(s, n, e)
    IN  [i \in DOMAIN s.heap |-> IF i = found THEN e
                                 ELSE IF i \in descent(s, n) /\ i < found
                                 THEN s.heap[first_child(s, i)] ELSE s.heap[i]]

tmevt_down(s, n, e) == [s EXCEPT !.heap = nodes_down(s, n, e)]

tmevtb_insert(s, e) ==
    tmevt_up([s EXCEPT !.heap = Append(@, e)], Len(s.heap) + 1, e)

node_of(s, e) == CHOOSE n \in DOMAIN s.heap : s.heap[n] = e

(* Faulty variant: moves the last event downwards only.                    *)
tmevtb_delete_down_only(s, e) ==
    LET n == node_of(s, e)
        r == [s EXCEPT !.heap = Front(@)]
    IN  IF n = Len(s.heap) THEN r ELSE tmevt_down(r, n, Last(s.heap))

(* The last event of the heap fills the node n that becomes empty.         *)
tmevtb_delete(s, e) ==
    LET n    == node_of(s, e)
        last == Last(s.heap)
        r    == [s EXCEPT !.heap = Front(@)]
        up   == /\ n > 1
                /\ EVTTIM_LT(s, s.evttim[last], s.evttim[s.heap[PARENT(n)]])
    IN  IF n = Len(s.heap) THEN r
        ELSE IF up THEN tmevt_up(r, n, last) ELSE tmevt_down(r, n, last)

tmevtb_delete_top(s) ==
    LET r == [s EXCEPT !.heap = Front(@)]
    IN  IF Len(s.heap) = 1 THEN r ELSE tmevt_down(r, 1, Last(s.heap))

-----------------------------------------------------------------------------
(* The current time and the timer.                                         *)

(* Faulty variant: forgets that the event time has wrapped around.         *)
advance_evttim_no_offset(s, advance) ==
    LET current == EVTTIM_PLUS(s.current_evttim, advance)
        r       == [s EXCEPT !.current_evttim  = current,
                             !.boundary_evttim = EVTTIM_MINUS(current, BOUNDARY_MARGIN)]
    IN  IF EVTTIM_MINUS(s.monotonic_evttim, s.current_evttim) < advance
        THEN [r EXCEPT !.monotonic_evttim = current]
        ELSE r

advance_evttim(s, advance) ==
    LET current == EVTTIM_PLUS(s.current_evttim, advance)
        r       == [s EXCEPT !.current_evttim  = current,
                             !.boundary_evttim = EVTTIM_MINUS(current, BOUNDARY_MARGIN)]
    IN  IF EVTTIM_MINUS(s.monotonic_evttim, s.current_evttim) < advance
        THEN [r EXCEPT !.monotonic_evttim = current,
                       !.systim_offset    = IF current < s.monotonic_evttim
                                            THEN (@ + EVTTIM_MOD) % SYSTIM_MOD ELSE @]
        ELSE r

(* Faulty variant: forgets the cycle of the counter.                       *)
update_current_evttim_no_cycle(s) ==
    LET hrtcnt_advance == EVTTIM_MINUS(hrtcnt, s.current_hrtcnt)
    IN  [advance_evttim(s, hrtcnt_advance) EXCEPT !.current_hrtcnt = hrtcnt]

update_current_evttim(s) ==
    LET hrtcnt_advance == (hrtcnt - s.current_hrtcnt) % TCYC_HRTCNT
    IN  [advance_evttim(s, hrtcnt_advance) EXCEPT !.current_hrtcnt = hrtcnt]

calc_current_evttim_ub(s) == EVTTIM_PLUS(s.current_evttim, TSTEP_HRTCNT)

STOPPED == -1

(* An interrupt that is already pending stays pending.                     *)
target_hrt_set_event(s, count) ==
    IF s.hrt_event = 0 THEN s ELSE [s EXCEPT !.hrt_event = count]

target_hrt_raise_event(s) == target_hrt_set_event(s, 1)

(* Faulty variant: does not limit the interval.                            *)
set_hrt_event_unbounded(s) ==
    IF s.heap = <<>> THEN target_hrt_set_event(s, HRTCNT_BOUND)
    ELSE IF EVTTIM_LE(s, top_evttim(s), s.current_evttim)
    THEN target_hrt_raise_event(s)
    ELSE target_hrt_set_event(s, EVTTIM_MINUS(top_evttim(s), s.current_evttim))

set_hrt_event(s) ==
    LET count == EVTTIM_MINUS(top_evttim(s), s.current_evttim)
    IN  IF s.heap = <<>> THEN target_hrt_set_event(s, HRTCNT_BOUND)
        ELSE IF EVTTIM_LE(s, top_evttim(s), s.current_evttim)
        THEN target_hrt_raise_event(s)
        ELSE target_hrt_set_event(s, Min({count, HRTCNT_BOUND}))

(* Faulty variants: each lacks one of the two tests.                       *)
check_adjtim_any_advance(s, adjtim) ==
    /\ adjtim < 0
    /\ EVTTIM_MINUS(s.monotonic_evttim, s.current_evttim) >= TMAX_ADJTIM

check_adjtim_any_return(s, adjtim) ==
    /\ adjtim > 0
    /\ s.heap # <<>>
    /\ EVTTIM_LE(s, top_evttim(s), EVTTIM_MINUS(s.current_evttim, TMAX_ADJTIM))

check_adjtim(s, adjtim) ==
    \/ /\ adjtim > 0
       /\ s.heap # <<>>
       /\ EVTTIM_LE(s, top_evttim(s), EVTTIM_MINUS(s.current_evttim, TMAX_ADJTIM))
    \/ /\ adjtim < 0
       /\ EVTTIM_MINUS(s.monotonic_evttim, s.current_evttim) >= TMAX_ADJTIM

(* What tmevt_lefttim returns, once it has updated the current time.       *)
tmevt_lefttim(s, e) ==
    LET ub == calc_current_evttim_ub(s)
    IN  IF EVTTIM_LE(s, s.evttim[e], ub) THEN 0 ELSE EVTTIM_MINUS(s.evttim[e], ub)

systim(s) == (s.systim_offset + s.monotonic_evttim) % SYSTIM_MOD

-----------------------------------------------------------------------------

zero_state ==
    [heap             |-> <<>>,
     evttim           |-> [e \in EVT |-> 0],
     current_evttim   |-> 0,
     boundary_evttim  |-> EVTTIM_MINUS(0, BOUNDARY_MARGIN),
     current_hrtcnt   |-> 0,
     monotonic_evttim |-> 0,
     systim_offset    |-> 0,
     in_signal_time   |-> FALSE,
     hrt_event        |-> STOPPED]

initialize_tmevt == set_hrt_event(zero_state)

Init ==
    /\ tmevt_heap       = initialize_tmevt.heap
    /\ evttim           = initialize_tmevt.evttim
    /\ current_evttim   = initialize_tmevt.current_evttim
    /\ boundary_evttim  = initialize_tmevt.boundary_evttim
    /\ current_hrtcnt   = initialize_tmevt.current_hrtcnt
    /\ monotonic_evttim = initialize_tmevt.monotonic_evttim
    /\ systim_offset    = initialize_tmevt.systim_offset
    /\ in_signal_time   = initialize_tmevt.in_signal_time
    /\ hrt_event        = initialize_tmevt.hrt_event
    /\ hrtcnt           = 0
    /\ delay            = 0
    /\ left             = [e \in EVT |-> 0]

Registered(e) == e \in ToSet(tmevt_heap)

(* Faulty variant: sets the timer for the first of all time events only.   *)
tmevtb_enqueue_first_only(e, time) ==
    LET now      == update_current_evttim(Cur)
        inserted == tmevtb_insert(
                       [now EXCEPT !.evttim[e] =
                           EVTTIM_PLUS(calc_current_evttim_ub(now), time)], e)
    IN  /\ ~Registered(e)
        /\ Become(IF ~in_signal_time /\ tmevt_heap = <<>>
                  THEN set_hrt_event(inserted) ELSE inserted)
        /\ left' = [left EXCEPT ![e] = TSTEP_HRTCNT + time]
        /\ UNCHANGED delay

tmevtb_enqueue(e, time) ==
    LET now      == update_current_evttim(Cur)
        inserted == tmevtb_insert(
                       [now EXCEPT !.evttim[e] =
                           EVTTIM_PLUS(calc_current_evttim_ub(now), time)], e)
    IN  /\ ~Registered(e)
        /\ Become(IF ~in_signal_time /\ Head(inserted.heap) = e
                  THEN set_hrt_event(inserted) ELSE inserted)
        /\ left' = [left EXCEPT ![e] = TSTEP_HRTCNT + time]
        /\ UNCHANGED delay

tmevtb_dequeue(e) ==
    LET deleted == tmevtb_delete(Cur, e)
    IN  /\ Registered(e)
        /\ Become(IF ~in_signal_time /\ Head(tmevt_heap) = e
                  THEN set_hrt_event(update_current_evttim(deleted)) ELSE deleted)
        /\ left' = [left EXCEPT ![e] = 0]
        /\ UNCHANGED delay

adj_tim(adjtim) ==
    LET now      == update_current_evttim(Cur)
        current  == EVTTIM_PLUS(now.current_evttim, adjtim)
        adjusted == IF adjtim > 0 THEN advance_evttim(now, adjtim)
                    ELSE [now EXCEPT !.current_evttim  = current,
                                     !.boundary_evttim = EVTTIM_MINUS(current, BOUNDARY_MARGIN)]
    IN  /\ IF check_adjtim(now, adjtim)
           THEN Become(now) /\ UNCHANGED left
           ELSE /\ Become(set_hrt_event(adjusted))
                /\ left' = [e \in EVT |-> IF Registered(e) THEN left[e] - adjtim ELSE 0]
        /\ UNCHANGED delay

set_tim(time) ==
    LET now == update_current_evttim(Cur)
    IN  /\ Become([now EXCEPT !.systim_offset = (time - now.monotonic_evttim) % SYSTIM_MOD])
        /\ UNCHANGED <<delay, left>>

(* get_tim and tmevt_lefttim, as far as they change anything.              *)
get_tim == Become(update_current_evttim(Cur)) /\ UNCHANGED <<delay, left>>

-----------------------------------------------------------------------------
(* The timer interrupt.                                                    *)

Due(s) == s.heap # <<>> /\ EVTTIM_LE(s, top_evttim(s), s.current_evttim)

(* Faulty variant: a cyclic notification does not register itself again.   *)
call_back_once(s) ==
    Become(tmevtb_delete_top(s)) /\ left' = [left EXCEPT ![Head(s.heap)] = 0]

(* Takes out the first time event and calls its callback, which registers  *)
(* a cyclic notification again before it unlocks the CPU.                  *)
call_back(s) ==
    LET e == Head(s.heap)
        r == tmevtb_delete_top(s)
    IN  IF e \in DOMAIN CYCTIM
        THEN /\ Become(tmevtb_insert(
                          [r EXCEPT !.evttim[e] = EVTTIM_PLUS(@, CYCTIM[e])], e))
             /\ left' = [left EXCEPT ![e] = @ + CYCTIM[e]]
        ELSE /\ Become(r)
             /\ left' = [left EXCEPT ![e] = 0]

(* Faulty variant: does not set the timer again.                           *)
next_turn_leaves_timer(s) ==
    LET now == update_current_evttim(s)
    IN  \/ Due(now) /\ call_back(now) /\ UNCHANGED delay
        \/ /\ ~Due(now)
           /\ Become([now EXCEPT !.in_signal_time = FALSE])
           /\ delay' = 0
           /\ UNCHANGED left

(* The turn of the outer loop that begins: the next callback, or the end   *)
(* of signal_time.                                                         *)
next_turn(s) ==
    LET now == update_current_evttim(s)
    IN  \/ Due(now) /\ call_back(now) /\ UNCHANGED delay
        \/ /\ ~Due(now)
           /\ Become([set_hrt_event(now) EXCEPT !.in_signal_time = FALSE])
           /\ delay' = 0
           /\ UNCHANGED left

(* The interrupt handler clears the interrupt before it calls signal_time. *)
signal_time ==
    /\ ~in_signal_time
    /\ hrt_event = 0
    /\ next_turn([Cur EXCEPT !.in_signal_time = TRUE, !.hrt_event = STOPPED])

(* A callback returns.  While it ran with the CPU unlocked, time has       *)
(* passed and interrupt handlers have called anything.                     *)
signal_time_continues ==
    /\ in_signal_time
    /\ IF Due(Cur) THEN call_back(Cur) /\ UNCHANGED delay ELSE next_turn(Cur)

(* Time passes.  The interrupt is handled within LATENCY.                  *)
tick ==
    LET handling == hrt_event = 0 \/ in_signal_time
    IN  /\ handling => delay < LATENCY
        /\ delay' = IF handling THEN delay + 1 ELSE delay
        /\ hrtcnt' = (hrtcnt + 1) % TCYC_HRTCNT
        /\ hrt_event' = IF hrt_event > 0 THEN hrt_event - 1 ELSE hrt_event
        /\ left' = [e \in EVT |-> IF Registered(e) THEN left[e] - 1 ELSE 0]
        /\ UNCHANGED <<tmevt_heap, evttim, current_evttim, boundary_evttim,
                       current_hrtcnt, monotonic_evttim, systim_offset, in_signal_time>>

Next ==
    \/ \E e \in EVT, time \in RELTIM : tmevtb_enqueue(e, time)
    \/ \E e \in EVT : tmevtb_dequeue(e)
    \/ \E adjtim \in ADJTIM : adj_tim(adjtim)
    \/ \E time \in SYSTIM : set_tim(time)
    \/ get_tim
    \/ signal_time
    \/ signal_time_continues
    \/ tick

Spec == Init /\ [][Next]_vars

=============================================================================
