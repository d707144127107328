------------------------- MODULE NetTimerProperties -------------------------
(***************************************************************************)
(* What the callouts of TINET promise.                                     *)
(***************************************************************************)
EXTENDS NetTimer

(* A task is writing entry i.                                              *)
BeingSet(i) == \E t \in Thread : thread[t].pc = "store" /\ thread[t].ix = i

Registered(i) == ~Free(i) /\ ~BeingSet(i)

(* The entries t may still clear: those it has not come to yet, and the    *)
(* one it has found.                                                       *)
ToClear(t) ==
    CASE thread[t].pc = "clear" -> {thread[t].ix}
      [] thread[t].pc \in {"untimeout", "compare"} ->
            {i \in 0 .. thread[t].ix : /\ Registered(i) /\ Ticking(i)
                                       /\ callout[i].func = thread[t].func}
      [] OTHER -> {}

(* The callouts, the function being called, and what each task cancels.    *)
entry ==
    [i \in Index |->
        IF Registered(i) THEN [func |-> callout[i].func, left |-> callout[i].timeout]
        ELSE [func |-> NULL, left |-> 0]]

calling ==
    IF thread[NET_TIMER_TASK].pc = "call" THEN thread[NET_TIMER_TASK].func ELSE NULL

cancelling == [t \in TSK |-> ToClear(t)]

Service == INSTANCE CalloutService WITH
              Client   <- TSK,
              Function <- CALLOUT \cup {if_slowtimo},
              Ticks    <- TIMEOUT \cup {IF_TIMER_TMO},
              Place    <- Index,
              Nothing  <- NULL

(* The callouts implement the service, although the handler sees entries   *)
(* half written, entries are tested and cleared in two steps, and the      *)
(* semaphores let others in between: no function is called early, twice,   *)
(* or after it has been cancelled in time (net_timer.c).                   *)
ImplementsCalloutService == Service!Spec

(* None is forgotten, although signals of the handler are refused when its *)
(* semaphore is full (net_timer.c: net_timer_handler, net_timer_task).     *)
EveryCalloutEnds == Service!Live

=============================================================================
