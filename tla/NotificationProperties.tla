----------------------- MODULE NotificationProperties -----------------------
(***************************************************************************)
(* What makes cyclic and alarm notifications correct.                      *)
(***************************************************************************)
EXTENDS Notification

Running == {c \in CYC : cyc[c].cycsta} \cup {a \in ALM : alm[a].almsta}

Existing == {c \in CYC : cyc[c].cycatr # NOEXS} \cup {a \in ALM : alm[a].almatr # NOEXS}

(* A notification runs exactly while its time event is registered, and only*)
(* while it exists; the other control blocks that can be created are in the*)
(* free lists, once each.  A free list is chained through the memory of the*)
(* time events, so a registered one must not be in it (cyclic.c and        *)
(* alarm.c: free_cyccb, free_almcb).                                       *)
NotificationsOK ==
    /\ Running = ToSet(tmevt_heap)
    /\ Running \subseteq Existing
    /\ IsInjective(free_cyccb \o free_almcb)
    /\ ToSet(free_cyccb \o free_almcb) = EVT \ Existing

-----------------------------------------------------------------------------
(* Time goes on.  It cannot pass by a pending timer interrupt, or a handler*)
(* that runs, for longer than LATENCY (see tick), so the interrupt is taken*)
(* and handlers return.                                                    *)

FairSpec == NotificationSpec /\ []<><<hrtcnt' # hrtcnt>>_<<vars, nvars>>

(* The time to its event is set anew, not by its own callback.             *)
StartedAnew(e) == left'[e] > left[e] /\ e \notin called'

(* A started alarm goes off or is stopped, unless it is started again and  *)
(* again (alarm.c: sta_alm, call_alarm).                                   *)
AlarmGoesOff ==
    \A a \in ALM :
       <>[][~StartedAnew(a)]_<<vars, nvars>> => (alm[a].almsta ~> ~alm[a].almsta)

(* A cyclic notification that runs and is not started again is called again*)
(* and again, whatever else is started, stopped and deleted (cyclic.c:     *)
(* call_cyclic).                                                           *)
CyclicGoesOn ==
    \A c \in CYC :
       <>[]cyc[c].cycsta /\ <>[][~StartedAnew(c)]_<<vars, nvars>>
          => []<>(c \in called)

=============================================================================
