------------------------------ MODULE EventFlag ------------------------------
(***************************************************************************)
(* Event flag calls: kernel/eventflag.c.  (ref_flg only reads.)            *)
(***************************************************************************)
EXTENDS KernelState

(* A nonempty pattern to wait for.                                         *)
WAIPTN == SUBSET FLGBIT \ {{}}

(* check_flg_cond: whether pattern flgptn ends a wait for waiptn, ...      *)
flg_cond(flgptn, waiptn, wfmode) ==
    IF wfmode = "TWF_ORW" THEN flgptn \cap waiptn # {} ELSE waiptn \subseteq flgptn

(* ... and what it does to the flag if so.                                 *)
clear_if_clr(s, w) ==
    IF "TA_CLR" \in s.wobj[w].wobjatr THEN [s EXCEPT !.flg[w].flgptn = {}] ELSE s

(* Returns with the CPU locked, whether a control block was left or not.   *)
acre_flg(flgatr, iflgptn) ==
    LET w == Head(free_cb["FLG"])
    IN  /\ TskCtxUnl("acre_flg")
        /\ Become(IF free_cb["FLG"] = <<>> THEN Cur
                  ELSE [create_wobj("FLG", flgatr) EXCEPT
                          !.flg[w] = [flgptn |-> iflgptn, iflgptn |-> iflgptn]])
        /\ lock_flag' = TRUE
        /\ UNCHANGED excpt

del_flg(w) ==
    /\ CanDelete("del_flg", "FLG", w)
    /\ Become(dispatch(delete_wobj("FLG", w)))
    /\ UnchangedContext

(* Task t stops waiting for the flag; its waiptn becomes the pattern that  *)
(* ended its wait.                                                         *)
flg_release(s, w, t) ==
    LET met == [s EXCEPT !.tcb[t].wobjdata.waiptn = s.flg[w].flgptn,
                         !.wobj[w].wait_queue     = queue_delete(@, t)]
    IN  wait_complete(clear_if_clr(met, w), t)

flg_met(s, w, t) ==
    flg_cond(s.flg[w].flgptn, s.tcb[t].wobjdata.waiptn, s.tcb[t].wobjdata.wfmode)

(* Faulty variants: looks only at the first task of the queue; tells every *)
(* task the pattern as it was when the call began.                         *)
set_flg_loop_first(s, w) ==
    LET q == s.wobj[w].wait_queue
    IN  IF q # <<>> /\ flg_met(s, w, Head(q)) THEN flg_release(s, w, Head(q)) ELSE s

set_flg_loop_no_clear(s, w) ==
    LET q == s.wobj[w].wait_queue
        after[n \in 0 .. Len(q)] ==
            IF n = 0 THEN s
            ELSE IF flg_met(s, w, q[n])
            THEN wait_complete([after[n - 1] EXCEPT
                     !.tcb[q[n]].wobjdata.waiptn = s.flg[w].flgptn,
                     !.wobj[w].wait_queue = queue_delete(@, q[n])], q[n])
            ELSE after[n - 1]
    IN  after[Len(q)]

(* The loop of set_flg over the tasks that wait for the flag; with TA_CLR  *)
(* it ends at the first that is released, whose wait has cleared the flag. *)
set_flg_loop(s, w) ==
    LET q       == s.wobj[w].wait_queue
        clr     == "TA_CLR" \in s.wobj[w].wobjatr
        ended(r) == clr /\ Len(r.wobj[w].wait_queue) < Len(q)
        after[n \in 0 .. Len(q)] ==
            IF n = 0 THEN s
            ELSE IF ~ended(after[n - 1]) /\ flg_met(after[n - 1], w, q[n])
            THEN flg_release(after[n - 1], w, q[n])
            ELSE after[n - 1]
    IN  after[Len(q)]

set_flg(w, setptn) ==
    /\ Unl("set_flg")
    /\ ObjectExists(w)
    /\ Become(dispatch_or_request(
                set_flg_loop([Cur EXCEPT !.flg[w].flgptn = @ \cup setptn], w)))
    /\ UnchangedContext

clr_flg(w, clrptn) ==
    /\ TskCtxUnl("clr_flg")
    /\ ObjectExists(w)
    /\ Become([Cur EXCEPT !.flg[w].flgptn = @ \cap clrptn])
    /\ UnchangedContext

(* Without TA_WMUL only one task may wait for the flag.                    *)
MayUse(w) == "TA_WMUL" \in wobj[w].wobjatr \/ wobj[w].wait_queue = <<>>

Met(w, waiptn, wfmode) ==
    /\ flg_cond(flg[w].flgptn, waiptn, wfmode)
    /\ Become([clear_if_clr(Cur, w) EXCEPT
                 !.out = [from |-> w,
                          what |-> [waiptn |-> flg[w].flgptn, wfmode |-> wfmode]]])

wai_flg(w, waiptn, wfmode) ==
    LET t == p_runtsk
    IN  /\ MayWait("wai_flg", w)
        /\ MayUse(w)
        /\ \/ Met(w, waiptn, wfmode)
           \/ /\ ~flg_cond(flg[w].flgptn, waiptn, wfmode)
              /\ Become(dispatch(wobj_make_wait(
                    [Cur EXCEPT !.tcb[t].wobjdata =
                        [waiptn |-> waiptn, wfmode |-> wfmode]], TS_WAITING_FLG, w)))
        /\ UnchangedContext

pol_flg(w, waiptn, wfmode) ==
    /\ TskCtxUnl("pol_flg")
    /\ ObjectExists(w)
    /\ MayUse(w)
    /\ Met(w, waiptn, wfmode)
    /\ UnchangedContext

twai_flg(w, waiptn, wfmode) ==
    LET t == p_runtsk
    IN  /\ MayWait("twai_flg", w)
        /\ MayUse(w)
        /\ \/ Met(w, waiptn, wfmode)
           \/ /\ ~flg_cond(flg[w].flgptn, waiptn, wfmode)
              /\ Become(dispatch(wobj_make_wait_tmout(
                    [Cur EXCEPT !.tcb[t].wobjdata =
                        [waiptn |-> waiptn, wfmode |-> wfmode]],
                    TS_WAITING_FLG, w, "finite")))
        /\ UnchangedContext

ini_flg(w) ==
    LET drained == init_wait_queue(Cur, w, "wait_queue")
    IN  /\ TskCtxUnl("ini_flg")
        /\ ObjectExists(w)
        /\ Become(dispatch([drained EXCEPT !.flg[w].flgptn = flg[w].iflgptn]))
        /\ UnchangedContext

=============================================================================
