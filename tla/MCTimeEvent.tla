---------------------------- MODULE MCTimeEvent ----------------------------
(***************************************************************************)
(* TimeEvent on words of a few values.                                     *)
(***************************************************************************)
EXTENDS TimeEventProperties, TLC

CONSTANTS e1, e2, e3, e4, e5, e6

NoCyclic == <<>>
Cyclic   == e1 :> 2

AnyOrder == Permutations(EVT)

(* The heap alone, with no time passing.                                   *)
HeapNext ==
    \/ \E e \in EVT, time \in RELTIM : tmevtb_enqueue(e, time)
    \/ \E e \in EVT : tmevtb_dequeue(e)
    \/ \E time \in SYSTIM : set_tim(time)

HeapSpec == Init /\ [][HeapNext]_vars

AdjustByOne == {-1, 1}

=============================================================================
