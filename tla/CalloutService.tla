--------------------------- MODULE CalloutService ---------------------------
(***************************************************************************)
(* What callouts promise.  A function registered for n ticks is called     *)
(* once, after n ticks, unless it is cancelled first.  Cancelling removes  *)
(* a callout whose time is not up; one whose time is up may be called      *)
(* although it is being cancelled.  There are places for a limited number  *)
(* of callouts, and a registration that finds none is ignored.             *)
(***************************************************************************)
EXTENDS Integers

CONSTANTS
    Client,
    Function,
    Ticks,
    Place,
    Nothing   \* no callout, no function

VARIABLES
    entry,       \* what is registered at each place
    calling,     \* the function being called
    cancelling   \* the places whose callout each client is to cancel

vars == <<entry, calling, cancelling>>

Empty == [func |-> Nothing, left |-> 0]

Pending(p) == entry[p].func # Nothing /\ entry[p].left > 0

Init ==
    /\ entry = [p \in Place |-> Empty]
    /\ calling = Nothing
    /\ cancelling = [c \in Client |-> {}]

(* A client that is cancelling the function may come upon the new callout. *)
Register(p, f, n) ==
    /\ entry[p] = Empty
    /\ entry' = [entry EXCEPT ![p] = [func |-> f, left |-> n]]
    /\ cancelling' \in [Client -> SUBSET Place]
    /\ \A c \in Client : cancelling'[c] \in {cancelling[c], cancelling[c] \cup {p}}
    /\ UNCHANGED calling

(* All callouts of the function that are pending now are to be found.      *)
StartCancel(c, f) ==
    /\ cancelling[c] = {}
    /\ cancelling' = [cancelling EXCEPT
                         ![c] = {p \in Place : Pending(p) /\ entry[p].func = f}]
    /\ UNCHANGED <<entry, calling>>

(* One of them is enough.                                                  *)
Find(c, p) ==
    /\ p \in cancelling[c]
    /\ cancelling' = [cancelling EXCEPT ![c] = {p}]
    /\ UNCHANGED <<entry, calling>>

Forget(p) == [c \in Client |-> cancelling[c] \ {p}]

Cancel(c, p) ==
    /\ cancelling[c] = {p}
    /\ entry' = [entry EXCEPT ![p] = Empty]
    /\ cancelling' = Forget(p)
    /\ UNCHANGED calling

(* Time passes.  A client may miss a callout whose time is up now.         *)
Tick ==
    /\ entry' = [p \in Place |-> IF Pending(p) THEN [entry[p] EXCEPT !.left = @ - 1]
                                 ELSE entry[p]]
    /\ cancelling' \in [Client -> SUBSET Place]
    /\ \A c \in Client :
          /\ cancelling'[c] \subseteq cancelling[c]
          /\ \A p \in cancelling[c] \ cancelling'[c] : entry'[p].left = 0
    /\ UNCHANGED calling

Call(p) ==
    /\ calling = Nothing
    /\ entry[p].func # Nothing /\ entry[p].left = 0
    /\ calling' = entry[p].func
    /\ entry' = [entry EXCEPT ![p] = Empty]
    /\ cancelling' = Forget(p)

Return ==
    /\ calling # Nothing
    /\ calling' = Nothing
    /\ UNCHANGED <<entry, cancelling>>

Next ==
    \/ \E p \in Place, f \in Function, n \in Ticks : Register(p, f, n)
    \/ \E c \in Client, f \in Function : StartCancel(c, f)
    \/ \E c \in Client, p \in Place : Find(c, p) \/ Cancel(c, p)
    \/ \E p \in Place : Call(p)
    \/ Tick \/ Return

Spec == Init /\ [][Next]_vars

(* Every callout is called or cancelled, and every cancelling ends.        *)
Live ==
    /\ \A p \in Place : entry[p] # Empty ~> entry[p] = Empty
    /\ \A c \in Client : cancelling[c] # {} ~> cancelling[c] = {}

=============================================================================
