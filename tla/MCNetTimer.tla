----------------------------- MODULE MCNetTimer -----------------------------
(***************************************************************************)
(* NetTimer with two tasks, one function beside if_slowtimo and two        *)
(* entries.                                                                *)
(***************************************************************************)
EXTENDS NetTimerProperties

CONSTANTS t1, t2, f1
=============================================================================
