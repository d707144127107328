------------------------------ MODULE MCNotify ------------------------------
(***************************************************************************)
(* A cyclic notification that runs from the start, and a cyclic and an     *)
(* alarm notification that are created and deleted.                        *)
(***************************************************************************)
EXTENDS NotificationProperties, TLC

CONSTANTS c1, c2, a1

Periods  == c1 :> 2 @@ c2 :> 2
Started  == c1 :> 1
Cyclics  == <<c2>>
Alarms   == <<a1>>
=============================================================================
