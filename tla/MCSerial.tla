------------------------------ MODULE MCSerial ------------------------------
(***************************************************************************)
(* The serial port with one task that writes lines and one that reads.     *)
(***************************************************************************)
EXTENDS SerialProperties, TLC

CONSTANTS t1, t2

Writes == t1 :> {2} @@ t2 :> {}
Reads  == t1 :> {} @@ t2 :> {1}

(* Besides the setting of open: no echo, and any character resumes.        *)
AnyResumes == {{"CRLF", "FCSND", "FCANY", "FCRCV"}}
=============================================================================
