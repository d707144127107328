SPECIFICATION Spec
CONSTANTS
    t1 = t1
    t2 = t2
    TSK = {t1, t2}
    CHAR = {"LF"}
    SENDSZ = 2
    RECVSZ = 3
    FIFOSZ = 1
    WRITE <- Writes
    READ <- Reads
    BROKENOFF = {}
    IOCONTROL = {}
    PEERSENDS = {"a", "STOP", "START"}
CHECK_DEADLOCK FALSE
INVARIANTS
    SendingGoesOn
