SPECIFICATION FairSpec
CONSTANTS
    t1 = t1
    t2 = t2
    TSK = {t1, t2}
    CHAR = {"LF"}
    SENDSZ = 2
    RECVSZ = 3
    FIFOSZ = 1
    WRITE <- Writes
    READ <- Reads
    BROKENOFF = {t2}
    IOCONTROL <- AnyResumes
    PEERSENDS = {"a", "STOP"}
CHECK_DEADLOCK FALSE
INVARIANTS
    TokensOK
PROPERTIES
    SendOrder
    WriterGoesOn
