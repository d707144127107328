SPECIFICATION FairSpec
CONSTANTS
    t1 = t1
    t2 = t2
    t3 = t3
    m1 = m1
    m2 = m2
    NULL = NULL
    TSK = {t1, t2, t3}
    WOBJ = {m1, m2}
    MTX = {m1, m2}
    SEM = {}
    FLG = {}
    DTQ = {}
    PDQ = {}
    MPF = {}
    FLGBIT = {}
    DATA = {}
    MAXDPRI = 1
    TNUM_TPRI = 2
    CONFIG <- TimedApp
PROPERTIES
    TimedWaitEnds
