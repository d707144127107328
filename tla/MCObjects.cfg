SPECIFICATION Spec
CONSTANTS
    t1 = t1
    t2 = t2
    t3 = t3
    s1 = s1
    f1 = f1
    q1 = q1
    pq1 = pq1
    mp1 = mp1
    NULL = NULL
    TSK = {t1, t2, t3}
    WOBJ = {s1, f1, q1, pq1, mp1}
    MTX = {}
    SEM = {s1}
    FLG = {f1}
    DTQ = {q1}
    PDQ = {pq1}
    MPF = {mp1}
    FLGBIT = {1, 2}
    DATA = {1, 2}
    MAXDPRI = 2
    TNUM_TPRI = 2
    CONFIG <- ObjectApps
INVARIANTS
    ObjectsOK
    ObjectFreeListsOK
PROPERTIES
    ServedInOrder
    FlagReleasesMet
    PriorityOrder
    BlockGivenOnce
    ImplementsDataChannel
