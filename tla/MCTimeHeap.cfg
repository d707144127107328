SPECIFICATION HeapSpec
SYMMETRY AnyOrder
CONSTANTS
    e1 = e1
    e2 = e2
    e3 = e3
    e4 = e4
    e5 = e5
    e6 = e6
    EVT = {e1, e2, e3, e4, e5, e6}
    CYCTIM <- NoCyclic
    EVTTIM_MOD = 8
    SYSTIM_MOD = 16
    TCYC_HRTCNT = 8
    HRTCNT_BOUND = 5
    TSTEP_HRTCNT = 1
    BOUNDARY_MARGIN = 2
    TMAX_ADJTIM = 0
    RELTIM = {0, 1, 2}
    ADJTIM = {}
    SYSTIM = {0, 3}
    LATENCY = 1
INVARIANTS
    HeapOK
PROPERTIES
    HeapKeepsOthers
