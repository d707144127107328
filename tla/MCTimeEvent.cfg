SPECIFICATION Spec
CONSTANTS
    e1 = e1
    e2 = e2
    e3 = e3
    e4 = e4
    e5 = e5
    e6 = e6
    EVT = {e1, e2}
    CYCTIM <- Cyclic
    EVTTIM_MOD = 8
    SYSTIM_MOD = 16
    TCYC_HRTCNT = 4
    HRTCNT_BOUND = 2
    TSTEP_HRTCNT = 1
    BOUNDARY_MARGIN = 3
    TMAX_ADJTIM = 1
    RELTIM = {0, 2}
    ADJTIM <- AdjustByOne
    SYSTIM = {}
    LATENCY = 1
INVARIANTS
    TypeOK
    InWindow
    TimerInTime
    TimerCoversTop
    LefttimExact
    SystimNearEvttim
PROPERTIES
    CallsInOrder
    SystimMonotonic
