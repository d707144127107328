SPECIFICATION FairSpec
CONSTANTS
    c1 = c1
    c2 = c2
    a1 = a1
    EVT = {c1, c2, a1}
    CYCTIM <- Periods
    EVTTIM_MOD = 5
    SYSTIM_MOD = 5
    TCYC_HRTCNT = 5
    HRTCNT_BOUND = 3
    TSTEP_HRTCNT = 1
    BOUNDARY_MARGIN = 2
    TMAX_ADJTIM = 0
    RELTIM = {0, 1}
    ADJTIM = {}
    SYSTIM = {}
    LATENCY = 1
    STARTED <- Started
    dynamic_cyc <- Cyclics
    dynamic_alm <- Alarms
INVARIANTS
    NotificationsOK
PROPERTIES
    AlarmGoesOff
    CyclicGoesOn
