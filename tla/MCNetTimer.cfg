SPECIFICATION FairSpec
CONSTANTS
    t1 = t1
    t2 = t2
    f1 = f1
    NULL = NULL
    if_slowtimo = if_slowtimo
    NET_TIMER_TASK = NET_TIMER_TASK
    TSK = {t1, t2}
    CALLOUT = {f1}
    TIMEOUT = {1, 2}
    IF_TIMER_TMO = 1
    NUM_NET_CALLOUT = 2
PROPERTIES
    ImplementsCalloutService
    EveryCalloutEnds
