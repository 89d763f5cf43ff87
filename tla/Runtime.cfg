SPECIFICATION RuntimeSpec
CONSTANTS
    drain = drain
    dispatch = dispatch
    Sched = sched
    Thread = {drain, dispatch, sched}
    Who = {u, v}
    a = a
    b = b
    c = c
    Node = {a, b, c}
    MaxUse <- MCMaxUse
    Cap <- MCCap
    maxSteps = 4
    maxWebhookRetries = 1
    duration = 1
    Bounds <- MCBounds
    m1 = m1
    m2 = m2
    m3 = m3
    Msg = {m1, m2, m3}
    storeDedupeWindow = 2
    maxSeen = 1
    perChannelCap = 2
    pageLimit = 1
    Books <- MCBooks
    Value = {1, 2}
    Booted = 1
    Own = 0
    NoValue = 3
    Rigs <- MCRigs
CHECK_DEADLOCK FALSE
INVARIANTS OvershootIsBounded StoredOnce PagesMissNothing
PROPERTIES LiftComes RefreshIsApplied 
