\* Safety: the user's buttons, the watchdog, the operator, a hostile server.
CONSTANTS
    n1 = n1
    Nick = {n1}
    ConfiguredNick = n1
    s1 = s1
    s2 = s2
    Conn = {s1, s2}
    ServerLines = {"433", "432", "465", "904", "closing", "kline", "ctcp"}
    LineCap = 1
    UseSASL = TRUE
    WatchdogOn = TRUE
    NoNick = NoNick
    NoConn = NoConn
SPECIFICATION Spec
SYMMETRY SocketSymmetry
INVARIANTS AtMostOneStrayAttempt SettledBetweenAttempts SessionOwnsLink
\* A panicked process takes no step.
CHECK_DEADLOCK FALSE
