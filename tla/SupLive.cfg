\* Liveness of Suspend, of Resume, of a verdict and of a shutdown, the watchdog's end included.
CONSTANTS
    n1 = n1
    Nick = {n1}
    ConfiguredNick = n1
    s1 = s1
    Conn = {s1}
    ServerLines = {"465", "432"}
    LineCap = 1
    UseSASL = FALSE
    WatchdogOn = TRUE
    NoNick = NoNick
    NoConn = {s1}
SPECIFICATION FairSpec
PROPERTIES  ResumeReconnects  
\* A panicked process takes no step.
CHECK_DEADLOCK FALSE
