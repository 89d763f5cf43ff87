\* Two plain clients with two lines; an erratic client alone with two lines, or
\* with two outages and a Suspend.
CONSTANTS
    c1 = c1
    c2 = c2
    Client <- MCClient
    EchoClient <- MCEchoClient
    Bounds <- MCBounds
    Upstream = upstream
    Control = control
SPECIFICATION FairSpec
INVARIANTS NothingMissed OutageIsAnnounced
PROPERTIES DeadIsReaped
\* A stopped bouncer takes no step.
CHECK_DEADLOCK FALSE
