\* Two sessions with a ring of one notice.
CONSTANTS
    c1 = c1
    c2 = c2
    Client <- MCClient
    serverLogCap = 1
    Bounds <- MCBounds
SPECIFICATION FairSpec
INVARIANTS NoGap 
PROPERTIES StopEndsSessions
\* A stopped gateway takes no step.
CHECK_DEADLOCK FALSE
