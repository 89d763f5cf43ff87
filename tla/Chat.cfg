\* Two posters, an inbox of one message, and a ring that holds what fits.
CONSTANTS
    p1 = p1
    p2 = p2
    Poster <- MCPoster
    Loop = p1
    InboxCap = 1
    replyRefCap = 3
    Bounds <- MCBounds
SPECIFICATION ChatFairSpec
INVARIANTS QuestionComesFirst
PROPERTIES ShutdownEnds
\* A stopped agent takes no step.
CHECK_DEADLOCK FALSE
