\* Restarts, panics and quarantine; the liveness of edits and of stop.
CONSTANTS
    N = 1
    Value = {0, 1}
    First = 0
    Edited = {"prefix", "core", "link"}
    Panics = TRUE
SPECIFICATION FairSpec
INVARIANT CoreIsCurrent
PROPERTIES EditIsRun
\* A stopped tenant takes no step.
CHECK_DEADLOCK FALSE
