\* Hot reload of every kind of facet, without panics.
CONSTANTS
    N = 1
    Value = {0, 1}
    First = 0
    Edited = {"core", "link", "ignored", "skills", "flows"}
    Panics = FALSE
SPECIFICATION Spec
INVARIANT LiveIsCurrent
\* A stopped tenant takes no step.
CHECK_DEADLOCK FALSE
