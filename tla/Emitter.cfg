\* An emitter with a control plane that answers, and with one that fails.
CONSTANTS
    MaxChanges = 2
    MaxAttempts = 3
    Debounced = TRUE
SPECIFICATION FairSpec
PROPERTIES BecomesCurrent
\* A stopped emitter takes no step.
CHECK_DEADLOCK FALSE
