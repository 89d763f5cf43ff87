\* A sink with two submitters, closed by a tenant or left by a runtime.
CONSTANTS
    Submitters = {"gateway", "bouncer"}
    MaxEntries = 4
    BufferCap = 2
    FlushBatchSize = 2
    Owners = {"tenant", "runtime"}
SPECIFICATION FairSpec
PROPERTIES IsOutbox EveryEntryLeaves
\* A closed sink takes no step once the messages are submitted.
CHECK_DEADLOCK FALSE
