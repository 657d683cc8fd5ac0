SPECIFICATION Spec
CONSTANTS
    Label = {"a", "b"}
    Configured = {"a", "b"}
    DependsOn <- MCDependsOn
    StartHeight <- MCStartHeight
    Caller = {"net"}
    Unreadable = {2}
    RollbackTo = {0}
    QueueLen = 1
    MaxHeight = 2
    MaxReorgs = 1
    MaxCrashes = 1
    MaxLost = 0
    MaxFailures = 1
    MaxAdmin = 2
    MaxRepeats = 1
INVARIANT IndexedInOrder
PROPERTIES SyncInStep CatchesUp
CHECK_DEADLOCK FALSE
