SPECIFICATION Spec
CONSTANTS
    Writes <- MCWrites
    kMaxPendingWrites = 5
    MaxFaults = 3
INVARIANTS
    TypeOK
    PipelineIsTheFront
    StreamCarriesThePipeline
    NothingIsForgotten
    IdleIsUnneeded
    ClosuresAreKept
PROPERTIES
    OpensFromStarting
    ImplementsQueue
    QueueDrains
CHECK_DEADLOCK FALSE
