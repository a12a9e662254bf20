\* One device or card job, one Redis error, a stop at any moment.
SPECIFICATION LiveSpec
CONSTANTS
    Window = 4
    Grace = 1
    PollInterval = 1
    Latency = 2
    MaxErrors = 1
INVARIANTS
    TypeOK
    ConfirmedInTimeCounts
    RunningStrandsNothing
PROPERTIES
    PromptWithdrawn
    StopReturns
CHECK_DEADLOCK FALSE
