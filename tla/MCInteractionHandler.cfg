SPECIFICATION FairSpec
CONSTANTS
    Inputs <- MCInputs
    Slack = 1
    WaitMs = 1
    MinDurationMs = 1
    MaxDurationMs = 3
INVARIANTS
    LockMatchesState
    NoStaleAbort
    TimeoutIsFresh
PROPERTIES
    HintKeptForDuration
    ExitTerminates
    HintReleased
