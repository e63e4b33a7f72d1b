CONSTANTS
    Period = 3
    Slice = 2
    PostMax = 2
    Silence = 2
    Timeouts = {0, 2}
    Backlog = 2
    Old = 10
SPECIFICATION FairSpec
INVARIANTS
    TypeOK
    SessionKeptAlive
    WaitOverrunBounded
PROPERTIES
    TimeoutIsTheCallers
    TimedWaitReturns
    EndOfStreamEndsWait
