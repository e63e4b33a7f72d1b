CONSTANT MaxCalls = 3
SPECIFICATION FairSpec
INVARIANTS
    TypeOK
    HandledOnce
    ReturnedMeansDone
PROPERTY
    OrderFollowsSimulation
    ImplementsCalls
