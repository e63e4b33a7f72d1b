CONSTANTS
    q1 = q1
    q2 = q2
    Quotes = {q1, q2}
    Pushed = {"heartbeat", "p", "unknown", "malformed"}
    MaxConnects = 3
    Cap = 3
SPECIFICATION FairSpec
INVARIANTS
    TypeOK
    NoLostSubscription
    NoGhostSubscription
    HandshakeInOrder
PROPERTIES
    DeathIsReported
    ReconnectNamesReplaced
    Converges
    ImplementsSubscriptions
