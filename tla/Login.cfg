\* Two users with an account each, times that pass the sign bit of the expiry
\* and its width.
CONSTANTS
    Users = {"alice", "bob"}
    Accounts = {"a", "b"}
    Owner <- MCOwner
    CookieNames = {"x"}
    MAX_DEPTH = 2
    Lifetimes = {2}
    Ints = 8
    MaxLogins = 2
    Horizon = 6
SPECIFICATION FairSpec
INVARIANT TypeOK
INVARIANT ConnectedTogether
INVARIANT ConnectedAsAsked
INVARIANT LiveTokenUsed
PROPERTY ConnectEnds
PROPERTY ImplementsSession
