SPECIFICATION FairServerSpec
CONSTANTS
    Conn <- MCConn
    Addr <- MCAddr
    c1 = c1
    c2 = c2
    a = a
    b = b
    d = d
    Setups <- MCSetups
    MaxSessions = 1
    MaxTime = 3
    MAX_FAILURES = 2
    WINDOW = 1
    LOCKOUT = 2
    MAX_TRACKED = 2
    Account = Account
    Stranger = Stranger
    Domain = Domain
    NoName = NoName
    ExpectedDomain = Domain
INVARIANTS
    ServerSafe
    SteadyIsAuthorised
    FailuresBounded
PROPERTIES
    LockoutsExact
    AcceptLoopReturns
