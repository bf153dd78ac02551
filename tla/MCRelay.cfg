SPECIFICATION RelaySpec
CONSTANTS
    Cmds = {c1}
    Sockets = {s1, s2, s3}
SYMMETRY Symmetry
CHECK_DEADLOCK FALSE
INVARIANT RelayTypeOK
INVARIANT RequestAccounted
INVARIANT RetryPending
INVARIANT OneListener
INVARIANT HostKnowsReadiness
INVARIANT DestroyedIsInert
PROPERTY ImplementsExchange
