SPECIFICATION ServerSpec
CONSTANTS
    Conns = {k1, k2}
    Cmds = {c1}
    Events = {}
    Waiters = {}
    Kinds = {"hello", "ack"}
SYMMETRY Symmetry
CHECK_DEADLOCK FALSE
INVARIANT ServerTypeOK
INVARIANT HeldByOneReader
INVARIANT NoGhostClients
PROPERTY ImplementsHub
