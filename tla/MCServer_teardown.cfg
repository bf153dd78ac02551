SPECIFICATION ServerFairSpec
CONSTANTS
    Conns = {k1, k2}
    Cmds = {}
    Events = {}
    Waiters = {}
    Kinds = {"ready", "event"}
CHECK_DEADLOCK FALSE
PROPERTY StrandedIsClosed
PROPERTY LostLinkIsClosed
