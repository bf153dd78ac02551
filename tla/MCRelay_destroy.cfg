SPECIFICATION RelaySpec
CHECK_DEADLOCK FALSE
CONSTANTS
    Cmds = {c1}
    Sockets = {s1, s2}
INVARIANT DestroyIsFinal
