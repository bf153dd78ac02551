SPECIFICATION HubFairSpec
CONSTANTS
    Conns = {k1}
    Cmds = {}
    Events = {}
    Waiters = {w1}
PROPERTY WaitConnectedReturns
