SPECIFICATION HubFairSpec
CONSTANTS
    Conns = {k1, k2}
    Cmds = {c1}
    Events = {e1}
    Waiters = {}
INVARIANT HubTypeOK
INVARIANT StatusMatchesRegistry
INVARIANT SenderAccounted
INVARIANT SameOrderEverywhere
INVARIANT RefusedNeverSent
PROPERTY EmitOkReachedAWriter
PROPERTY CallsSettle
