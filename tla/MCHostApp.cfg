SPECIFICATION AppFairSpec
CONSTANTS
    Conns = {"g1"}
    Gauges = {"g1"}
    Cmds = {"early", "query", "toggle", "slow", "unknown"}
    Events = {"updated"}
    Waiters = {"connected"}
    MaxQueued = 1
CHECK_DEADLOCK FALSE
INVARIANT AppTypeOK
INVARIANT OwnAnswers
PROPERTY ParkedWaiterIsWoken
PROPERTY ScriptFinishes
PROPERTY GaugeExits
