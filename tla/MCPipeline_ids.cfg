SPECIFICATION PipelineSpec
CONSTANTS
    Relays = {r1, r2}
    Routes = {"query"}
    Fallback = FALSE
    Cmds = {"query", "unnamed"}
    Capacity = 1
    MaxNow = 1
    MaxCalls = 3
    MaxEvents = 2
    MaxUnderWay = 1
SYMMETRY RelaysAreAlike
CHECK_DEADLOCK FALSE
INVARIANT AnswersItsCommand
