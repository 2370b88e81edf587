SPECIFICATION CallbacksSpec
CONSTANTS
    Loops <- MCTickOnly
    InlineSlots = 1
    MaxListen = 1
    MaxAfter = 2
    Steps = {2}
    Deltas = {3}
    MaxTime = 4
    EventTypes = {ta, tb}
    MaxEvents = 3
    MaxOn = 3
    MaxLoops = 2
    FsmStates <- MCFsmStates
    FsmEvents = {go, stop}
    DefaultState = 1
    MaxFsmCalls = 4
    Priorities <- MCPriorities
    MaxRules = 4
    MaxStages = 3
INVARIANTS RemovedByOwner
