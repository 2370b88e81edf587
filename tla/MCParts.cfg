SPECIFICATION PartsSpec
CONSTANTS
    Loops <- MCLoops
    InlineSlots = 1
    MaxListen = 1
    MaxAfter = 2
    Steps = {2}
    Deltas = {3}
    MaxTime = 4
    EventTypes = {ta, tb}
    MaxEvents = 3
    MaxOn = 3
    MaxLoops = 2
    FsmStates <- MCFsmStates
    FsmEvents = {go, stop}
    DefaultState = 1
    MaxFsmCalls = 4
    Priorities <- MCPriorities
    MaxRules = 4
    MaxStages = 3
    Keys <- MCKeys
    AvlKeys <- MCAvlKeys
    ValuesOf <- MCValuesOf
    ListNodes = {n1, n2, n3}
    Heads = {h1, h2}
    Null = null
    WordBits = 2
    MaxBits = 5
    Vectors = {v1, v2}
    Elements = {e0, e1}
    Fresh = e0
    InlineN = 1
    MaxLength = 3
    Kinds <- MCKinds
INVARIANTS LoopTypeOK TimeAccounted WorstStatusWins HandlersCalledOnce
INVARIANTS EventsHandled FsmFollowsTable RulesInOrder StagesReported
INVARIANTS IteratesInOrder RbBalanced RingsClosed BitsKept SlotsLive
PROPERTIES TickEnds ImplementsDictionary CallsReturn
