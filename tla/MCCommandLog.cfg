SPECIFICATION FairSpec
CONSTANTS
    TypeIds <- MCTypeIds
    Ephemeral = {}
    SizeOf <- MCSizeOf
    Values <- MCValues
    Blank = 0
    Sizes <- MCSizes
    Offsets <- MCOffsets
    Payloads <- MCPayloads
    MaxIdentity = 3
    MaxCommands = 3
    MaxCancels = 1
    DirectApi = FALSE
INVARIANTS HistoryRebuildsBlocks
PROPERTIES ImplementsLedger EveryCommandSettles
