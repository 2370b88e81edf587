SPECIFICATION Spec
CONSTANTS
    TypeIds <- MCTypeIds
    Ephemeral <- MCEphemeral
    SizeOf <- MCSizeOf
    Values <- MCValues
    Blank = 0
    Sizes <- MCSizes
    Offsets <- MCOffsets
    Payloads <- MCPayloads
    MaxIdentity = 4
    MaxCommands = 2
    MaxCancels = 1
    DirectApi = TRUE
INVARIANTS NoEventForEphemeral
