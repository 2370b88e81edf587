SPECIFICATION WorldSpec
CONSTANTS
    TypeIds <- MCTypeIds
    Ephemeral <- MCEphemeral
    SizeOf <- MCSizeOf
    Values <- MCValues
    Blank = 0
    Sizes <- MCSizes
    Offsets <- MCOffsets
    Payloads <- MCPayloads
    MaxIdentity = 3
    MaxRelations = 2
    Fields <- MCFields
    ChunkSizes <- MCChunks
    NewLayouts <- MCNewLayouts
    MaxLoads = 1
    MaxSaved = 2
    Uses <- MCReloads
PROPERTY SnapshotIsWhole
