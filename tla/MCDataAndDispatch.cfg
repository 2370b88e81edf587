SPECIFICATION HalvesSpec
CONSTANTS
    TypeIds <- MCTypeIds
    Ephemeral <- MCEphemeral
    SizeOf <- MCSizeOf
    Values <- MCValues
    Blank = 0
    Sizes <- MCSizes
    Offsets <- MCOffsets
    Payloads <- MCPayloads
    MaxIdentity = 3
    MaxRelations = 2
    Fields <- MCFields
    ChunkSizes <- MCChunks
    NewLayouts <- MCNewLayouts
    MaxLoads = 1
    MaxSaved = 2
    Uses <- MCUses
    Candidates <- MCCandidates
    Capacity = 2
    MaxCommandId = 2
INVARIANTS WorldTypeOK OnePlace NothingLost BulkMatches MapsMirror
PROPERTIES ConversionKeepsFields LoadRestores
INVARIANTS DispatchTypeOK NoConflict RunOnceInOrder SequentialSubmissions
