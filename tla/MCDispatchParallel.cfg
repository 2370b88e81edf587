SPECIFICATION Spec
CONSTANTS
    Candidates <- MCCandidates
    Capacity = 2
    MaxCommandId = 2
INVARIANTS ParallelSubmissions
